----------------------------- MODULE OrgProofs -----------------------------
(***************************************************************************)
(* Proofs about two computations of an org's requests: its lists, for      *)
(* every table, page size, set of projects and number of changes, and the  *)
(* path length check of a subordinate, for bundles of any size.            *)
(***************************************************************************)
EXTENDS Listing, PathValidation, FiniteSetTheorems, TLAPS

-----------------------------------------------------------------------------
(***************************************************************************)
(* The lists.                                                              *)
(***************************************************************************)

ListingTypeOK ==
    /\ kind \in Kinds
    /\ paging \in {"cursor", "offset"}
    /\ table \in [RowIDs -> Rows \cup {EmptyRow, DeletedRow}]
    /\ open \subseteq RowProjects
    /\ caller \in Callers
    /\ request \in RowProjects \cup {NoProject}
    /\ cursor \in [value : Nat, id : Nat]
    /\ offset \in Nat
    /\ done \in BOOLEAN
    /\ changes \in Nat
    /\ shown \in [RowIDs -> Nat]
    /\ steady \subseteq RowIDs
    /\ moved \subseteq RowIDs

\* A row that was shown, and has its sort key since, is not past the cursor.
ShownInv ==
    paging = "cursor" =>
        \A i \in RowIDs \ moved :
            /\ shown[i] <= 1
            /\ shown[i] = 1 =>
                  /\ table[i] # EmptyRow
                  /\ done \/ (cursor # NoCursor
                              /\ (table[i] \in Rows => ~Precedes(cursor, Key(i))))

\* A row that was there all along was shown or is past the cursor.
CursorInv ==
    paging = "cursor" =>
        /\ steady \subseteq Listed \ moved
        /\ \A i \in steady : shown[i] = 1 \/ (~done /\ i \in Remaining)

\* Without changes the rows before the offset are the ones that were shown.
OffsetInv ==
    paging = "offset" /\ changes = 0 =>
        /\ steady = Listed
        /\ \A i \in Listed : shown[i] = IF done \/ Rank(Listed, i) < offset THEN 1 ELSE 0

ListingInv == ListingTypeOK /\ ShownInv /\ CursorInv /\ OffsetInv

SortKeys == [value : Nat, id : Nat]

-----------------------------------------------------------------------------
(* The sort order and the ranks *)

LEMMA PrecedesOrder ==
    ASSUME NEW a \in SortKeys, NEW b \in SortKeys, NEW c \in SortKeys
    PROVE  /\ ~Precedes(a, a)
           /\ Precedes(a, b) /\ Precedes(b, c) => Precedes(a, c)
           /\ a = b \/ Precedes(a, b) \/ Precedes(b, a)
BY DEF SortKeys, Precedes, Less

LEMMA RowFacts ==
    /\ EmptyRow \notin Rows
    /\ DeletedRow \notin Rows
    /\ EmptyRow # DeletedRow
BY ListingAssumption, Zenon DEF EmptyRow, DeletedRow, Rows, NoProject

LEMMA KeyType ==
    ASSUME ListingTypeOK, NEW i \in RowIDs
    PROVE  /\ Key(i) \in SortKeys
           /\ Key(i) # NoCursor
           /\ Key(i).id = i
           /\ cursor \in SortKeys
<1>1. table[i].value \in Nat
  <2>1. table[i] \in Rows \/ table[i] = EmptyRow \/ table[i] = DeletedRow
    BY Zenon DEF ListingTypeOK
  <2>2. \A row \in Rows : row.value \in Nat
    <3>1. SortValues \cup {0} \subseteq Nat
      BY ListingAssumption
    <3> QED
      BY <3>1, Zenon DEF Rows
  <2>3. EmptyRow.value = 0 /\ DeletedRow.value = 0
    BY Zenon DEF EmptyRow, DeletedRow
  <2> QED
    BY <2>1, <2>2, <2>3
<1> QED
  BY <1>1, ListingAssumption, Zenon DEF Key, SortKeys, NoCursor, ListingTypeOK

LEMMA KeyOrder ==
    ASSUME ListingTypeOK, NEW i \in RowIDs, NEW j \in RowIDs
    PROVE  i = j \/ Precedes(Key(i), Key(j)) \/ Precedes(Key(j), Key(i))
<1>1. Key(i) = Key(j) => i = j
  BY KeyType, Zenon
<1> QED
  BY <1>1, KeyType, PrecedesOrder, Zenon

LEMMA Finite ==
    ASSUME NEW S \in SUBSET RowIDs
    PROVE  IsFiniteSet(S) /\ Cardinality(S) \in Nat
BY ListingAssumption, FS_Subset, FS_CardinalityType, Zenon

LEMMA RankType ==
    ASSUME NEW S \in SUBSET RowIDs, NEW i
    PROVE  Rank(S, i) \in Nat
BY Finite, Zenon DEF Rank

\* A row has fewer rows before it than there are.
LEMMA RankBelow ==
    ASSUME ListingTypeOK, NEW S \in SUBSET RowIDs, NEW i \in S
    PROVE  Rank(S, i) < Cardinality(S)
<1> DEFINE B == {j \in S : Precedes(Key(j), Key(i))}
<1>1. B \subseteq S \ {i}
  BY KeyType, PrecedesOrder, Zenon
<1>2. IsFiniteSet(S) /\ Cardinality(S) \in Nat
  BY Finite, Zenon
<1>3. IsFiniteSet(S \ {i}) /\ Cardinality(S \ {i}) = Cardinality(S) - 1
  BY <1>2, FS_RemoveElement, Zenon
<1>4. Cardinality(B) <= Cardinality(S \ {i}) /\ Cardinality(B) \in Nat
  BY <1>1, <1>3, FS_Subset, Finite, Zenon
<1>5. Rank(S, i) = Cardinality(B)
  BY Zenon DEF Rank
<1> QED
  BY <1>2, <1>3, <1>4, <1>5

\* The ranks follow the order.
LEMMA RankOrder ==
    ASSUME ListingTypeOK, NEW S \in SUBSET RowIDs, NEW i \in S, NEW j \in S,
           Precedes(Key(i), Key(j))
    PROVE  Rank(S, i) <= Rank(S, j)
<1> DEFINE B(k) == {x \in S : Precedes(Key(x), Key(k))}
<1>1. B(i) \subseteq B(j)
  BY KeyType, PrecedesOrder, Zenon
<1>2. IsFiniteSet(B(j))
  BY Finite, Zenon
<1>3. Cardinality(B(i)) <= Cardinality(B(j))
  BY <1>1, <1>2, FS_Subset, Zenon
<1> QED
  BY <1>3, Zenon DEF Rank

-----------------------------------------------------------------------------

LEMMA ListingInvInit == ListingInit => ListingInv
<1> SUFFICES ASSUME ListingInit PROVE ListingInv
  BY Zenon
<1>1. ListingTypeOK
  <2>1. table \in [RowIDs -> Rows \cup {EmptyRow, DeletedRow}]
    BY Zenon DEF ListingInit
  <2>2. request \in RowProjects \cup {NoProject}
    BY Zenon DEF ListingInit
  <2>3. steady \subseteq RowIDs
    BY Zenon DEF ListingInit, Listed
  <2> QED
    BY <2>1, <2>2, <2>3, Zenon DEF ListingInit, ListingTypeOK, NoCursor
<1>2. ShownInv
  BY DEF ListingInit, ShownInv
<1>3. CursorInv
  BY Zenon DEF ListingInit, CursorInv, Remaining
<1>4. OffsetInv
  <2>1. \A i \in Listed : ~(Rank(Listed, i) < 0)
    BY RankType DEF Listed
  <2> QED
    BY <2>1, Zenon DEF ListingInit, OffsetInv, Listed
<1> QED
  BY <1>1, <1>2, <1>3, <1>4, Zenon DEF ListingInv

\* A page by cursor: its last row becomes the cursor, and the rest of the
\* rows are past it.
LEMMA CursorPage ==
    ASSUME ListingTypeOK, paging = "cursor", NEW m \in Page,
           \A j \in Page : j # m => Precedes(Key(j), Key(m))
    PROVE  /\ m \in Remaining
           /\ \A i \in Page : ~Precedes(Key(m), Key(i))
           /\ \A i \in Remaining \ Page : Precedes(Key(m), Key(i))
<1> DEFINE S == Remaining
<1>1. S \subseteq RowIDs /\ Page = PageOf(S, 0) /\ m \in S
  BY Zenon DEF Remaining, Listed, Page, PageOf
<1>2. \A i \in S : i \in Page <=> Rank(S, i) < Limit
  BY <1>1, RankType, ListingAssumption DEF PageOf
<1> HIDE DEF S
<1>3. ASSUME NEW i \in Page PROVE ~Precedes(Key(m), Key(i))
  BY <1>1, KeyType, PrecedesOrder, Zenon DEF PageOf
<1>4. ASSUME NEW i \in S \ Page PROVE Precedes(Key(m), Key(i))
  <2>1. Rank(S, i) \in Nat /\ Rank(S, m) \in Nat
    BY <1>1, RankType, Zenon
  <2>2. ~(Rank(S, i) <= Rank(S, m))
    <3>1. ~(Rank(S, i) < Limit) /\ Rank(S, m) < Limit /\ Limit \in Nat
      BY <1>1, <1>2, ListingAssumption, Zenon
    <3> QED
      BY <2>1, <3>1
  <2>3. ~Precedes(Key(i), Key(m)) /\ i # m
    BY <1>1, <2>2, RankOrder, Zenon
  <2> QED
    BY <1>1, <2>3, KeyOrder, Zenon
<1> QED
  BY <1>1, <1>3, <1>4, Zenon DEF S

\* The last page holds the rest of the rows.
LEMMA LastPage ==
    ASSUME ListingTypeOK, ~HasNextPage
    PROVE  /\ paging = "cursor" => Page = Remaining
           /\ paging # "cursor" =>
                 \A i \in Listed : i \in Page <=> ~(Rank(Listed, i) < offset)
<1>1. CASE paging = "cursor"
  <2>1. Remaining \subseteq RowIDs /\ Page = PageOf(Remaining, 0)
        /\ ~(Cardinality(Remaining) > Limit)
    BY <1>1, Zenon DEF Remaining, Listed, Page, HasNextPage
  <2>2. \A i \in Remaining : Rank(Remaining, i) < Limit /\ Rank(Remaining, i) \in Nat
    BY <2>1, RankBelow, RankType, Finite, ListingAssumption
  <2>3. \A i \in Remaining : i \in PageOf(Remaining, 0)
    BY <2>2, ListingAssumption DEF PageOf
  <2> QED
    BY <1>1, <2>1, <2>3, Zenon DEF PageOf
<1>2. CASE paging # "cursor"
  <2>1. Listed \subseteq RowIDs /\ Page = PageOf(Listed, offset)
        /\ ~(Cardinality(Listed) > offset + Limit)
    BY <1>2, Zenon DEF Listed, Page, HasNextPage
  <2>2. \A i \in Listed : Rank(Listed, i) < offset + Limit /\ Rank(Listed, i) \in Nat
    BY <2>1, RankBelow, RankType, Finite, ListingAssumption DEF ListingTypeOK
  <2> QED
    BY <1>2, <2>1, <2>2 DEF PageOf, ListingTypeOK
<1> QED
  BY <1>1, <1>2, Zenon

-----------------------------------------------------------------------------

\* What a page does not change.
LEMMA NextPageFrame ==
    ASSUME NextPage
    PROVE  /\ UNCHANGED <<kind, paging, table, open, caller, request, changes, steady, moved>>
           /\ ~done
           /\ done' = ~HasNextPage
           /\ Listed' = Listed
           /\ \A i : Key(i)' = Key(i)
BY Zenon DEF NextPage, rowVars, Listed, Key

LEMMA NextPageTypeOK == ASSUME ListingTypeOK, NextPage PROVE ListingTypeOK'
<1>1. cursor' \in [value : Nat, id : Nat]
  <2>1. Page \subseteq RowIDs
    BY Zenon DEF Page, PageOf, Remaining, Listed
  <2>2. cursor' = cursor \/ \E i \in Page : cursor' = Key(i)
    BY Zenon DEF NextPage
  <2> QED
    BY <2>1, <2>2, KeyType, Zenon DEF SortKeys, ListingTypeOK
<1>2. offset' \in Nat /\ shown' \in [RowIDs -> Nat]
  BY ListingAssumption DEF ListingTypeOK, NextPage
<1>3. done' \in BOOLEAN
  BY Zenon DEF NextPage
<1> QED
  BY <1>1, <1>2, <1>3, NextPageFrame, Zenon DEF ListingTypeOK

LEMMA NextPageCursor ==
    ASSUME ListingTypeOK, ShownInv, CursorInv, NextPage, paging = "cursor"
    PROVE  ShownInv' /\ CursorInv'
<1>1. Page \subseteq Remaining /\ Remaining \subseteq RowIDs
  BY Zenon DEF Page, PageOf, Remaining, Listed
<1>2. \A i \in RowIDs : shown'[i] = IF i \in Page THEN shown[i] + 1 ELSE shown[i]
  BY Zenon DEF NextPage
<1>3. \A i \in RowIDs : shown[i] \in Nat
  BY Zenon DEF ListingTypeOK
<1>4. \A i \in Page \ moved : shown[i] = 0
  <2> SUFFICES ASSUME NEW i \in Page \ moved PROVE shown[i] = 0
    BY Zenon
  <2>1. table[i] \in Rows /\ (cursor = NoCursor \/ Precedes(cursor, Key(i)))
    BY <1>1, Zenon DEF Remaining, Listed
  <2>2. shown[i] <= 1 /\ shown[i] # 1
    BY <1>1, <2>1, NextPageFrame, Zenon DEF ShownInv
  <2> QED
    BY <1>1, <1>3, <2>2
<1>5. \A i \in RowIDs \ moved : shown'[i] <= 1 /\ (shown'[i] = 1 <=> shown[i] = 1 \/ i \in Page)
  <2> SUFFICES ASSUME NEW i \in RowIDs \ moved
               PROVE  shown'[i] <= 1 /\ (shown'[i] = 1 <=> shown[i] = 1 \/ i \in Page)
    BY Zenon
  <2>1. shown[i] <= 1
    BY Zenon DEF ShownInv
  <2> QED
    BY <1>2, <1>3, <1>4, <2>1
<1>6. \A i \in RowIDs \ moved : shown[i] = 1 \/ i \in Page => table[i] # EmptyRow
  <2>1. \A i \in Page : table[i] # EmptyRow
    BY <1>1, RowFacts, Zenon DEF Remaining, Listed
  <2> QED
    BY <2>1, Zenon DEF ShownInv
<1>7. CASE ~HasNextPage
  <2>1. done'
    BY <1>7, NextPageFrame, Zenon
  <2>2. ShownInv'
    BY <1>5, <1>6, <2>1, NextPageFrame, Zenon DEF ShownInv
  <2>3. \A i \in steady : shown'[i] = 1
    <3>1. Page = Remaining
      BY <1>7, LastPage, Zenon
    <3> QED
      BY <1>1, <1>5, <3>1, Zenon DEF CursorInv, Listed
  <2>4. CursorInv'
    BY <2>3, NextPageFrame, Zenon DEF CursorInv
  <2> QED
    BY <2>2, <2>4, Zenon
<1>8. CASE HasNextPage
  <2>1. PICK m \in Page : /\ \A j \in Page : j # m => Precedes(Key(j), Key(m))
                          /\ cursor' = Key(m)
    BY <1>8, Zenon DEF NextPage
  <2>2. /\ m \in Remaining /\ m \in RowIDs
        /\ \A i \in Page : ~Precedes(Key(m), Key(i))
        /\ \A i \in Remaining \ Page : Precedes(Key(m), Key(i))
    BY <1>1, <2>1, CursorPage, Zenon
  <2>3. cursor' # NoCursor /\ ~done'
    BY <1>8, <2>1, <2>2, KeyType, NextPageFrame, Zenon
  <2>4. \A i \in RowIDs : Precedes(cursor, Key(i))' <=> Precedes(Key(m), Key(i))
    BY <2>1, NextPageFrame, Zenon DEF Precedes
  <2>5. ASSUME NEW i \in RowIDs \ moved, shown[i] = 1 \/ i \in Page, table[i] \in Rows
        PROVE  ~Precedes(Key(m), Key(i))
    <3>1. CASE i \in Page
      BY <2>2, <3>1, Zenon
    <3>2. CASE shown[i] = 1
      <4>1. cursor # NoCursor /\ ~Precedes(cursor, Key(i))
        BY <2>5, <3>2, NextPageFrame, Zenon DEF ShownInv
      <4>2. Precedes(cursor, Key(m))
        BY <2>2, <4>1, Zenon DEF Remaining
      <4> QED
        BY <2>2, <4>1, <4>2, KeyType, PrecedesOrder, Zenon
    <3> QED
      BY <2>5, <3>1, <3>2, Zenon
  <2>6. ShownInv'
    <3> SUFFICES ASSUME NEW i \in RowIDs \ moved
                 PROVE  /\ shown'[i] <= 1
                        /\ shown'[i] = 1 =>
                              /\ table[i] # EmptyRow
                              /\ cursor' # NoCursor
                              /\ table[i] \in Rows => ~Precedes(cursor, Key(i))'
      BY NextPageFrame, Zenon DEF ShownInv, Rows
    <3> QED
      BY <1>5, <1>6, <2>3, <2>4, <2>5, Zenon
  <2>7. \A i \in steady : shown'[i] = 1 \/ Precedes(Key(m), Key(i))
    <3>1. \A i \in steady : i \in RowIDs \ moved /\ (shown[i] = 1 \/ i \in Remaining)
      BY Zenon DEF CursorInv, Listed
    <3> QED
      BY <1>5, <2>2, <3>1, Zenon
  <2>8. CursorInv'
    <3>1. \A i \in steady : shown'[i] = 1 \/ i \in Remaining'
      BY <2>4, <2>7, NextPageFrame, Zenon DEF CursorInv, Remaining, Listed
    <3> QED
      BY <2>3, <3>1, NextPageFrame, Zenon DEF CursorInv
  <2> QED
    BY <2>6, <2>8, Zenon
<1> QED
  BY <1>7, <1>8, Zenon

LEMMA NextPageOffset ==
    ASSUME ListingTypeOK, OffsetInv, NextPage, paging = "offset", changes = 0
    PROVE  OffsetInv'
<1>1. /\ Listed \subseteq RowIDs /\ offset \in Nat /\ Limit \in Nat
      /\ Page = PageOf(Listed, offset)
  BY ListingAssumption, Zenon DEF Listed, Page, ListingTypeOK
<1>2. \A i \in Listed : shown'[i] = IF i \in Page THEN shown[i] + 1 ELSE shown[i]
  BY <1>1, Zenon DEF NextPage
<1>3. \A i \in Listed : shown[i] = IF Rank(Listed, i) < offset THEN 1 ELSE 0
  BY NextPageFrame, Zenon DEF OffsetInv
<1>4. \A i \in Listed : Rank(Listed, i) \in Nat
  BY <1>1, RankType, Zenon
<1>5. \A i \in Listed : Rank(Listed, i)' = Rank(Listed, i)
  BY NextPageFrame DEF Rank, Precedes
<1>6. ASSUME NEW i \in Listed
      PROVE  shown'[i] = IF done' \/ Rank(Listed, i) < offset' THEN 1 ELSE 0
  <2>1. CASE HasNextPage
    <3>1. offset' = offset + Limit /\ ~done'
      BY <2>1, NextPageFrame, Zenon DEF NextPage
    <3> QED
      BY <1>1, <1>2, <1>3, <1>4, <3>1 DEF PageOf
  <2>2. CASE ~HasNextPage
    <3>1. i \in Page <=> ~(Rank(Listed, i) < offset)
      BY <2>2, LastPage, Zenon
    <3>2. done'
      BY <2>2, NextPageFrame, Zenon
    <3> QED
      BY <1>2, <1>3, <3>1, <3>2
  <2> QED
    BY <2>1, <2>2, Zenon
<1>7. steady' = Listed'
  BY NextPageFrame, Zenon DEF OffsetInv
<1> QED
  BY <1>5, <1>6, <1>7, NextPageFrame DEF OffsetInv

LEMMA NextPageStep == ASSUME ListingInv, NextPage PROVE ListingInv'
<1>1. ListingTypeOK'
  BY NextPageTypeOK, Zenon DEF ListingInv
<1>2. ShownInv' /\ CursorInv'
  BY NextPageCursor, NextPageFrame, Zenon DEF ListingInv, ShownInv, CursorInv
<1>3. OffsetInv'
  BY NextPageOffset, NextPageFrame, Zenon DEF ListingInv, OffsetInv
<1> QED
  BY <1>1, <1>2, <1>3, Zenon DEF ListingInv

-----------------------------------------------------------------------------

\* What a change between two pages may do to the rows: the ones that were
\* shown keep their keys, are deleted or count as moved, and the steady ones
\* stay listed under their keys.
LEMMA ChangeKeepsInv ==
    ASSUME ListingInv, Changed, ListingTypeOK', moved \subseteq moved',
           paging = "cursor" =>
               /\ \A i \in RowIDs \ moved' :
                     shown[i] = 1 => /\ table'[i] # EmptyRow
                                     /\ table'[i] \in Rows => table'[i] = table[i]
               /\ steady' \subseteq (steady \cap Listed') \ moved'
               /\ \A i \in steady' : table'[i] = table[i]
    PROVE  ListingInv'
<1>1. /\ UNCHANGED <<kind, paging, request, cursor, offset, done, shown>>
      /\ ~done /\ changes' = changes + 1
  BY Zenon DEF Changed, listVars
<1>2. \A i : table'[i] = table[i] => (Precedes(cursor, Key(i))' <=> Precedes(cursor, Key(i)))
  BY <1>1, Zenon DEF Precedes, Key
<1>3. OffsetInv'
  <2>1. changes' # 0
    BY <1>1 DEF ListingInv, ListingTypeOK
  <2> QED
    BY <2>1, Zenon DEF OffsetInv
<1>4. ShownInv'
  <2> SUFFICES ASSUME paging = "cursor", NEW i \in RowIDs \ moved'
               PROVE  /\ shown[i] <= 1
                      /\ shown[i] = 1 =>
                            /\ table'[i] # EmptyRow
                            /\ cursor # NoCursor
                            /\ table'[i] \in Rows => ~Precedes(cursor, Key(i))'
    BY <1>1, Zenon DEF ShownInv, Rows
  <2>1. i \in RowIDs \ moved /\ ShownInv
    BY Zenon DEF ListingInv
  <2>2. shown[i] <= 1
    BY <2>1, Zenon DEF ShownInv
  <2>3. ASSUME shown[i] = 1
        PROVE  /\ table'[i] # EmptyRow
               /\ cursor # NoCursor
               /\ table'[i] \in Rows => ~Precedes(cursor, Key(i))'
    <3>1. cursor # NoCursor /\ (table[i] \in Rows => ~Precedes(cursor, Key(i)))
      BY <1>1, <2>1, <2>3, Zenon DEF ShownInv
    <3> QED
      BY <1>2, <2>3, <3>1, Zenon
  <2> QED
    BY <2>2, <2>3, Zenon
<1>5. CursorInv'
  <2> SUFFICES ASSUME paging = "cursor"
               PROVE  /\ steady' \subseteq Listed' \ moved'
                      /\ \A i \in steady' : shown[i] = 1 \/ i \in Remaining'
    BY <1>1, Zenon DEF CursorInv
  <2>1. ASSUME NEW i \in steady', shown[i] # 1
        PROVE  i \in Remaining'
    <3>1. i \in Remaining
      BY <2>1, Zenon DEF ListingInv, CursorInv
    <3>2. cursor' = NoCursor \/ Precedes(cursor, Key(i))'
      BY <1>1, <1>2, <3>1, Zenon DEF Remaining
    <3> QED
      BY <2>1, <3>2, Zenon DEF Remaining
  <2> QED
    BY <2>1, Zenon
<1> QED
  BY <1>3, <1>4, <1>5, Zenon DEF ListingInv

LEMMA InsertRowStep == ASSUME ListingInv, NEW i \in RowIDs, InsertRow(i) PROVE ListingInv'
<1>1. /\ Changed /\ UNCHANGED <<open, caller, steady, moved>>
      /\ UNCHANGED <<kind, paging, request, cursor, offset, done, shown>>
      /\ table[i] = EmptyRow /\ changes' = changes + 1
  BY Zenon DEF InsertRow, Changed, listVars
<1>2. PICK row \in Rows : table' = [table EXCEPT ![i] = row]
  BY Zenon DEF InsertRow
<1>3. \A j \in RowIDs : j # i => table'[j] = table[j]
  BY <1>2, Zenon DEF ListingInv, ListingTypeOK
<1>4. ListingTypeOK'
  BY <1>1, <1>2 DEF ListingInv, ListingTypeOK
<1>5. ASSUME paging = "cursor", NEW j \in RowIDs \ moved', shown[j] = 1
      PROVE  j # i /\ table[j] # EmptyRow
  BY <1>1, <1>5, Zenon DEF ListingInv, ShownInv
<1>6. ASSUME paging = "cursor", NEW j \in steady
      PROVE  j \in RowIDs /\ j # i /\ j \in Listed /\ j \notin moved
  BY <1>1, <1>6, RowFacts, Zenon DEF ListingInv, CursorInv, Listed
<1>7. ASSUME paging = "cursor", NEW j \in steady PROVE j \in Listed'
  BY <1>1, <1>3, <1>6, <1>7, Zenon
  DEF Listed, InScope, ListedProject, VisibleProjects, Restricted, Rows
<1> QED
  BY <1>1, <1>3, <1>4, <1>5, <1>6, <1>7, ChangeKeepsInv, Zenon

LEMMA DeleteRowStep == ASSUME ListingInv, NEW i \in RowIDs, DeleteRow(i) PROVE ListingInv'
<1>1. /\ Changed /\ UNCHANGED <<open, caller, moved>>
      /\ UNCHANGED <<kind, paging, request, cursor, offset, done, shown>>
      /\ table' = [table EXCEPT ![i] = DeletedRow]
      /\ steady' = steady \ {i} /\ changes' = changes + 1
  BY Zenon DEF DeleteRow, Changed, listVars
<1>2. \A j \in RowIDs : table'[j] = IF j = i THEN DeletedRow ELSE table[j]
  BY <1>1, Zenon DEF ListingInv, ListingTypeOK
<1>3. ListingTypeOK'
  BY <1>1 DEF ListingInv, ListingTypeOK
<1>4. ASSUME paging = "cursor", NEW j \in RowIDs \ moved', shown[j] = 1
      PROVE  table[j] # EmptyRow
  BY <1>1, <1>4, Zenon DEF ListingInv, ShownInv
<1>5. ASSUME paging = "cursor", NEW j \in steady'
      PROVE  j \in RowIDs /\ j # i /\ j \in Listed /\ j \notin moved
  BY <1>1, <1>5, Zenon DEF ListingInv, CursorInv, Listed
<1>6. ASSUME paging = "cursor", NEW j \in steady' PROVE j \in Listed'
  BY <1>1, <1>2, <1>5, <1>6
  DEF Listed, InScope, ListedProject, VisibleProjects, Restricted, Rows
<1> QED
  BY <1>1, <1>2, <1>3, <1>4, <1>5, <1>6, RowFacts, ChangeKeepsInv, Zenon

LEMMA RenameRowStep == ASSUME ListingInv, NEW i \in RowIDs, RenameRow(i) PROVE ListingInv'
<1>1. /\ Changed /\ UNCHANGED <<open, caller>>
      /\ UNCHANGED <<kind, paging, request, cursor, offset, done, shown>>
      /\ table[i] \in Rows /\ moved' = moved \cup {i}
      /\ steady' = steady \ {i} /\ changes' = changes + 1
  BY Zenon DEF RenameRow, Changed, listVars
<1>2. PICK v \in SortValues : table' = [table EXCEPT ![i] = [table[i] EXCEPT !.value = v]]
  BY Zenon DEF RenameRow
<1>3. \A j \in RowIDs : j # i => table'[j] = table[j]
  BY <1>2, Zenon DEF ListingInv, ListingTypeOK
<1>4. ListingTypeOK'
  <2>1. [table[i] EXCEPT !.value = v] \in Rows
    BY <1>1, Zenon DEF Rows
  <2> QED
    BY <1>1, <1>2, <2>1 DEF ListingInv, ListingTypeOK
<1>5. ASSUME paging = "cursor", NEW j \in RowIDs \ moved', shown[j] = 1
      PROVE  j # i /\ table[j] # EmptyRow
  BY <1>1, <1>5, Zenon DEF ListingInv, ShownInv
<1>6. ASSUME paging = "cursor", NEW j \in steady'
      PROVE  j \in RowIDs /\ j # i /\ j \in Listed /\ j \notin moved
  BY <1>1, <1>6, Zenon DEF ListingInv, CursorInv, Listed
<1>7. ASSUME paging = "cursor", NEW j \in steady' PROVE j \in Listed'
  BY <1>1, <1>3, <1>6, <1>7, Zenon
  DEF Listed, InScope, ListedProject, VisibleProjects, Restricted, Rows
<1> QED
  BY <1>1, <1>3, <1>4, <1>5, <1>6, <1>7, ChangeKeepsInv, Zenon

LEMMA AccessChangeStep ==
    ASSUME ListingInv, ChangeGrants \/ \E p \in open : CloseProject(p)
    PROVE  ListingInv'
<1>1. /\ Changed /\ UNCHANGED <<table, moved>>
      /\ UNCHANGED <<kind, paging, request, cursor, offset, done, shown>>
      /\ changes' = changes + 1
  BY Zenon DEF ChangeGrants, CloseProject, Changed, listVars
<1>2. steady' = steady \cap Listed' \/ (steady' = steady /\ caller' = caller)
  BY Zenon DEF ChangeGrants, CloseProject
<1>3. open' \subseteq open /\ caller' \in Callers
  BY Zenon DEF ChangeGrants, CloseProject, ListingInv, ListingTypeOK
<1>4. ListingTypeOK'
  BY <1>1, <1>2, <1>3 DEF ListingInv, ListingTypeOK
<1>5. ASSUME paging = "cursor", NEW j \in RowIDs \ moved', shown[j] = 1
      PROVE  table[j] # EmptyRow
  BY <1>1, <1>5, Zenon DEF ListingInv, ShownInv
<1>6. ASSUME paging = "cursor" PROVE steady' \subseteq (steady \cap Listed') \ moved'
  <2>1. caller' = caller => Listed' = Listed
    BY <1>1
    DEF Listed, InScope, ListedProject, VisibleProjects, Restricted, Rows
  <2> QED
    BY <1>1, <1>2, <1>6, <2>1, Zenon DEF ListingInv, CursorInv
<1> QED
  BY <1>1, <1>4, <1>5, <1>6, ChangeKeepsInv, Zenon

LEMMA ListingInvStep == ListingInv /\ [ListingNext]_listingVars => ListingInv'
<1>1. ASSUME ListingInv, ListingNext PROVE ListingInv'
  BY <1>1, NextPageStep, InsertRowStep, DeleteRowStep, RenameRowStep, AccessChangeStep, Zenon
  DEF ListingNext
<1>2. ASSUME ListingInv, UNCHANGED listingVars PROVE ListingInv'
  <2>1. /\ UNCHANGED <<kind, paging, table, open, caller, request, cursor, offset, done>>
        /\ UNCHANGED <<changes, shown, steady, moved>>
    BY <1>2, Zenon DEF listingVars
  <2>2. Listed' = Listed
    BY <2>1, Zenon DEF Listed
  <2>3. \A i : Precedes(cursor, Key(i))' <=> Precedes(cursor, Key(i))
    BY <2>1, Zenon DEF Precedes, Key
  <2>4. Remaining' = Remaining
    BY <2>1, <2>2, <2>3, Zenon DEF Remaining
  <2>5. \A i : Rank(Listed, i)' = Rank(Listed, i)
    BY <2>1, <2>2, Zenon DEF Rank, Precedes, Key
  <2>6. ListingTypeOK' /\ CursorInv'
    BY <1>2, <2>1, <2>2, <2>4, Zenon DEF ListingInv, ListingTypeOK, CursorInv
  <2>7. ShownInv'
    BY <1>2, <2>1, <2>3, Zenon DEF ListingInv, ShownInv
  <2>8. OffsetInv'
    BY <1>2, <2>1, <2>2, <2>5, Zenon DEF ListingInv, OffsetInv
  <2> QED
    BY <2>6, <2>7, <2>8, Zenon DEF ListingInv
<1> QED
  BY <1>1, <1>2, Zenon

LEMMA ListingInvCorrect == ListingSpec => []ListingInv
BY ListingInvInit, ListingInvStep, PTL DEF ListingSpec

\* A list that pages to its end shows each row that stayed as it was exactly
\* once: by cursor under any changes, by offset without changes (pageBy,
\* setPage, listRows).
THEOREM ListsAllOnceCorrect == ListingSpec => []ListsAllOnce
<1>1. ListingInv => ListsAllOnce
  <2> SUFFICES ASSUME ListingInv, done, paging = "cursor" \/ changes = 0, NEW i \in steady
               PROVE  shown[i] = 1
    BY Zenon DEF ListsAllOnce
  <2>1. paging = "cursor" \/ paging = "offset"
    BY Zenon DEF ListingInv, ListingTypeOK
  <2>2. CASE paging = "cursor"
    BY <2>2, Zenon DEF ListingInv, CursorInv
  <2>3. CASE paging = "offset"
    BY <2>3, Zenon DEF ListingInv, OffsetInv
  <2> QED
    BY <2>1, <2>2, <2>3, Zenon
<1> QED
  BY <1>1, ListingInvCorrect, PTL

\* Paging by cursor shows no row twice that keeps its sort key (the row
\* comparison of pageBy).
THEOREM NoRepeatsCorrect == ListingSpec => []NoRepeats
<1>1. ListingInv => NoRepeats
  BY Zenon DEF ListingInv, ShownInv, NoRepeats
<1> QED
  BY <1>1, ListingInvCorrect, PTL

\* The rows of a list are the rows that its caller may read one by one
\* (whereProjectScope, ListProjects and RowAccess).
THEOREM ListAgreesWithRowAccessCorrect == ListingSpec => []ListAgreesWithRowAccess
<1>1. ListingInv => ListAgreesWithRowAccess
  <2> SUFFICES ASSUME ListingInv, MayList(caller, request), NEW p \in RowProjects \cup {NoProject}
               PROVE  /\ InScope(caller, request, p) =>
                             Readable(caller, p) \/ p \in RowProjects \ open
                      /\ request = NoProject /\ caller.type # "service" /\ Readable(caller, p) =>
                             InScope(caller, request, p) \/ (p = NoProject /\ Restricted(caller))
    BY Zenon DEF ListAgreesWithRowAccess
  <2>1. /\ caller \in Callers /\ open \subseteq RowProjects /\ NoProject \notin RowProjects
        /\ request \in RowProjects \cup {NoProject}
    BY ListingAssumption, Zenon DEF ListingInv, ListingTypeOK
  <2>2. CASE caller.type = "service"
    BY <2>1, <2>2, Zenon DEF Callers, Readable
  <2>3. CASE caller.type = "user"
    <3>1. caller.projects \subseteq RowProjects
      BY <2>1, <2>3, Zenon DEF Callers
    <3>2. ~Restricted(caller) /\ ListedProject(caller, request) = request
      BY <2>3, Zenon DEF Restricted, ListedProject
    <3> QED
      BY <2>1, <2>3, <3>1, <3>2, Zenon DEF MayList, InScope, Readable, CanView, VisibleProjects
  <2>4. CASE caller.type = "key" /\ caller.projects = {}
    <3>1. ~Restricted(caller) /\ ListedProject(caller, request) = request
      BY <2>4, Zenon DEF Restricted, ListedProject
    <3> QED
      BY <2>1, <2>4, <3>1, Zenon DEF MayList, InScope, Readable, VisibleProjects
  <2>5. CASE caller.type = "key" /\ caller.projects # {}
    <3>1. PICK q \in RowProjects : caller.projects = {q}
      BY <2>1, <2>5, Zenon DEF Callers
    <3>2. Restricted(caller) /\ q \in open /\ request \in {NoProject, q}
      BY <2>5, <3>1, Zenon DEF Restricted, MayList
    <3>3. ListedProject(caller, request) = q
      BY <3>1, <3>2, Zenon DEF ListedProject
    <3> QED
      BY <2>1, <2>5, <3>1, <3>2, <3>3, Zenon DEF InScope, Readable
  <2>6. caller.type \in {"service", "user", "key"}
    BY <2>1, Zenon DEF Callers
  <2> QED
    BY <2>2, <2>3, <2>4, <2>5, <2>6, Zenon
<1> QED
  BY <1>1, ListingInvCorrect, PTL

-----------------------------------------------------------------------------
(***************************************************************************)
(* The path length check. Up and MaxPathLength are recursive functions: a  *)
(* least counterexample (Least) shows that they exist, that Up is the      *)
(* chain of the parent (IsChain), and that MaxPathLength leaves room for   *)
(* the CAs below exactly when every constrained CA of the chain admits     *)
(* them (Admits). The loop, which climbs, keeps the tightest of those      *)
(* constraints (Tightest) and so decides the same.                         *)
(***************************************************************************)

\* Every non-empty set of numbers has a least one: the induction behind the
\* recursive functions of PathValidation.
LEMMA Least ==
    ASSUME NEW S \in SUBSET Nat, S # {}
    PROVE  \E n \in S : \A m \in S : n <= m
  <1>1. PICK n \in S : \A m \in S : <<m, n>> \notin OpToRel(<, Nat)
    BY WFMin, NatLessThanWellFounded, Zenon
  <1>2. \A m \in S : ~(m < n)
    BY <1>1, Zenon DEF OpToRel
  <1> QED
    BY <1>2

\* The step of Up.
Above(c) == IF c = 0 THEN 0 ELSE IF IsSelfSigned(c) THEN 0 ELSE issuer[c]

PathTypeOK ==
    /\ cert \in [1 .. N -> Certificates]
    /\ issuer \in [1 .. N -> 0 .. N]
    /\ maxPathLen \in Int

\* u is the chain of the parent.
IsChain(u) ==
    /\ u \in [1 .. N + 1 -> 0 .. N]
    /\ u[1] = Parent
    /\ \A d \in 1 .. N : u[d + 1] = Above(u[d])

LEMMA AboveType == ASSUME PathTypeOK, NEW c \in 0 .. N PROVE Above(c) \in 0 .. N
  BY PathLengthAssumption DEF PathTypeOK, Above

\* The first n members of the chain.
StartsChain(n, f) ==
    /\ f \in [1 .. n -> 0 .. N]
    /\ f[1] = Parent
    /\ \A d \in 1 .. n - 1 : f[d + 1] = Above(f[d])

LEMMA ChainOfOne == \E f : StartsChain(1, f)
  <1>1. StartsChain(1, [d \in 1 .. 1 |-> Parent])
    BY PathLengthAssumption DEF StartsChain, Parent
  <1> QED
    BY <1>1, Zenon

LEMMA ChainGrows ==
    ASSUME PathTypeOK, NEW n \in Nat \ {0}, NEW f, StartsChain(n, f)
    PROVE  \E g : StartsChain(n + 1, g)
  <1> DEFINE g == [d \in 1 .. n + 1 |-> IF d <= n THEN f[d] ELSE Above(f[n])]
  <1>1. f[n] \in 0 .. N /\ Above(f[n]) \in 0 .. N
    BY AboveType DEF StartsChain
  <1>2. g \in [1 .. n + 1 -> 0 .. N]
    BY <1>1 DEF StartsChain
  <1>3. g[1] = Parent
    BY DEF StartsChain
  <1>4. ASSUME NEW d \in 1 .. (n + 1) - 1
        PROVE  g[d + 1] = Above(g[d])
    <2>1. g[d] = f[d]
      OBVIOUS
    <2>2. CASE d = n
      BY <2>1, <2>2
    <2>3. CASE d # n
      <3>1. g[d + 1] = f[d + 1] /\ d \in 1 .. n - 1
        BY <2>3
      <3> QED
        BY <2>1, <3>1, Zenon DEF StartsChain
    <2> QED
      BY <2>2, <2>3, Zenon
  <1>5. StartsChain(n + 1, g)
    BY <1>2, <1>3, <1>4, Zenon DEF StartsChain
  <1> QED
    BY <1>5, Zenon

\* A chain of any length exists.
LEMMA ChainsExist ==
    ASSUME PathTypeOK
    PROVE  \A n \in Nat \ {0} : \E f : StartsChain(n, f)
  <1> DEFINE T == {n \in Nat \ {0} : ~ \E f : StartsChain(n, f)}
  <1>1. SUFFICES ASSUME T # {}
                 PROVE  FALSE
    BY Zenon
  <1>2. T \in SUBSET Nat
    BY Zenon
  <1>3. PICK n \in T : \A m \in T : n <= m
    <2> HIDE DEF T
    <2> QED
      BY <1>1, <1>2, Least, Zenon
  <1>4. n \in Nat \ {0} /\ ~ \E f : StartsChain(n, f)
    BY Zenon
  <1>5. n # 1
    BY <1>4, ChainOfOne, Zenon
  <1>6. n - 1 \in Nat \ {0} /\ (n - 1) + 1 = n
    BY <1>4, <1>5
  <1>7. n - 1 \notin T
    <2> HIDE DEF T
    <2> QED
      BY <1>3, <1>6
  <1>8. PICK f : StartsChain(n - 1, f)
    BY <1>6, <1>7, Zenon
  <1>9. \E g : StartsChain((n - 1) + 1, g)
    BY <1>6, <1>8, ChainGrows, Zenon
  <1> QED
    BY <1>4, <1>6, <1>9, Zenon

\* Up is the chain of the parent.
LEMMA UpIsChain == PathTypeOK => IsChain(Up)
  <1> SUFFICES ASSUME PathTypeOK
               PROVE  IsChain(Up)
    BY Zenon
  <1> DEFINE G(f) == [d \in 1 .. N + 1 |->
                        IF d = 1 THEN Parent
                        ELSE IF f[d - 1] = 0 THEN 0
                        ELSE IF IsSelfSigned(f[d - 1]) THEN 0
                        ELSE issuer[f[d - 1]]]
  <1>0. N \in Nat \ {0} /\ N + 1 \in Nat \ {0} /\ (N + 1) - 1 = N
    BY PathLengthAssumption
  <1>1. PICK f : StartsChain(N + 1, f)
    BY <1>0, ChainsExist, Zenon
  <1>2. ASSUME NEW d \in 1 .. N + 1
        PROVE  f[d] = G(f)[d]
    <2>1. CASE d = 1
      BY <1>1, <2>1, Zenon DEF StartsChain
    <2>2. CASE d # 1
      <3>1. d - 1 \in 1 .. (N + 1) - 1 /\ (d - 1) + 1 = d
        BY <1>0, <2>2
      <3>2. f[d] = Above(f[d - 1])
        BY <1>1, <3>1, Zenon DEF StartsChain
      <3> QED
        BY <2>2, <3>2, Zenon DEF Above
    <2> QED
      BY <2>1, <2>2, Zenon
  <1>3. f = G(f)
    BY <1>1, <1>2, Zenon DEF StartsChain
  <1>4. Up = G(Up)
    <2> HIDE DEF G
    <2>1. (CHOOSE u : u = G(u)) = G(CHOOSE u : u = G(u))
      BY <1>3, Zenon
    <2> QED
      BY <2>1, Zenon DEF Up, G
  <1>5. DOMAIN Up = 1 .. N + 1 /\ Up = [d \in 1 .. N + 1 |-> Up[d]] /\ Up[1] = Parent
    BY <1>0, <1>4
  <1>6. ASSUME NEW d \in 1 .. N
        PROVE  Up[d + 1] = Above(Up[d])
    <2>1. d + 1 \in 1 .. N + 1 /\ d + 1 # 1 /\ (d + 1) - 1 = d
      BY <1>0
    <2>2. G(Up)[d + 1] = Above(Up[d])
      BY <2>1, Zenon DEF Above
    <2> QED
      BY <1>4, <2>2, Zenon
  <1>7. \A d \in 1 .. N + 1 : Up[d] \in 0 .. N
    <2> DEFINE T == {d \in 1 .. N + 1 : Up[d] \notin 0 .. N}
    <2>1. SUFFICES ASSUME T # {}
                   PROVE  FALSE
      BY Zenon
    <2>2. T \in SUBSET Nat
      BY <1>0
    <2>3. PICK n \in T : \A m \in T : n <= m
      <3> HIDE DEF T
      <3> QED
        BY <2>1, <2>2, Least, Zenon
    <2>4. n # 1
      BY <1>0, <1>5 DEF Parent
    <2>5. n - 1 \in 1 .. N /\ n - 1 \in 1 .. N + 1 /\ (n - 1) + 1 = n
      BY <1>0, <2>4
    <2>6. n - 1 \notin T
      <3> HIDE DEF T
      <3> QED
        BY <1>0, <2>2, <2>3
    <2>7. Up[n - 1] \in 0 .. N
      BY <2>5, <2>6, Zenon
    <2>8. Up[n] = Above(Up[n - 1])
      BY <1>6, <2>5, Zenon
    <2> QED
      BY <2>7, <2>8, AboveType, Zenon
  <1> QED
    BY <1>5, <1>6, <1>7, Zenon DEF IsChain

\* The step of MaxPathLength.
Processed(c, x) ==
    LET spent == x - IF IsSelfSigned(c) THEN 0 ELSE 1
    IN  IF pathLenConstraint(c) /\ cert[c].max < spent THEN cert[c].max ELSE spent

\* m counts down from the top to distance n.
IsCount(n, m) ==
    /\ m \in [n .. N + 1 -> Int]
    /\ \A d \in n .. N + 1 :
          m[d] = IF d = N + 1 \/ Up[d] = 0 THEN N + Following ELSE Processed(Up[d], m[d + 1])

LEMMA ProcessedType ==
    ASSUME PathTypeOK, NEW c \in 1 .. N, NEW x \in Int
    PROVE  /\ cert[c].max \in Int
           /\ Processed(c, x) \in Int
  <1>1. cert[c] \in BasicConstraints
    BY PathLengthAssumption, Zenon DEF PathTypeOK
  <1>2. cert[c].max \in Int
    BY <1>1, Zenon DEF BasicConstraints
  <1> QED
    BY <1>2 DEF Processed

LEMMA FollowingType == PathTypeOK => Following \in Nat \ {0}
  BY DEF PathTypeOK, Following

LEMMA CountOfTop == ASSUME PathTypeOK PROVE \E m : IsCount(N + 1, m)
  <1>1. N + Following \in Int
    BY FollowingType, PathLengthAssumption
  <1>2. IsCount(N + 1, [d \in N + 1 .. N + 1 |-> N + Following])
    BY <1>1, PathLengthAssumption DEF IsCount
  <1> QED
    BY <1>2, Zenon

LEMMA CountGrows ==
    ASSUME PathTypeOK, NEW n \in 1 .. N, NEW m, IsCount(n + 1, m)
    PROVE  \E g : IsCount(n, g)
  <1> DEFINE v == IF Up[n] = 0 THEN N + Following ELSE Processed(Up[n], m[n + 1])
  <1> DEFINE g == [d \in n .. N + 1 |-> IF d = n THEN v ELSE m[d]]
  <1>0. N \in Nat \ {0} /\ n \in Int
    BY PathLengthAssumption
  <1>1. v \in Int
    <2>1. Up[n] \in 0 .. N /\ m[n + 1] \in Int
      BY <1>0, UpIsChain DEF IsChain, IsCount
    <2>2. Up[n] # 0 => Processed(Up[n], m[n + 1]) \in Int
      BY <1>0, <2>1, ProcessedType
    <2>3. N + Following \in Int
      BY <1>0, FollowingType
    <2> QED
      BY <2>2, <2>3, Zenon
  <1> HIDE DEF v
  <1>2. g \in [n .. N + 1 -> Int]
    BY <1>0, <1>1 DEF IsCount
  <1>3. ASSUME NEW d \in n .. N + 1
        PROVE  g[d] = IF d = N + 1 \/ Up[d] = 0 THEN N + Following ELSE Processed(Up[d], g[d + 1])
    <2>1. CASE d = n
      <3>1. g[d] = v /\ d # N + 1 /\ g[d + 1] = m[n + 1]
        BY <1>0, <2>1
      <3> QED
        BY <2>1, <3>1, Zenon DEF v
    <2>2. CASE d # n
      <3>1. g[d] = m[d] /\ d \in n + 1 .. N + 1
        BY <1>0, <2>2
      <3>2. d # N + 1 => g[d + 1] = m[d + 1]
        BY <1>0, <2>2
      <3> QED
        BY <3>1, <3>2, Zenon DEF IsCount
    <2> QED
      BY <2>1, <2>2, Zenon
  <1>4. IsCount(n, g)
    BY <1>2, <1>3, Zenon DEF IsCount
  <1> QED
    BY <1>4, Zenon

\* A count down to the parent exists.
LEMMA CountExists == ASSUME PathTypeOK PROVE \E m : IsCount(1, m)
  <1> DEFINE T == {k \in 0 .. N : ~ \E m : IsCount((N + 1) - k, m)}
  <1>0. N \in Nat \ {0}
    BY PathLengthAssumption, Zenon
  <1>1. SUFFICES ASSUME T # {}
                 PROVE  FALSE
    <2>1. N \in 0 .. N /\ (N + 1) - N = 1
      BY <1>0
    <2> QED
      BY <1>1, <2>1, Zenon
  <1>2. T \in SUBSET Nat
    BY <1>0
  <1>3. PICK k \in T : \A j \in T : k <= j
    <2> HIDE DEF T
    <2> QED
      BY <1>1, <1>2, Least, Zenon
  <1>4. k \in 0 .. N /\ ~ \E m : IsCount((N + 1) - k, m)
    BY Zenon
  <1>5. k # 0
    BY <1>0, <1>4, CountOfTop
  <1> DEFINE n == (N + 1) - k
  <1>6. k - 1 \in 0 .. N /\ n \in 1 .. N /\ (N + 1) - (k - 1) = n + 1
    BY <1>0, <1>4, <1>5
  <1>7. k - 1 \notin T
    <2> HIDE DEF T
    <2> QED
      BY <1>0, <1>2, <1>3
  <1>8. PICK m : IsCount(n + 1, m)
    BY <1>6, <1>7, Zenon
  <1> HIDE DEF n
  <1>9. \E g : IsCount(n, g)
    BY <1>6, <1>8, CountGrows, Zenon
  <1> QED
    BY <1>4, <1>9, Zenon DEF n

\* MaxPathLength follows its recursion.
LEMMA MaxPathLengthUnfolds ==
    ASSUME PathTypeOK
    PROVE  \A d \in 1 .. N + 1 :
              MaxPathLength[d] = IF d = N + 1 \/ Up[d] = 0 THEN N + Following
                                 ELSE Processed(Up[d], MaxPathLength[d + 1])
  <1> DEFINE G(m) == [d \in 1 .. N + 1 |->
                IF d = N + 1 \/ Up[d] = 0 THEN N + Following
                ELSE LET spent == m[d + 1] - IF IsSelfSigned(Up[d]) THEN 0 ELSE 1
                     IN  IF pathLenConstraint(Up[d]) /\ cert[Up[d]].max < spent
                         THEN cert[Up[d]].max ELSE spent]
  <1>1. \A m : G(m) = [d \in 1 .. N + 1 |->
                IF d = N + 1 \/ Up[d] = 0 THEN N + Following ELSE Processed(Up[d], m[d + 1])]
    BY Zenon DEF Processed
  <1>2. PICK m : IsCount(1, m)
    BY CountExists, Zenon
  <1>3. m = G(m)
    <2> HIDE DEF G
    <2> QED
      BY <1>1, <1>2, Zenon DEF IsCount
  <1>4. MaxPathLength = G(MaxPathLength)
    <2> HIDE DEF G
    <2>1. (CHOOSE f : f = G(f)) = G(CHOOSE f : f = G(f))
      BY <1>3, Zenon
    <2> QED
      BY <2>1, Zenon DEF MaxPathLength, G
  <1> HIDE DEF G
  <1> QED
    BY <1>1, <1>4, Zenon

\* The CA at distance d of the chain u has a path length constraint.
Constrained(u, d) == u[d] # 0 /\ pathLenConstraint(u[d])

\* The CAs that may follow, counted from every constrained CA of the chain.
Admits(u) == \A e \in 1 .. N : Constrained(u, e) => cert[u[e]].max >= e + Following - 1

\* Nothing is above the top of the chain.
LEMMA TopOfChain ==
    ASSUME NEW u, IsChain(u), NEW d \in 1 .. N + 1, u[d] = 0
    PROVE  \A e \in d .. N + 1 : u[e] = 0
  <1> DEFINE T == {e \in d .. N + 1 : u[e] # 0}
  <1>0. N \in Nat \ {0}
    BY PathLengthAssumption, Zenon
  <1>1. SUFFICES ASSUME T # {}
                 PROVE  FALSE
    BY Zenon
  <1>2. T \in SUBSET Nat
    BY <1>0
  <1>3. PICK e \in T : \A j \in T : e <= j
    <2> HIDE DEF T
    <2> QED
      BY <1>1, <1>2, Least, Zenon
  <1>4. e \in d .. N + 1 /\ u[e] # 0 /\ e # d
    BY Zenon
  <1>5. e - 1 \in d .. N + 1 /\ e - 1 \in 1 .. N /\ (e - 1) + 1 = e
    BY <1>0, <1>4
  <1>6. e - 1 \notin T
    <2> HIDE DEF T
    <2> QED
      BY <1>0, <1>2, <1>3
  <1>7. u[e - 1] = 0
    BY <1>5, <1>6, Zenon
  <1>8. u[e] = Above(u[e - 1])
    BY <1>5, Zenon DEF IsChain
  <1> QED
    BY <1>4, <1>7, <1>8, Zenon DEF Above

\* What MaxPathLength leaves at distance d: enough for the CAs below, exactly
\* when every constrained CA from there up admits them.
Leaves(d) ==
    /\ MaxPathLength[d] \in Int
    /\ MaxPathLength[d] >= Following + d - 1
          <=> \A e \in d .. N : Constrained(Up, e) => cert[Up[e]].max >= e + Following - 1

LEMMA LeavesAtTop ==
    ASSUME PathTypeOK, NEW d \in 1 .. N + 1, d = N + 1 \/ Up[d] = 0
    PROVE  Leaves(d)
  <1>0. N \in Nat \ {0} /\ Following \in Nat
    BY PathLengthAssumption, FollowingType, Zenon
  <1>1. MaxPathLength[d] = N + Following
    BY MaxPathLengthUnfolds, Zenon
  <1>2. \A e \in d .. N : Up[e] = 0
    <2>1. CASE d = N + 1
      BY <1>0, <2>1
    <2>2. CASE Up[d] = 0
      <3>1. \A e \in d .. N + 1 : Up[e] = 0
        BY <2>2, TopOfChain, UpIsChain, Zenon
      <3> QED
        BY <1>0, <3>1
    <2> QED
      BY <2>1, <2>2, Zenon
  <1>3. MaxPathLength[d] \in Int /\ MaxPathLength[d] >= Following + d - 1
    BY <1>0, <1>1
  <1> QED
    BY <1>2, <1>3, Zenon DEF Leaves, Constrained

LEMMA LeavesBelow ==
    ASSUME PathTypeOK, NEW d \in 1 .. N, Leaves(d + 1)
    PROVE  Leaves(d)
  <1>0. N \in Nat \ {0} /\ Following \in Nat /\ d \in 1 .. N + 1 /\ d + 1 \in 1 .. N + 1 /\ d # N + 1
    BY PathLengthAssumption, FollowingType
  <1>1. CASE Up[d] = 0
    BY <1>0, <1>1, LeavesAtTop, Zenon
  <1>2. CASE Up[d] # 0
    <2> DEFINE x == MaxPathLength[d + 1]
    <2> DEFINE c == Up[d]
    <2> DEFINE Ok(e) == Constrained(Up, e) => cert[Up[e]].max >= e + Following - 1
    <2>1. c \in 1 .. N
      BY <1>0, <1>2, UpIsChain DEF IsChain
    <2>2. x \in Int /\ (x >= Following + (d + 1) - 1 <=> \A e \in d + 1 .. N : Ok(e))
      BY Zenon DEF Leaves
    <2>3. MaxPathLength[d] = Processed(c, x)
      BY <1>0, <1>2, MaxPathLengthUnfolds, Zenon
    <2>4. cert[c].max \in Int /\ Processed(c, x) \in Int
      BY <2>1, <2>2, ProcessedType, Zenon
    <2>5. IsSelfSigned(c) => x = N + Following
      <3> SUFFICES ASSUME IsSelfSigned(c)
                   PROVE  x = N + Following
        BY Zenon
      <3>1. Up[d + 1] = 0
        BY UpIsChain, Zenon DEF IsChain, Above
      <3> QED
        BY <1>0, <3>1, MaxPathLengthUnfolds, Zenon
    <2>6. Ok(d) <=> (pathLenConstraint(c) => cert[c].max >= d + Following - 1)
      BY <1>2, Zenon DEF Constrained
    <2>7. (\A e \in d .. N : Ok(e)) <=> (Ok(d) /\ \A e \in d + 1 .. N : Ok(e))
      <3> HIDE DEF Ok
      <3>1. \A e : e \in d .. N <=> (e = d \/ e \in d + 1 .. N)
        BY <1>0
      <3> QED
        BY <3>1, Zenon
    <2> HIDE DEF x, c, Ok
    <2>8. Processed(c, x) >= Following + d - 1 <=> (Ok(d) /\ x >= Following + (d + 1) - 1)
      <3>1. CASE IsSelfSigned(c)
        BY <1>0, <2>2, <2>4, <2>5, <2>6, <3>1 DEF Processed
      <3>2. CASE ~IsSelfSigned(c)
        BY <1>0, <2>2, <2>4, <2>6, <3>2 DEF Processed
      <3> QED
        BY <3>1, <3>2, Zenon
    <2>9. MaxPathLength[d] >= Following + d - 1 <=> \A e \in d .. N : Ok(e)
      BY <2>2, <2>3, <2>7, <2>8, Zenon
    <2> QED
      BY <2>3, <2>4, <2>9, Zenon DEF Leaves, Ok
  <1> QED
    BY <1>1, <1>2, Zenon

\* Path validation accepts exactly the chains whose every constrained CA
\* admits the CAs below it.
LEMMA ValidationAdmits ==
    ASSUME PathTypeOK
    PROVE  MaxPathLength[1] >= Following <=> Admits(Up)
  <1> DEFINE T == {k \in 0 .. N : ~Leaves((N + 1) - k)}
  <1>0. N \in Nat \ {0} /\ Following \in Nat
    BY PathLengthAssumption, FollowingType, Zenon
  <1>1. T = {}
    <2>1. SUFFICES ASSUME T # {}
                   PROVE  FALSE
      BY Zenon
    <2>2. T \in SUBSET Nat
      BY <1>0
    <2>3. PICK k \in T : \A j \in T : k <= j
      <3> HIDE DEF T
      <3> QED
        BY <2>1, <2>2, Least, Zenon
    <2>4. k \in 0 .. N /\ ~Leaves((N + 1) - k)
      BY Zenon
    <2>5. k # 0
      BY <1>0, <2>4, LeavesAtTop
    <2> DEFINE n == (N + 1) - k
    <2>6. k - 1 \in 0 .. N /\ n \in 1 .. N /\ (N + 1) - (k - 1) = n + 1
      BY <1>0, <2>4, <2>5
    <2>7. k - 1 \notin T
      <3> HIDE DEF T
      <3> QED
        BY <1>0, <2>2, <2>3
    <2>8. Leaves(n + 1)
      BY <2>6, <2>7, Zenon
    <2> HIDE DEF n
    <2>9. Leaves(n)
      BY <2>6, <2>8, LeavesBelow, Zenon
    <2> QED
      BY <2>4, <2>9, Zenon DEF n
  <1>2. Leaves(1)
    <2>1. N \in 0 .. N /\ (N + 1) - N = 1
      BY <1>0
    <2> QED
      BY <1>1, <2>1, Zenon
  <1> QED
    BY <1>0, <1>2 DEF Leaves, Admits

\* remaining is what the tightest CA below distance leaves, -1 when none is
\* constrained.
Tightest(u) ==
    \/ /\ remaining = -1
       /\ \A e \in 1 .. distance - 1 : ~Constrained(u, e)
    \/ /\ remaining >= 0
       /\ \E e \in 1 .. distance - 1 : Constrained(u, e) /\ remaining = cert[u[e]].max - e
       /\ \A e \in 1 .. distance - 1 : Constrained(u, e) => remaining <= cert[u[e]].max - e

\* The loop of checkPathLength on the chain u.
LoopInv(u) ==
    /\ result \in {"loop", "ok", "exceeded", "disallowed"}
    /\ remaining \in Int
    /\ result = "loop" =>
          distance \in 1 .. N + 1 /\ crt = u[distance] /\ Tightest(u)
    /\ result = "ok" => Admits(u)
    /\ result \in {"exceeded", "disallowed"} => ~Admits(u)

\* The inductive invariant of checkPathLength.
PathInv == PathTypeOK /\ \A u : IsChain(u) /\ u[N + 1] = 0 => LoopInv(u)

LEMMA PathInvInit == PathInit => PathInv
  <1> SUFFICES ASSUME PathInit
               PROVE  PathInv
    BY Zenon
  <1>1. PathTypeOK
    BY PathLengthAssumption, Zenon DEF PathInit, PathTypeOK
  <1>2. ASSUME NEW u, IsChain(u)
        PROVE  LoopInv(u)
    BY <1>2, PathLengthAssumption DEF PathInit, LoopInv, Tightest, IsChain
  <1> QED
    BY <1>1, <1>2, Zenon DEF PathInv

\* The inputs of checkPathLength stay, and what is defined from them.
LEMMA InputsStay ==
    ASSUME UNCHANGED inputs
    PROVE  /\ PathTypeOK => PathTypeOK'
           /\ \A u : IsChain(u)' <=> IsChain(u)
           /\ \A u, d : Constrained(u, d)' <=> Constrained(u, d)
           /\ \A u : Admits(u)' <=> Admits(u)
  <1>1. cert' = cert /\ issuer' = issuer /\ maxPathLen' = maxPathLen
    BY Zenon DEF inputs
  <1>2. \A u : IsChain(u)' <=> IsChain(u)
    BY <1>1, Zenon DEF IsChain, Above, IsSelfSigned
  <1>3. \A u, d : Constrained(u, d)' <=> Constrained(u, d)
    BY <1>1, Zenon DEF Constrained, pathLenConstraint
  <1>4. \A u : Admits(u)' <=> Admits(u)
    BY <1>1, <1>3, Zenon DEF Admits, Following
  <1> QED
    BY <1>1, <1>2, <1>3, <1>4, Zenon DEF PathTypeOK

\* Every CA of a chain says a number.
LEMMA ChainSays ==
    ASSUME PathTypeOK, NEW u, IsChain(u), NEW e \in 1 .. N + 1, u[e] # 0
    PROVE  u[e] \in 1 .. N /\ cert[u[e]].max \in Int
  <1>1. u[e] \in 1 .. N
    BY PathLengthAssumption DEF IsChain
  <1> QED
    BY <1>1, ProcessedType

\* One round of the loop.
LEMMA AscendKeeps ==
    ASSUME PathTypeOK, NEW u, IsChain(u), u[N + 1] = 0, LoopInv(u), Ascend
    PROVE  LoopInv(u)'
  <1> DEFINE d == distance
  <1> DEFINE x == cert[crt].max
  <1>0. N \in Nat \ {0} /\ Bound \in Nat /\ N <= Bound /\ Following \in Nat \ {0}
    BY PathLengthAssumption, FollowingType, Zenon
  <1>1. /\ result = "loop" /\ crt # 0 /\ UNCHANGED inputs /\ cert' = cert
        /\ d \in 1 .. N + 1 /\ crt = u[d] /\ Tightest(u) /\ remaining \in Int
    BY Zenon DEF Ascend, LoopInv, inputs
  <1>2. d \in 1 .. N
    BY <1>0, <1>1
  <1>3. x \in Int
    BY <1>0, <1>1, ChainSays, Zenon
  <1>4. Constrained(u, d) <=> pathLenConstraint(crt)
    BY <1>1, Zenon DEF Constrained
  <1>5. Allowed(crt) = x - d
    BY Zenon DEF Allowed
  <1>6. CASE pathLenConstraint(crt) /\ Allowed(crt) < 0
    <2>1. result' = "disallowed" /\ remaining' = remaining
      BY <1>6, Zenon DEF Ascend
    <2>2. ~(x >= d + Following - 1)
      BY <1>0, <1>2, <1>3, <1>5, <1>6
    <2>3. ~Admits(u)
      BY <1>1, <1>2, <1>4, <1>6, <2>2, Zenon DEF Admits
    <2> QED
      BY <1>1, <2>1, <2>3, InputsStay, Zenon DEF LoopInv
  <1>7. CASE ~(pathLenConstraint(crt) /\ Allowed(crt) < 0)
    <2>1. /\ remaining' = IF pathLenConstraint(crt) THEN Tighten(crt) ELSE remaining
          /\ crt' = Climb(crt)
          /\ distance' = d + 1
          /\ result' = "loop"
      BY <1>1, <1>7, Zenon DEF Ascend
    <2>2. distance' \in 1 .. N + 1
      BY <1>0, <1>2, <2>1
    <2>3. crt' = u[d + 1]
      <3>1. u[d + 1] = IF IsSelfSigned(crt) THEN 0 ELSE issuer[crt]
        BY <1>1, <1>2, Zenon DEF IsChain, Above
      <3>2. d >= Bound => u[d + 1] = 0
        BY <1>0, <1>2
      <3> QED
        BY <2>1, <3>1, <3>2, Zenon DEF Climb
    <2>4. \A e : e \in 1 .. (d + 1) - 1 <=> (e \in 1 .. d - 1 \/ e = d)
      BY <1>2
    <2>5. \A e \in 1 .. d - 1 : Constrained(u, e) => cert[u[e]].max \in Int
      BY <1>0, <1>2, ChainSays DEF Constrained
    <2>6. Tightest(u)'
      <3> DEFINE C(e) == Constrained(u, e)
      <3> DEFINE m(e) == cert[u[e]].max
      <3>1. m(d) = x
        BY <1>1, Zenon
      <3>2. \/ /\ remaining = -1
               /\ \A e \in 1 .. d - 1 : ~C(e)
            \/ /\ remaining >= 0
               /\ \E e \in 1 .. d - 1 : C(e) /\ remaining = m(e) - e
               /\ \A e \in 1 .. d - 1 : C(e) => remaining <= m(e) - e
        BY <1>1, Zenon DEF Tightest
      <3>3. SUFFICES
               \/ /\ remaining' = -1
                  /\ \A e \in 1 .. (d + 1) - 1 : ~C(e)
               \/ /\ remaining' >= 0
                  /\ \E e \in 1 .. (d + 1) - 1 : C(e) /\ remaining' = m(e) - e
                  /\ \A e \in 1 .. (d + 1) - 1 : C(e) => remaining' <= m(e) - e
        BY <1>1, <2>1, InputsStay, Zenon DEF Tightest
      <3>4. CASE ~C(d)
        <4>1. remaining' = remaining
          BY <1>4, <2>1, <3>4, Zenon
        <4> HIDE DEF C, m, x
        <4> QED
          BY <2>4, <3>2, <3>4, <4>1, Zenon
      <3>5. CASE C(d) /\ (remaining < 0 \/ x - d < remaining)
        <4>1. remaining' = x - d /\ x - d >= 0
          BY <1>2, <1>3, <1>4, <1>5, <1>7, <2>1, <3>5 DEF Tighten
        <4> HIDE DEF C, m, x
        <4>2. \A e \in 1 .. d - 1 : C(e) => x - d <= m(e) - e
          BY <1>1, <1>2, <1>3, <2>5, <3>2, <3>5 DEF C, m
        <4> QED
          BY <1>2, <1>3, <2>4, <3>1, <3>5, <4>1, <4>2
      <3>6. CASE C(d) /\ ~(remaining < 0 \/ x - d < remaining)
        <4>1. remaining' = remaining /\ remaining >= 0 /\ remaining <= x - d
          BY <1>1, <1>2, <1>3, <1>4, <1>5, <2>1, <3>6 DEF Tighten
        <4> HIDE DEF C, m, x
        <4> QED
          BY <1>1, <2>4, <3>1, <3>2, <4>1
      <3> QED
        BY <3>4, <3>5, <3>6, Zenon
    <2>7. remaining' \in Int
      BY <1>1, <1>2, <1>3, <1>5, <2>1 DEF Tighten
    <2> QED
      BY <2>1, <2>2, <2>3, <2>6, <2>7, Zenon DEF LoopInv
  <1> QED
    BY <1>6, <1>7, Zenon

\* The end of the loop.
LEMMA CompareKeeps ==
    ASSUME PathTypeOK, NEW u, IsChain(u), u[N + 1] = 0, LoopInv(u), Compare
    PROVE  LoopInv(u)'
  <1> DEFINE C(e) == Constrained(u, e)
  <1> DEFINE m(e) == cert[u[e]].max
  <1>0. /\ N \in Nat \ {0} /\ maxPathLen \in Int /\ Following \in Nat
        /\ Following = 1 + IF maxPathLen > 0 THEN maxPathLen ELSE 0
    BY PathLengthAssumption, FollowingType, Zenon DEF PathTypeOK, Following
  <1>1. /\ result = "loop" /\ crt = 0 /\ UNCHANGED inputs /\ remaining' = remaining
        /\ distance \in 1 .. N + 1 /\ crt = u[distance] /\ Tightest(u) /\ remaining \in Int
    BY Zenon DEF Compare, LoopInv, inputs
  <1>2. \A e \in 1 .. N : C(e) => e \in 1 .. distance - 1 /\ m(e) \in Int
    <2> SUFFICES ASSUME NEW e \in 1 .. N, C(e)
                 PROVE  e \in 1 .. distance - 1 /\ m(e) \in Int
      BY Zenon
    <2>1. u[e] # 0 /\ e \in 1 .. N + 1
      BY <1>0 DEF Constrained
    <2>2. m(e) \in Int
      BY <2>1, ChainSays, Zenon
    <2>3. e \notin distance .. N + 1
      BY <1>1, <2>1, TopOfChain, Zenon
    <2> QED
      BY <1>0, <1>1, <2>2, <2>3
  <1>3. /\ remaining < 0 => \A e \in 1 .. N : ~C(e)
        /\ remaining >= 0 => \E e \in 1 .. N : C(e) /\ m(e) \in Int /\ remaining = m(e) - e
        /\ \A e \in 1 .. N : C(e) => remaining >= 0 /\ remaining <= m(e) - e
    <2>1. 1 .. distance - 1 \subseteq 1 .. N
      BY <1>0, <1>1
    <2> QED
      BY <1>1, <1>2, <2>1 DEF Tightest
  <1>4. Admits(u) <=> \A e \in 1 .. N : C(e) => m(e) >= e + Following - 1
    BY Zenon DEF Admits
  <1> HIDE DEF C, m
  <1>5. CASE maxPathLen >= 0 /\ remaining >= 0 /\ maxPathLen > remaining
    <2>1. PICK e \in 1 .. N : C(e) /\ m(e) \in Int /\ remaining = m(e) - e
      BY <1>3, <1>5, Zenon
    <2>2. ~(m(e) >= e + Following - 1)
      BY <1>0, <1>1, <1>5, <2>1
    <2>3. ~Admits(u) /\ result' = "exceeded"
      BY <1>4, <1>5, <2>1, <2>2, Zenon DEF Compare
    <2> QED
      BY <1>1, <2>3, InputsStay, Zenon DEF LoopInv
  <1>6. CASE ~(maxPathLen >= 0 /\ remaining >= 0 /\ maxPathLen > remaining)
    <2>1. ASSUME NEW e \in 1 .. N, C(e)
          PROVE  m(e) >= e + Following - 1
      <3>1. remaining >= 0 /\ remaining <= m(e) - e /\ m(e) \in Int
        BY <1>2, <1>3, <2>1, Zenon
      <3> QED
        BY <1>0, <1>1, <1>6, <3>1
    <2>2. Admits(u) /\ result' = "ok"
      BY <1>4, <1>6, <2>1, Zenon DEF Compare
    <2> QED
      BY <1>1, <2>2, InputsStay, Zenon DEF LoopInv
  <1> QED
    BY <1>5, <1>6, Zenon

LEMMA PathInvStep == PathInv /\ [PathNext]_pathVars => PathInv'
  <1> SUFFICES ASSUME PathInv, [PathNext]_pathVars
               PROVE  PathInv'
    BY Zenon
  <1>1. PathTypeOK /\ UNCHANGED inputs
    BY Zenon DEF PathInv, PathNext, Ascend, Compare, pathVars, inputs
  <1>2. PathTypeOK' /\ \A u : IsChain(u)' <=> IsChain(u)
    BY <1>1, InputsStay, Zenon
  <1>3. ASSUME NEW u, IsChain(u), u[N + 1] = 0
        PROVE  LoopInv(u)'
    <2>1. LoopInv(u)
      BY <1>3, Zenon DEF PathInv
    <2>2. CASE Ascend
      BY <1>1, <1>3, <2>1, <2>2, AscendKeeps, Zenon
    <2>3. CASE Compare
      BY <1>1, <1>3, <2>1, <2>3, CompareKeeps, Zenon
    <2>4. CASE UNCHANGED pathVars
      BY <1>1, <2>1, <2>4, InputsStay, Zenon DEF LoopInv, Tightest, pathVars
    <2> QED
      BY <2>2, <2>3, <2>4, Zenon DEF PathNext
  <1> QED
    BY <1>2, <1>3, Zenon DEF PathInv

\* checkPathLength agrees with RFC 5280's path validation, for bundles of
\* any size, any constraints and any path length of the profile.
THEOREM AgreesWithValidationCorrect == PathSpec => []AgreesWithValidation
  <1>1. PathInv => AgreesWithValidation
    <2> SUFFICES ASSUME PathInv, result # "loop", Up[N + 1] = 0
                 PROVE  result = "ok" <=> MaxPathLength[1] >= Following
      BY Zenon DEF AgreesWithValidation
    <2>1. LoopInv(Up) /\ PathTypeOK
      BY UpIsChain, Zenon DEF PathInv
    <2>2. result = "ok" <=> Admits(Up)
      BY <2>1, Zenon DEF LoopInv
    <2> QED
      BY <2>1, <2>2, ValidationAdmits, Zenon
  <1> QED
    BY <1>1, PathInvInit, PathInvStep, PTL DEF PathSpec

\* The loop makes at most Bound rounds.
WalkEnds == distance <= Bound + 1

\* checkPathLength returns for every bundle, one whose issuers form a loop
\* included: it gives up climbing at Bound.
THEOREM WalkEndsCorrect == PathSpec => []WalkEnds
  <1> DEFINE Inv == /\ distance \in 1 .. Bound + 1
                    /\ result = "loop" /\ crt # 0 => distance <= Bound
  <1>0. Bound \in Nat /\ 1 <= Bound
    BY PathLengthAssumption
  <1>1. PathInit => Inv
    BY <1>0 DEF PathInit
  <1>2. Inv /\ [PathNext]_pathVars => Inv'
    BY <1>0 DEF PathNext, Ascend, Compare, Climb, pathVars
  <1>3. Inv => WalkEnds
    BY <1>0 DEF WalkEnds
  <1> QED
    BY <1>1, <1>2, <1>3, PTL DEF PathSpec
=============================================================================
