------------------------ MODULE ParkedColumnsProofs ------------------------
(***************************************************************************)
(* Proofs about the board's columns (BoardColumns) and the operator's own  *)
(* (ParkedColumns), for any panes, statuses and bounds, and, but for one   *)
(* theorem, for any number of windows over one localStorage.  At the end,  *)
(* about the row that draws them (BoardStrip), for any statuses and any    *)
(* number of bands; the two share no variable.                             *)
(***************************************************************************)
EXTENDS ParkedColumns, BoardStrip, FiniteSetTheorems, WellFoundedInduction, TLAPS

-----------------------------------------------------------------------------
(* BoardColumns: a card that is shown is in one column of one band.        *)

\* A card that the filters keep is in the column of its key, and in no other
\* (groupIntoColumns, columnKeyOf): a member of a column that is gone falls
\* back to its status.
THEOREM CardsHaveOneColumn ==
  ASSUME NEW panes, NEW status, NEW f, NEW member, NEW live, NEW p \in panes,
         status[p] \in Status, Status \cap live = {}, ~isFilteredOut(p, status, f, member, live)
  PROVE  \A key \in Status \cup live :
           p \in groupIntoColumns(panes, status, f, member, live)[key]
             <=> key = columnKeyOf(p, status, member, live)
  BY DEF groupIntoColumns, columnKeyOf

\* A hidden column holds nothing, and nothing that is filtered out is drawn.
THEOREM HiddenColumnsAreEmpty ==
  ASSUME NEW panes, NEW status, NEW f, NEW member, NEW live,
         Status \cap live = {}, NEW key \in (Status \cup live) \cap f.hidden
  PROVE  groupIntoColumns(panes, status, f, member, live)[key] = {}
  BY DEF groupIntoColumns, columnKeyOf, isFilteredOut

\* Whatever the board is grouped by, a card that is kept is in its own band
\* and in no other (groupIntoSwimlanes).
THEOREM CardsHaveOneBand ==
  ASSUME NEW panes, NEW status, NEW f, NEW member, NEW live, NEW dimension \in Dimension,
         NEW p \in panes, status[p] \in Status, Status \cap live = {},
         ~isFilteredOut(p, status, f, member, live)
  PROVE  LET lanes == groupIntoSwimlanes(panes, status, f, dimension, member, live)
         IN /\ bandOf(p, dimension) \in DOMAIN lanes
            /\ \A band \in DOMAIN lanes, key \in Status \cup live :
                 p \in lanes[band][key] <=> /\ band = bandOf(p, dimension)
                                            /\ key = columnKeyOf(p, status, member, live)
<1> DEFINE kept == {q \in panes : ~isFilteredOut(q, status, f, member, live)}
           bands == {bandOf(q, dimension) : q \in kept}
                      \cup (IF dimension = "none" THEN {<<"all">>} ELSE {})
           within(band) == {q \in kept : bandOf(q, dimension) = band}
           lanes == groupIntoSwimlanes(panes, status, f, dimension, member, live)
<1>1. lanes = [band \in bands |-> groupIntoColumns(within(band), status, f, member, live)]
  BY DEF groupIntoSwimlanes
<1>2. DOMAIN lanes = bands /\ bandOf(p, dimension) \in bands
  BY <1>1
<1>3. ASSUME NEW band \in bands, NEW key \in Status \cup live
      PROVE  p \in lanes[band][key] <=> /\ band = bandOf(p, dimension)
                                        /\ key = columnKeyOf(p, status, member, live)
  <2>1. lanes[band] = groupIntoColumns(within(band), status, f, member, live)
    BY <1>1
  <2>2. CASE p \in within(band)
    BY <2>1, <2>2, CardsHaveOneColumn
  <2>3. CASE p \notin within(band)
    <3>1. p \notin lanes[band][key]
      BY <2>1, <2>3 DEF groupIntoColumns
    <3>2. QED
      BY <2>3, <3>1
  <2>4. QED
    BY <2>2, <2>3
<1>4. QED
  BY <1>2, <1>3

\* A chip counts the cards that its column would hold if no column were
\* hidden (columnCountsSignal, groupIntoColumns).
THEOREM ChipsCountTheirColumns ==
  ASSUME NEW status, NEW f \in Filters, NEW member, NEW live, NEW scope,
         Status \cap live = {}, \A p \in Pane : status[p] \in Status \cup {Gone},
         NEW key \in Status \cup live
  PROVE  columnCounts(status, f, member, live, scope)[key]
           = Cardinality(groupIntoColumns(scopedPanes(status, scope), status,
                                          [f EXCEPT !.hidden = {}], member, live)[key])
  BY DEF Filters, columnCounts, groupIntoColumns, isFilteredOut, columnKeyOf, scopedPanes

-----------------------------------------------------------------------------
(* Sets of numbers: what nextColumnId and nextOrder find.                  *)

LEMMA LeastOfNat ==
  ASSUME NEW S, S \subseteq Nat, S # {}
  PROVE  \E n \in S : \A m \in S : n <= m
<1>1. PICK n \in S : \A m \in S : <<m, n>> \notin OpToRel(<, Nat)
  BY WFMin, NatLessThanWellFounded, Zenon
<1>2. \A m \in S : ~(m < n)
  BY <1>1 DEF OpToRel
<1>3. QED
  BY <1>2

\* A least set without a greatest element would have another, without any one
\* of its elements.
LEMMA GreatestOfNat ==
  ASSUME NEW S, IsFiniteSet(S), S \subseteq Nat, S # {}
  PROVE  \E n \in S : \A m \in S : n >= m
<1> DEFINE Topless(T) == IsFiniteSet(T) /\ T \subseteq Nat /\ T # {}
                         /\ ~\E n \in T : \A m \in T : n >= m
           Sizes == {k \in Nat : \E T : Topless(T) /\ Cardinality(T) = k}
<1>1. SUFFICES ASSUME Topless(S) PROVE FALSE
  OBVIOUS
<1>2. Cardinality(S) \in Sizes
  BY <1>1, FS_CardinalityType
<1>3. PICK k \in Sizes : \A j \in Sizes : k <= j
  <2> HIDE DEF Topless
  <2>1. QED
    BY <1>2, LeastOfNat
<1>4. PICK T : Topless(T) /\ Cardinality(T) = k
  OBVIOUS
<1>5. PICK x \in T : TRUE
  BY <1>4
<1> DEFINE U == T \ {x}
<1>6. IsFiniteSet(U) /\ Cardinality(U) = k - 1 /\ U \subseteq Nat
  BY <1>4, <1>5, FS_RemoveElement
<1>7. CASE U = {}
  BY <1>4, <1>5, <1>7
<1>8. CASE U # {} /\ \E n \in U : \A m \in U : n >= m
  <2>1. PICK n \in U : \A m \in U : n >= m
    BY <1>8
  <2>2. CASE n >= x
    BY <1>4, <1>5, <2>1, <2>2
  <2>3. CASE ~(n >= x)
    <3>1. \A m \in T : x >= m
      BY <1>4, <1>5, <2>1, <2>3
    <3>2. QED
      BY <1>4, <1>5, <3>1
  <2>4. QED
    BY <2>2, <2>3
<1>9. CASE Topless(U)
  <2>1. k - 1 \in Nat
    BY <1>6, FS_CardinalityType
  <2>2. k - 1 \in Sizes
    BY <1>6, <1>9, <2>1
  <2>3. QED
    BY <1>3, <2>1, <2>2
<1>10. QED
  BY <1>6, <1>7, <1>8, <1>9

LEMMA MaxIsGreatest ==
  ASSUME NEW S, IsFiniteSet(S), S \subseteq Nat, S # {}
  PROVE  Max(S) \in S /\ \A m \in S : Max(S) >= m
  BY GreatestOfNat DEF Max

-----------------------------------------------------------------------------
(* A document's columns: one place in the array each, and one in the order *)
(* but for ties that were stored at first; and one id each, once loaded.   *)

Indexed(cols) == (\A c, d \in cols : c.index = d.index => c = d) /\ TiesAreStored(cols)

Distinct(cols) == (\A c, d \in cols : c.id = d.id => c = d) /\ Indexed(cols)

LEMMA ColumnsAreFinite ==
  ASSUME NEW cols, cols \subseteq StoredColumn, Distinct(cols)
  PROVE  IsFiniteSet(cols)
<1> DEFINE f == [c \in cols |-> c.id]
<1>1. f \in Injection(cols, Id)
  <2>1. f \in [cols -> Id] /\ \A c, d \in cols : f[c] = f[d] => c = d
    BY DEF StoredColumn, Distinct
  <2>2. QED
    BY <2>1 DEF Injection, IsInjective
<1>2. IsFiniteSet(Id)
  BY FS_Interval, ColumnsAssumption DEF Id
<1>3. QED
  BY <1>1, <1>2, FS_Injection

LEMMA BeyondIsBeyond ==
  ASSUME NEW S, IsFiniteSet(S), S \subseteq Nat
  PROVE  Beyond(S) \in Nat /\ \A m \in S : m < Beyond(S)
<1>1. CASE S = {}
  BY <1>1 DEF Beyond
<1>2. CASE S # {}
  <2>1. Max(S) \in S /\ \A m \in S : Max(S) >= m
    BY <1>2, MaxIsGreatest
  <2>2. Beyond(S) = Max(S) + 1 /\ Max(S) \in Nat
    BY <1>2, <2>1 DEF Beyond
  <2>3. \A m \in S : m \in Nat
    OBVIOUS
  <2>4. QED
    BY <2>1, <2>2, <2>3
<1>3. QED
  BY <1>1, <1>2

\* A new column's id is free, and its place is to the right of all, both in
\* the order and in the array.
LEMMA NewColumnIsFresh ==
  ASSUME NEW cols, cols \subseteq StoredColumn, Distinct(cols)
  PROVE  /\ Ids(cols) # Id => nextColumnId(cols) \in Id \ Ids(cols)
         /\ nextOrder(cols) \in Nat /\ \A c \in cols : c.order < nextOrder(cols)
         /\ nextIndex(cols) \in Nat /\ \A c \in cols : c.index < nextIndex(cols)
<1>1. ASSUME Ids(cols) # Id PROVE nextColumnId(cols) \in Id \ Ids(cols)
  <2> DEFINE Free == Id \ Ids(cols)
  <2>1. Free \subseteq Nat /\ Free # {}
    BY <1>1, ColumnsAssumption DEF Id, Ids, StoredColumn
  <2>2. PICK n \in Free : \A m \in Free : n <= m
    <3> HIDE DEF Free
    <3>1. QED
      BY <2>1, LeastOfNat
  <2>3. n \in Id /\ n \notin Ids(cols) /\ \A m \in Id : m < n => m \in Ids(cols)
    BY <2>1, <2>2 DEF Id
  <2>4. QED
    BY <2>3 DEF nextColumnId
<1>2. IsFiniteSet(cols)
  BY ColumnsAreFinite
<1>3. nextOrder(cols) \in Nat /\ \A c \in cols : c.order < nextOrder(cols)
  <2> DEFINE Orders == {c.order : c \in cols}
             f == [c \in cols |-> c.order]
  <2>1. f \in Surjection(cols, Orders) /\ Orders \subseteq Nat
    BY DEF Surjection, StoredColumn
  <2>2. IsFiniteSet(Orders)
    BY <1>2, <2>1, FS_Surjection
  <2>3. nextOrder(cols) = Beyond(Orders) /\ \A c \in cols : c.order \in Orders
    BY DEF nextOrder
  <2> HIDE DEF Orders, f
  <2>4. QED
    BY <2>1, <2>2, <2>3, BeyondIsBeyond
<1>4. nextIndex(cols) \in Nat /\ \A c \in cols : c.index < nextIndex(cols)
  <2> DEFINE Indices == {c.index : c \in cols}
             f == [c \in cols |-> c.index]
  <2>1. f \in Surjection(cols, Indices) /\ Indices \subseteq Nat
    BY DEF Surjection, StoredColumn
  <2>2. IsFiniteSet(Indices)
    BY <1>2, <2>1, FS_Surjection
  <2>3. nextIndex(cols) = Beyond(Indices) /\ \A c \in cols : c.index \in Indices
    BY DEF nextIndex
  <2> HIDE DEF Indices, f
  <2>4. QED
    BY <2>1, <2>2, <2>3, BeyondIsBeyond
<1>5. QED
  BY <1>1, <1>3, <1>4

\* Place ranks the columns as they are drawn.
LEMMA PlaceRanks ==
  ASSUME NEW cols, cols \subseteq StoredColumn, Distinct(cols)
  PROVE  /\ \A c \in cols : Place(c, cols) \in 0 .. Cardinality(cols) - 1
         /\ \A c, d \in cols : Before(c, d) => Place(c, cols) < Place(d, cols)
<1> DEFINE Left(c) == {e \in cols : Before(e, c)}
<1>1. IsFiniteSet(cols) /\ Cardinality(cols) \in Nat
  BY ColumnsAreFinite, FS_CardinalityType
<1>2. \A c \in cols : IsFiniteSet(Left(c)) /\ Cardinality(Left(c)) \in Nat
  BY <1>1, FS_Subset, FS_CardinalityType
<1>3. ASSUME NEW c \in cols, NEW T, IsFiniteSet(T), Left(c) \subseteq T, c \in T
      PROVE  Cardinality(Left(c)) < Cardinality(T)
  <2>1. c \notin Left(c)
    BY DEF StoredColumn, Before
  <2>2. Left(c) # T
    BY <1>3, <2>1
  <2>3. Cardinality(Left(c)) <= Cardinality(T) /\ Cardinality(Left(c)) # Cardinality(T)
    BY <1>3, <2>2, FS_Subset
  <2>4. QED
    BY <1>2, <1>3, <2>3, FS_CardinalityType
<1>4. \A c \in cols : Place(c, cols) = Cardinality(Left(c))
  BY DEF Place
<1>5. ASSUME NEW c \in cols PROVE Place(c, cols) \in 0 .. Cardinality(cols) - 1
  <2>1. Cardinality(Left(c)) < Cardinality(cols)
    BY <1>1, <1>3
  <2> HIDE DEF Left
  <2>2. QED
    BY <1>1, <1>2, <1>4, <2>1
<1>6. ASSUME NEW c \in cols, NEW d \in cols, Before(c, d)
      PROVE  Place(c, cols) < Place(d, cols)
  <2>1. Left(c) \subseteq Left(d) /\ c \in Left(d)
    BY <1>6 DEF StoredColumn, Before
  <2>2. Cardinality(Left(c)) < Cardinality(Left(d))
    BY <1>2, <1>3, <2>1
  <2> HIDE DEF Left
  <2>3. QED
    BY <1>4, <2>2
<1>7. QED
  BY <1>5, <1>6

\* What moveColumn writes is a permutation: the ids stay, the places differ.
LEMMA ReorderedIsDistinct ==
  ASSUME NEW cols, cols \subseteq Column, Distinct(cols),
         NEW c \in cols, NEW to \in 0 .. Cardinality(cols) - 1
  PROVE  /\ Reordered(cols, c, to) \subseteq Column
         /\ Distinct(Reordered(cols, c, to))
         /\ \A d, e \in Reordered(cols, c, to) : d.order = e.order => d = e
         /\ Ids(Reordered(cols, c, to)) = Ids(cols)
         /\ \A d \in cols : \E e \in Reordered(cols, c, to) :
              e.id = d.id /\ e.rule = d.rule /\ e.born = d.born
         /\ \A e \in Reordered(cols, c, to) : \E d \in cols :
              e.id = d.id /\ e.rule = d.rule /\ e.born = d.born
<1> DEFINE P(d) == Place(d, cols)
           after(d) == IF d = c THEN to
                       ELSE IF P(c) < P(d) /\ P(d) <= to THEN P(d) - 1
                       ELSE IF to <= P(d) /\ P(d) < P(c) THEN P(d) + 1
                       ELSE P(d)
           n == Cardinality(cols)
           moved(d) == [d EXCEPT !.order = after(d), !.index = after(d)]
<1>0. cols \subseteq StoredColumn /\ n \in Nat
  <2>1. cols \subseteq StoredColumn
    BY DEF Column, StoredColumn
  <2>2. QED
    BY <2>1, ColumnsAreFinite, FS_CardinalityType
<1>1. \A d \in cols : P(d) \in 0 .. n - 1
  BY <1>0, PlaceRanks
<1>2. \A d, e \in cols : P(d) = P(e) => d = e
  <2> SUFFICES ASSUME NEW d \in cols, NEW e \in cols, d # e PROVE P(d) # P(e)
    OBVIOUS
  <2>1. Before(d, e) \/ Before(e, d)
    BY DEF Distinct, Indexed, Column, Before
  <2>2. P(d) < P(e) \/ P(e) < P(d)
    BY <1>0, <2>1, PlaceRanks
  <2> HIDE DEF P
  <2>3. QED
    BY <1>1, <2>2
<1> HIDE DEF P, n
<1>3. \A d \in cols : after(d) \in 0 .. n - 1
  BY <1>0, <1>1, <1>2 DEF n
<1>4. \A d, e \in cols : after(d) = after(e) => d = e
  <2> SUFFICES ASSUME NEW d \in cols, NEW e \in cols, d # e PROVE after(d) # after(e)
    OBVIOUS
  <2>1. P(d) # P(e) /\ (d # c => P(d) # P(c)) /\ (e # c => P(e) # P(c))
    BY <1>2
  <2>2. P(d) \in Int /\ P(e) \in Int /\ P(c) \in Int /\ to \in Int
    BY <1>0, <1>1
  <2>3. QED
    BY <2>1, <2>2
<1> HIDE DEF after
<1>5. ASSUME NEW d \in cols
      PROVE  /\ moved(d) \in Column /\ moved(d).order = after(d) /\ moved(d).index = after(d)
             /\ moved(d).id = d.id /\ moved(d).rule = d.rule /\ moved(d).born = d.born
  <2>1. after(d) \in Nat
    BY <1>0, <1>3
  <2>2. QED
    BY <2>1 DEF Column
<1>6. Reordered(cols, c, to) = {moved(d) : d \in cols}
  BY DEF Reordered, after, P
<1> HIDE DEF moved
<1>7. Reordered(cols, c, to) \subseteq Column
  BY <1>5, <1>6
<1>8. /\ \A d, e \in Reordered(cols, c, to) : d.order = e.order => d = e
      /\ Distinct(Reordered(cols, c, to))
  <2>1. ASSUME NEW d \in cols, NEW e \in cols,
               \/ moved(d).id = moved(e).id
               \/ moved(d).order = moved(e).order
               \/ moved(d).index = moved(e).index
        PROVE  moved(d) = moved(e)
    <3>1. d = e
      BY <1>4, <1>5, <2>1 DEF Distinct
    <3>2. QED
      BY <3>1
  <2>2. QED
    BY <1>6, <2>1 DEF Distinct, Indexed, TiesAreStored
<1>9. Ids(Reordered(cols, c, to)) = Ids(cols)
  BY <1>5, <1>6 DEF Ids
<1>10. QED
  BY <1>5, <1>6, <1>7, <1>8, <1>9

LEMMA ClampedIsAPlace ==
  ASSUME NEW cols, cols \subseteq Column, Distinct(cols), cols # {}, NEW to \in Int
  PROVE  Clamped(to, cols) \in 0 .. Cardinality(cols) - 1
<1>1. cols \subseteq StoredColumn
  BY DEF Column, StoredColumn
<1>2. Cardinality(cols) \in Nat /\ Cardinality(cols) # 0
  BY <1>1, ColumnsAreFinite, FS_CardinalityType, FS_EmptySet
<1>3. QED
  BY <1>2 DEF Clamped

-----------------------------------------------------------------------------
(* The documents: what every operation writes is well formed.              *)

\* The invariant: what a window holds has one place in the array for each
\* column besides, and so has the disk even before it is written back, for a
\* reload takes it as it is.
Doc(state) ==
  /\ state \in ParkedState /\ Distinct(state.columns)
  /\ \A p \in Pane : state.member[p] \in Ids(state.columns) \cup {None}

Documents ==
  /\ \A w \in Window : Doc(parked[w])
  /\ Indexed(disk.parked.columns)
  /\ WellFormed(disk.parked) \/ \A w \in Window : "saveParked" \in dirty[w]

LEMMA DocIsWellFormed ==
  ASSUME NEW state, Doc(state) PROVE WellFormed(state) /\ Indexed(state.columns)
  BY DEF Doc, WellFormed, Distinct, Indexed

LEMMA ParkedIsDoc ==
  ASSUME Documents, NEW w \in Window
  PROVE  /\ Doc(parked[w]) /\ parked[w].columns \subseteq Column /\ parked[w].columns \subseteq StoredColumn
         /\ Distinct(parked[w].columns)
<1>1. Doc(parked[w])
  BY DEF Documents
<1>2. Column \subseteq StoredColumn
  BY DEF Column, StoredColumn
<1>3. QED
  BY <1>1, <1>2 DEF Doc, ParkedState

LEMMA ReleasedIsDoc ==
  ASSUME TypeOK, Documents, NEW w \in Window, NEW S
  PROVE  Doc(releasePanes(w, S))
  BY ParkedIsDoc DEF Doc, releasePanes, ParkedState

\* Of the columns that have one id, the first of the array is taken.
LEMMA LoadedIsDoc ==
  ASSUME NEW doc \in [columns : SUBSET StoredColumn, member : [Pane -> Id \cup {None}]],
         Indexed(doc.columns)
  PROVE  Doc(loadParked(doc))
<1> DEFINE sound == {c \in doc.columns : c.rule \in ExitRule}
           cols == {c \in sound : \A d \in sound : d.id = c.id => c.index <= d.index}
<1>1. cols \subseteq Column
  BY DEF Column, StoredColumn, ExitRule
<1>2. Distinct(cols)
  <2>1. Indexed(cols)
    BY DEF Indexed, TiesAreStored
  <2>2. ASSUME NEW c \in cols, NEW d \in cols, c.id = d.id PROVE c = d
    <3>1. c.index <= d.index /\ d.index <= c.index /\ c.index \in Nat /\ d.index \in Nat
      BY <2>2, <1>1 DEF Column
    <3>2. c.index = d.index
      BY <3>1
    <3>3. QED
      BY <2>1, <3>2 DEF Indexed
  <2> HIDE DEF cols
  <2>3. QED
    BY <2>1, <2>2 DEF Distinct
<1>3. loadParked(doc) = [columns |-> cols,
                         member |-> [p \in Pane |-> IF doc.member[p] \in Ids(cols)
                                                     THEN doc.member[p] ELSE None]]
  BY DEF loadParked
<1> HIDE DEF cols
<1>4. QED
  BY <1>1, <1>2, <1>3 DEF Doc, ParkedState

LEMMA NoDocumentIsDoc == Doc(NoDocument)
  BY DEF Doc, NoDocument, ParkedState, Distinct, Indexed, TiesAreStored

\* The columns of a document may be written anew, with the same ids or more.
LEMMA ColumnsMakeDoc ==
  ASSUME NEW doc, Doc(doc), NEW cols, cols \subseteq Column, Distinct(cols),
         Ids(doc.columns) \subseteq Ids(cols)
  PROVE  Doc([doc EXCEPT !.columns = cols])
  BY DEF Doc, ParkedState

LEMMA CreatedIsDoc ==
  ASSUME TypeOK, Documents, NEW w \in Window, NEW rule \in ExitRule, createColumn(w, rule)
  PROVE  Doc(parked'[w])
<1> DEFINE old == parked[w].columns
           new == [id |-> nextColumnId(old), rule |-> rule, order |-> nextOrder(old),
                   index |-> nextIndex(old), born |-> born + 1]
<1>1. old \subseteq Column /\ old \subseteq StoredColumn /\ Distinct(old) /\ Doc(parked[w])
  BY ParkedIsDoc
<1>2. /\ nextColumnId(old) \in Id \ Ids(old)
      /\ nextOrder(old) \in Nat /\ nextIndex(old) \in Nat
      /\ \A c \in old : c.order < nextOrder(old) /\ c.index < nextIndex(old)
  BY <1>1, NewColumnIsFresh DEF createColumn, Live
<1>3. new \in Column
  BY <1>2, ColumnsAssumption DEF Column, createColumn, TypeOK
<1>4. Distinct(old \cup {new})
  <2>1. \A c \in old : c.id # new.id /\ c.order # new.order /\ c.index # new.index
    BY <1>1, <1>2 DEF Ids, Column
  <2> HIDE DEF new
  <2>2. QED
    BY <1>1, <2>1 DEF Distinct, Indexed, TiesAreStored
<1>5. Doc([parked[w] EXCEPT !.columns = old \cup {new}])
  BY <1>1, <1>3, <1>4, ColumnsMakeDoc DEF Ids
<1>6. parked'[w] = [parked[w] EXCEPT !.columns = old \cup {new}]
  BY DEF createColumn, SetParked, TypeOK, ParkedState
<1>7. QED
  BY <1>5, <1>6

LEMMA RuledIsDoc ==
  ASSUME TypeOK, Documents, NEW w \in Window, NEW id, NEW rule \in ExitRule
  PROVE  Doc([parked[w] EXCEPT !.columns =
                {IF c.id = id THEN [c EXCEPT !.rule = rule] ELSE c : c \in @}])
<1> DEFINE old == parked[w].columns
           ruled(c) == IF c.id = id THEN [c EXCEPT !.rule = rule] ELSE c
           new == {ruled(c) : c \in old}
<1>1. old \subseteq Column /\ Distinct(old) /\ Doc(parked[w])
  BY ParkedIsDoc
<1>2. \A c \in old : /\ ruled(c) \in Column /\ ruled(c).id = c.id /\ ruled(c).order = c.order
                     /\ ruled(c).index = c.index /\ ruled(c).born = c.born
  BY <1>1 DEF Column
<1>3. new \subseteq Column
  BY <1>2
<1>4. Distinct(new)
  <2> HIDE DEF ruled
  <2>1. QED
    BY <1>1, <1>2 DEF Distinct, Indexed, TiesAreStored
<1>5. Ids(old) \subseteq Ids(new)
  <2> HIDE DEF ruled
  <2>1. QED
    BY <1>2 DEF Ids
<1>6. QED
  <2>1. Doc([parked[w] EXCEPT !.columns = new])
    <3> HIDE DEF new
    <3>1. QED
      BY <1>1, <1>3, <1>4, <1>5, ColumnsMakeDoc
  <2>2. QED
    BY <2>1

LEMMA RemovedIsDoc ==
  ASSUME TypeOK, Documents, NEW w \in Window, NEW id
  PROVE  Doc([columns |-> {c \in parked[w].columns : c.id # id},
              member |-> [p \in Pane |-> IF parked[w].member[p] = id THEN None
                                          ELSE parked[w].member[p]]])
  BY ParkedIsDoc DEF Doc, ParkedState, Distinct, Indexed, TiesAreStored, Ids

LEMMA MovedIsDoc ==
  ASSUME TypeOK, Documents, NEW w \in Window, NEW c \in parked[w].columns, NEW delta \in Int
  PROVE  LET cols == parked[w].columns
         IN Doc([parked[w] EXCEPT !.columns =
                   Reordered(cols, c, Clamped(Place(c, cols) + delta, cols))])
<1> DEFINE old == parked[w].columns
           to == Clamped(Place(c, old) + delta, old)
<1>1. old \subseteq Column /\ old \subseteq StoredColumn /\ Distinct(old) /\ Doc(parked[w])
  BY ParkedIsDoc
<1>2. Cardinality(old) \in Nat
  BY <1>1, ColumnsAreFinite, FS_CardinalityType
<1>3. Place(c, old) \in Int
  BY <1>1, <1>2, PlaceRanks
<1>4. to \in 0 .. Cardinality(old) - 1
  BY <1>1, <1>3, ClampedIsAPlace
<1> HIDE DEF to
<1>5. /\ Reordered(old, c, to) \subseteq Column /\ Distinct(Reordered(old, c, to))
      /\ Ids(Reordered(old, c, to)) = Ids(old)
  BY <1>1, <1>4, ReorderedIsDistinct
<1>6. QED
  BY <1>1, <1>5, ColumnsMakeDoc DEF to

LEMMA ParkingIsDoc ==
  ASSUME TypeOK, Documents, NEW w \in Window, NEW p \in Pane, NEW id \in Live(w)
  PROVE  Doc([parked[w] EXCEPT !.member[p] = id])
<1>1. id \in Id
  BY ParkedIsDoc DEF Live, Ids, Column
<1>2. QED
  BY <1>1, ParkedIsDoc DEF Doc, ParkedState, Live

-----------------------------------------------------------------------------
(* Every step keeps them.                                                  *)

\* A step that writes one window's document, if any, and leaves the disk.
Writes(w) ==
  /\ \/ \E state : Doc(state) /\ SetParked(w, state)
     \/ UNCHANGED <<parked, dirty>>
     \/ UNCHANGED parked /\ dirty' = [dirty EXCEPT ![w] = @ \cup {"saveFilters"}]
     \/ UNCHANGED parked /\ dirty' = [dirty EXCEPT ![w] = @ \ {"prune"}]
     \/ UNCHANGED parked /\ dirty' = [dirty EXCEPT ![w] = (@ \ {"prune"}) \cup {"saveFilters"}]
  /\ UNCHANGED disk

LEMMA WritesKeepDocuments ==
  ASSUME TypeOK, Documents, NEW w \in Window, Writes(w)
  PROVE  /\ parked' \in [Window -> ParkedState] /\ dirty' \in [Window -> SUBSET Effect]
         /\ disk' = disk /\ Documents'
<1>1. /\ parked' \in [Window -> ParkedState]
      /\ \A v \in Window : Doc(parked'[v])
  <2>1. CASE UNCHANGED parked
    BY <2>1 DEF TypeOK, Documents
  <2>2. ASSUME NEW state, Doc(state), SetParked(w, state) PROVE <1>1!1 /\ <1>1!2
    BY <2>2 DEF Doc, SetParked, TypeOK, Documents
  <2>3. QED
    BY <2>1, <2>2 DEF Writes
<1>2. /\ dirty' \in [Window -> SUBSET Effect]
      /\ \A v \in Window : "saveParked" \in dirty[v] => "saveParked" \in dirty'[v]
  <2>1. PICK D \in {dirty[w], dirty[w] \cup {"saveParked", "prune"}, dirty[w] \cup {"saveFilters"},
                    dirty[w] \ {"prune"}, (dirty[w] \ {"prune"}) \cup {"saveFilters"}} :
              dirty' = [dirty EXCEPT ![w] = D]
    BY DEF Writes, SetParked, TypeOK
  <2>2. D \subseteq Effect /\ ("saveParked" \in dirty[w] => "saveParked" \in D)
    BY <2>1 DEF TypeOK, Effect
  <2>3. QED
    BY <2>1, <2>2 DEF TypeOK
<1>3. disk' = disk
  BY DEF Writes
<1>4. Documents'
  BY <1>1, <1>2, <1>3 DEF Documents, Doc, Distinct
<1>5. QED
  BY <1>1, <1>2, <1>3, <1>4

\* A page that is loaded takes a document that the disk has, all of its
\* effects to run.
LEMMA LoadsKeepDocuments ==
  ASSUME TypeOK, Documents, NEW w \in Window, NEW stored, LoadFrom(w, stored), disk' = stored,
         stored \in [parked : [columns : SUBSET StoredColumn, member : [Pane -> Id \cup {None}]],
                    filters : Filters],
         Indexed(stored.parked.columns), WellFormed(stored.parked) \/ stored = disk
  PROVE  TypeOK' /\ Documents'
<1>1. Doc(loadParked(stored.parked))
  BY LoadedIsDoc
<1>2. TypeOK'
  BY <1>1 DEF LoadFrom, Doc, TypeOK, Effect
<1>3. \A v \in Window : Doc(parked'[v])
  <2>1. parked' = [parked EXCEPT ![w] = loadParked(stored.parked)]
    BY DEF LoadFrom
  <2>2. QED
    BY <1>1, <2>1 DEF TypeOK, Documents
<1>4. stored = disk => \A v \in Window : "saveParked" \in dirty[v] => "saveParked" \in dirty'[v]
  BY DEF LoadFrom, TypeOK, Effect
<1>5. WellFormed(stored.parked) \/ \A v \in Window : "saveParked" \in dirty'[v]
  BY <1>4 DEF Documents
<1>6. Documents'
  BY <1>3, <1>5 DEF Documents
<1>7. QED
  BY <1>2, <1>6

\* The rest of the type.
Rest ==
  /\ card \in [Window -> [Pane -> Status \cup {Gone}]]
  /\ filters \in [Window -> Filters]
  /\ born \in 0 .. MaxBorn /\ chosen \subseteq 0 .. MaxBorn
  /\ excused \in [Window -> SUBSET Pane]

LEMMA StepKeepsDocuments ==
  ASSUME TypeOK, Documents, NEW w \in Window, Writes(w), Rest'
  PROVE  TypeOK' /\ Documents'
  BY WritesKeepDocuments DEF TypeOK, Rest

\* The operator's steps on the columns.
LEMMA ColumnStepsKeepDocuments ==
  ASSUME TypeOK, Documents, NEW w \in Window,
         \/ \E rule \in ExitRule : createColumn(w, rule)
         \/ renameColumn(w)
         \/ \E id \in Id, rule \in ExitRule : setExitRule(w, id, rule)
         \/ \E c \in parked[w].columns, delta \in -MaxColumns .. MaxColumns : moveColumn(w, c, delta)
         \/ \E id \in Id : removeColumn(w, id)
         \/ \E p \in Pane, id \in Id : park(w, p, id)
         \/ \E p \in Pane : unpark(w, p)
         \/ clear(w)
  PROVE  TypeOK' /\ Documents'
<1>1. ASSUME NEW rule \in ExitRule, createColumn(w, rule) PROVE TypeOK' /\ Documents'
  <2>1. PICK state : SetParked(w, state) /\ state = parked'[w]
    BY <1>1 DEF createColumn, SetParked, TypeOK
  <2>2. Writes(w)
    BY <1>1, <2>1, CreatedIsDoc DEF createColumn, Writes
  <2>3. Rest'
    BY <1>1, ColumnsAssumption DEF createColumn, Rest, TypeOK
  <2>4. QED
    BY <2>2, <2>3, StepKeepsDocuments
<1>2. ASSUME renameColumn(w) PROVE TypeOK' /\ Documents'
  <2>1. Writes(w)
    BY <1>2, ParkedIsDoc DEF renameColumn, Writes
  <2>2. QED
    BY <1>2, <2>1, StepKeepsDocuments DEF renameColumn, Rest, TypeOK
<1>3. ASSUME NEW id \in Id, NEW rule \in ExitRule, setExitRule(w, id, rule) PROVE TypeOK' /\ Documents'
  <2>1. Writes(w)
    BY <1>3, RuledIsDoc DEF setExitRule, Writes
  <2>2. ActiveIn(w, id) \subseteq Pane
    BY DEF ActiveIn
  <2>3. Rest'
    BY <1>3, <2>2 DEF setExitRule, Rest, TypeOK
  <2>4. QED
    BY <2>1, <2>3, StepKeepsDocuments
<1>4. ASSUME NEW c \in parked[w].columns, NEW delta \in -MaxColumns .. MaxColumns,
             moveColumn(w, c, delta)
      PROVE  TypeOK' /\ Documents'
  <2>1. delta \in Int
    BY ColumnsAssumption
  <2>2. Writes(w)
    BY <1>4, <2>1, MovedIsDoc DEF moveColumn, Writes
  <2>3. QED
    BY <1>4, <2>2, StepKeepsDocuments DEF moveColumn, Rest, TypeOK
<1>5. ASSUME NEW id \in Id, removeColumn(w, id) PROVE TypeOK' /\ Documents'
  <2>1. Writes(w)
    BY <1>5, RemovedIsDoc DEF removeColumn, Writes
  <2>2. QED
    BY <1>5, <2>1, StepKeepsDocuments DEF removeColumn, Rest, TypeOK
<1>6. ASSUME NEW p \in Pane, NEW id \in Id, park(w, p, id) PROVE TypeOK' /\ Documents'
  <2>1. Writes(w)
    BY <1>6, ParkingIsDoc DEF park, Writes
  <2>2. Rest'
    BY <1>6 DEF park, Rest, TypeOK
  <2>3. QED
    BY <2>1, <2>2, StepKeepsDocuments
<1>7. ASSUME NEW p \in Pane, unpark(w, p) PROVE TypeOK' /\ Documents'
  <2>1. Writes(w)
    BY <1>7, ReleasedIsDoc DEF unpark, Writes
  <2>2. QED
    BY <1>7, <2>1, StepKeepsDocuments DEF unpark, Rest, TypeOK
<1>8. ASSUME clear(w) PROVE TypeOK' /\ Documents'
  <2>1. Writes(w)
    BY <1>8, NoDocumentIsDoc DEF clear, Writes
  <2>2. QED
    BY <1>8, <2>1, StepKeepsDocuments DEF clear, Rest, TypeOK
<1>9. QED
  BY <1>1, <1>2, <1>3, <1>4, <1>5, <1>6, <1>7, <1>8

\* The filters, and the bridge's events.
LEMMA StoreStepsKeepDocuments ==
  ASSUME TypeOK, Documents, NEW w \in Window,
         \/ \E h \in Host : toggleHost(w, h)
         \/ \E key \in Key : toggleColumn(w, key)
         \/ clearFilters(w)
         \/ \E p \in Pane, s \in Status : StatusChanged(w, p, s)
         \/ \E p \in Pane, s \in Status : Shown(w, p, s)
         \/ \E S \in SUBSET {p \in Pane : card[w][p] # Gone} \ {{}} : Dropped(w, S)
  PROVE  TypeOK' /\ Documents'
<1>1. ASSUME NEW h \in Host, toggleHost(w, h) PROVE TypeOK' /\ Documents'
  <2>1. Writes(w)
    BY <1>1 DEF toggleHost, SetFilters, Writes
  <2>2. Rest'
    BY <1>1 DEF toggleHost, SetFilters, Toggled, Filters, Rest, TypeOK
  <2>3. QED
    BY <2>1, <2>2, StepKeepsDocuments
<1>2. ASSUME NEW key \in Key, toggleColumn(w, key) PROVE TypeOK' /\ Documents'
  <2>1. Writes(w)
    BY <1>2 DEF toggleColumn, SetFilters, Writes
  <2>2. filters' \in [Window -> Filters]
    BY <1>2 DEF toggleColumn, SetFilters, Toggled, Filters, TypeOK
  <2>3. {c.born : c \in {d \in parked[w].columns : d.id = key}} \subseteq 0 .. MaxBorn
    BY ParkedIsDoc DEF Column
  <2>4. Rest'
    BY <1>2, <2>2, <2>3 DEF toggleColumn, Rest, TypeOK
  <2>5. QED
    BY <2>1, <2>4, StepKeepsDocuments
<1>3. ASSUME clearFilters(w) PROVE TypeOK' /\ Documents'
  <2>1. Writes(w)
    BY <1>3 DEF clearFilters, SetFilters, Writes
  <2>2. Rest'
    BY <1>3 DEF clearFilters, SetFilters, NoFilters, Filters, Rest, TypeOK
  <2>3. QED
    BY <2>1, <2>2, StepKeepsDocuments
<1>4. ASSUME NEW p \in Pane, NEW s \in Status, StatusChanged(w, p, s) PROVE TypeOK' /\ Documents'
  <2>1. Writes(w)
    BY <1>4, ReleasedIsDoc DEF StatusChanged, Writes
  <2>2. Rest'
    BY <1>4 DEF StatusChanged, Rest, TypeOK
  <2>3. QED
    BY <2>1, <2>2, StepKeepsDocuments
<1>5. ASSUME NEW p \in Pane, NEW s \in Status, Shown(w, p, s) PROVE TypeOK' /\ Documents'
  <2>1. Writes(w)
    BY <1>5 DEF Shown, Writes
  <2>2. Rest'
    BY <1>5 DEF Shown, Rest, TypeOK
  <2>3. QED
    BY <2>1, <2>2, StepKeepsDocuments
<1>6. ASSUME NEW S, Dropped(w, S) PROVE TypeOK' /\ Documents'
  <2>1. Writes(w)
    BY <1>6, ReleasedIsDoc DEF Dropped, Writes
  <2>2. Rest'
    BY <1>6 DEF Dropped, Rest, TypeOK
  <2>3. QED
    BY <2>1, <2>2, StepKeepsDocuments
<1>7. QED
  BY <1>1, <1>2, <1>3, <1>4, <1>5, <1>6

\* The effects, and the page that is loaded anew.
LEMMA EffectsKeepDocuments ==
  ASSUME TypeOK, Documents, NEW w \in Window,
         SaveParked(w) \/ SaveFilters(w) \/ Prune(w) \/ Reload(w) \/ clearLocalData(w)
  PROVE  TypeOK' /\ Documents'
<1>1. CASE SaveParked(w)
  <2>1. disk' = [parked |-> parked[w], filters |-> disk.filters]
    BY <1>1 DEF SaveParked, TypeOK
  <2>2. /\ Doc(parked[w]) /\ parked[w].columns \subseteq StoredColumn
        /\ WellFormed(parked[w]) /\ Indexed(parked[w].columns)
    BY ParkedIsDoc, DocIsWellFormed
  <2>3. TypeOK'
    BY <1>1, <2>1, <2>2 DEF SaveParked, TypeOK, Doc, ParkedState
  <2>4. Documents'
    BY <1>1, <2>1, <2>2 DEF SaveParked, Documents
  <2>5. QED
    BY <2>3, <2>4
<1>2. CASE SaveFilters(w)
  <2>1. disk' = [parked |-> disk.parked, filters |-> filters[w]]
    BY <1>2 DEF SaveFilters, TypeOK
  <2>2. TypeOK'
    BY <1>2, <2>1 DEF SaveFilters, TypeOK
  <2>3. Documents'
    BY <1>2, <2>1 DEF SaveFilters, TypeOK, Documents
  <2>4. QED
    BY <2>2, <2>3
<1>3. CASE Prune(w)
  <2>0. filters[w] \in Filters
    BY DEF TypeOK
  <2>1. Writes(w)
    BY <1>3 DEF Prune, Writes
  <2>2. Pruned(filters[w].hidden, Live(w)) \subseteq Key
    BY <2>0 DEF Pruned, Filters
  <2>3. filters' \in [Window -> Filters]
    <3> DEFINE kept == Pruned(filters[w].hidden, Live(w))
    <3>1. [filters[w] EXCEPT !.hidden = kept] \in Filters
      BY <2>0, <2>2 DEF Filters
    <3>2. filters' = filters \/ filters' = [filters EXCEPT ![w] = [filters[w] EXCEPT !.hidden = kept]]
      BY <1>3 DEF Prune
    <3> HIDE DEF kept
    <3>3. QED
      BY <3>1, <3>2 DEF TypeOK
  <2>4. Rest'
    BY <1>3, <2>3 DEF Prune, Rest, TypeOK
  <2>5. QED
    BY <2>1, <2>4, StepKeepsDocuments
<1>4. CASE Reload(w)
  BY <1>4, LoadsKeepDocuments DEF Reload, TypeOK, Documents
<1>5. CASE clearLocalData(w)
  <2> DEFINE empty == [parked |-> NoDocument, filters |-> NoFilters]
  <2>1. disk' = empty /\ LoadFrom(w, empty)
    BY <1>5 DEF clearLocalData
  <2>2. /\ WellFormed(empty.parked) /\ Indexed(empty.parked.columns)
        /\ empty.parked \in [columns : SUBSET StoredColumn, member : [Pane -> Id \cup {None}]]
    BY NoDocumentIsDoc, DocIsWellFormed DEF NoDocument
  <2>3. empty \in [parked : [columns : SUBSET StoredColumn, member : [Pane -> Id \cup {None}]],
                  filters : Filters]
    BY <2>2 DEF NoFilters, Filters
  <2> HIDE DEF empty
  <2>4. QED
    BY <2>1, <2>2, <2>3, LoadsKeepDocuments
<1>6. QED
  BY <1>1, <1>2, <1>3, <1>4, <1>5

LEMMA NextKeepsDocuments ==
  TypeOK /\ Documents /\ [Next]_vars => TypeOK' /\ Documents'
<1> SUFFICES ASSUME TypeOK, Documents, [Next]_vars PROVE TypeOK' /\ Documents'
  OBVIOUS
<1>1. CASE Next
  BY <1>1, ColumnStepsKeepDocuments, StoreStepsKeepDocuments, EffectsKeepDocuments DEF Next
<1>2. CASE UNCHANGED vars
  BY <1>2 DEF vars, TypeOK, Documents
<1>3. QED
  BY <1>1, <1>2

\* The rows of the array that is stored at first have a place each.
LEMMA StoredIsIndexed ==
  ASSUME NEW doc \in StoredAtFirst
  PROVE  /\ doc \in [columns : SUBSET StoredColumn, member : [Pane -> Id \cup {None}]]
         /\ Indexed(doc.columns) /\ \A c \in doc.columns : c.born = 0
<1> DEFINE at(row, i) == [id |-> row[i].id, rule |-> row[i].rule, order |-> row[i].order,
                          index |-> i, born |-> 0]
<1>1. PICK n \in 0 .. MaxStored :
        \E row \in [1 .. n -> StoredRow] : doc.columns = {at(row, i) : i \in 1 .. n}
  BY DEF StoredAtFirst
<1> PICK row \in [1 .. n -> StoredRow] : doc.columns = {at(row, i) : i \in 1 .. n}
  BY <1>1
<1>2. ASSUME NEW i \in 1 .. n PROVE at(row, i) \in StoredColumn
  BY <1>2, ColumnsAssumption DEF StoredRow, StoredColumn
<1>3. \A i \in 1 .. n : at(row, i).index = i /\ at(row, i).born = 0
  OBVIOUS
<1>4. doc \in [columns : SUBSET StoredColumn, member : [Pane -> Id \cup {None}]]
  BY <1>2 DEF StoredAtFirst
<1> HIDE DEF at
<1>5. QED
  BY <1>3, <1>4 DEF Indexed, TiesAreStored

LEMMA InitHasDocuments == Init => TypeOK /\ Documents
<1> SUFFICES ASSUME Init PROVE TypeOK /\ Documents
  OBVIOUS
<1>1. PICK doc \in StoredAtFirst, stored \in Filters :
        /\ disk = [parked |-> doc, filters |-> stored]
        /\ parked = [w \in Window |-> loadParked(doc)]
        /\ filters = [w \in Window |-> stored]
  BY DEF Init
<1>2. doc \in [columns : SUBSET StoredColumn, member : [Pane -> Id \cup {None}]]
      /\ Indexed(doc.columns)
  BY StoredIsIndexed
<1>3. Doc(loadParked(doc))
  BY <1>2, LoadedIsDoc
<1>4. TypeOK
  BY <1>1, <1>2, <1>3, ColumnsAssumption DEF Init, TypeOK, Doc, Effect
<1>5. Documents
  BY <1>1, <1>2, <1>3 DEF Init, Documents, Effect
<1>6. QED
  BY <1>4, <1>5

\* The stores hold what their types say.
THEOREM ColumnsHaveTheirTypes == Spec => []TypeOK
  BY InitHasDocuments, NextKeepsDocuments, PTL DEF Spec

\* In any number of windows that write one localStorage, in whatever order
\* their effects run and their pages are loaded anew, no two columns of a
\* document share an id, or a place unless the document stored at first gave
\* it to both, and no card is parked in a column that is not there
\* (ParkedStore.createColumn, moveColumn, removeColumn, loadParked).
THEOREM DocumentsStayConsistent == Spec => []DocumentsAreConsistent
<1>1. TypeOK /\ Documents => DocumentsAreConsistent
  BY DocIsWellFormed DEF Documents, DocumentsAreConsistent
<1>2. QED
  BY <1>1, InitHasDocuments, NextKeepsDocuments, PTL DEF Spec

\* A move leaves no two columns one place, also when it came to some of them
\* with one (ParkedStore.moveColumn, its doc).
THEOREM MovesAreCanonical == Spec => MovesUntie
<1> DEFINE Untied(w) ==
             \A c \in parked[w].columns, delta \in -MaxColumns .. MaxColumns :
               moveColumn(w, c, delta) =>
                 \A d, e \in parked'[w].columns : d.order = e.order => d = e
<1>1. ASSUME TypeOK, Documents, NEW w \in Window PROVE Untied(w)
  <2> SUFFICES ASSUME NEW c \in parked[w].columns, NEW delta \in -MaxColumns .. MaxColumns,
                      moveColumn(w, c, delta)
               PROVE  \A d, e \in parked'[w].columns : d.order = e.order => d = e
    OBVIOUS
  <2> DEFINE old == parked[w].columns
             to == Clamped(Place(c, old) + delta, old)
  <2>1. old \subseteq Column /\ old \subseteq StoredColumn /\ Distinct(old) /\ parked[w] \in ParkedState
    BY <1>1, ParkedIsDoc DEF Doc
  <2>2. to \in 0 .. Cardinality(old) - 1
    <3>1. Place(c, old) \in Int /\ delta \in Int
      BY <2>1, ColumnsAreFinite, FS_CardinalityType, PlaceRanks, ColumnsAssumption
    <3>2. QED
      BY <2>1, <3>1, ClampedIsAPlace
  <2>3. parked'[w].columns = Reordered(old, c, to)
    BY <1>1, <2>1 DEF moveColumn, SetParked, TypeOK, ParkedState
  <2> HIDE DEF to, old
  <2>4. QED
    BY <2>1, <2>2, <2>3, ReorderedIsDistinct DEF old
<1>2. TypeOK /\ Documents /\ [Next]_vars => [\A w \in Window : Untied(w)]_vars
  BY <1>1
<1>3. [\A w \in Window : Untied(w)]_vars =>
        [\A w \in Window : \A c \in parked[w].columns, delta \in -MaxColumns .. MaxColumns :
           moveColumn(w, c, delta) =>
             \A d, e \in parked'[w].columns : d.order = e.order => d = e]_vars
  OBVIOUS
<1> HIDE DEF Untied
<1>4. QED
  BY <1>2, <1>3, InitHasDocuments, NextKeepsDocuments, PTL DEF Spec, MovesUntie

-----------------------------------------------------------------------------
(* The exit rules.                                                         *)

\* Only a status event that asked the rule takes a card that stays on the
\* board out of its column (ParkedStore.shouldExit, PanesStore's handler of
\* pane.agent_status_changed).
THEOREM OnlyActivationReleases == Spec => LeavesOnlyOnActivation
<1> DEFINE Released(w, p) == /\ parked[w].member[p] # None /\ parked'[w].member[p] = None
                             /\ card'[w][p] # card[w][p] /\ card'[w][p] # Gone
           Activated(w, p) == /\ RuleOf(w, parked[w].member[p]) = "agent-activity"
                              /\ card'[w][p] \in Active
<1>1. ASSUME TypeOK, [Next]_vars, NEW w \in Window, NEW p \in Pane, Released(w, p)
      PROVE  Activated(w, p)
  <2>1. PICK v \in Window :
          \/ \E q \in Pane, s \in Status : StatusChanged(v, q, s) \/ Shown(v, q, s)
          \/ \E S \in SUBSET Pane : Dropped(v, S)
          \/ Reload(v) \/ clearLocalData(v)
    <3>1. card' # card
      BY <1>1
    <3>2. Next
      BY <1>1, <3>1 DEF vars
    <3>3. QED
      BY <3>1, <3>2 DEF Next, createColumn, renameColumn, setExitRule, moveColumn, removeColumn, park,
                        unpark, clear, toggleHost, toggleColumn, clearFilters, SaveParked, SaveFilters,
                        Prune
  <2>2. ASSUME NEW q \in Pane, NEW s \in Status, StatusChanged(v, q, s) PROVE Activated(w, p)
    <3>1. v = w /\ q = p /\ card'[w][p] = s
      BY <1>1, <2>2 DEF StatusChanged, TypeOK
    <3>2. parked' # parked
      BY <1>1
    <3>3. shouldExit(RuleOf(w, parked[w].member[p]), card[w][p], s)
      BY <2>2, <3>1, <3>2 DEF StatusChanged
    <3>4. QED
      BY <3>1, <3>3 DEF shouldExit
  <2>3. ASSUME NEW q \in Pane, NEW s \in Status, Shown(v, q, s) PROVE Activated(w, p)
    BY <1>1, <2>3 DEF Shown
  <2>4. ASSUME NEW S \in SUBSET Pane, Dropped(v, S) PROVE Activated(w, p)
    <3>1. v = w /\ p \notin S
      BY <1>1, <2>4 DEF Dropped, TypeOK
    <3>2. QED
      BY <1>1, <2>4, <3>1 DEF Dropped, TypeOK
  <2>5. ASSUME NEW stored, LoadFrom(v, stored) PROVE Activated(w, p)
    <3>1. card' = [card EXCEPT ![v] = [q \in Pane |-> Gone]]
      BY <2>5 DEF LoadFrom
    <3>2. QED
      BY <1>1, <3>1 DEF TypeOK
  <2>6. QED
    BY <2>1, <2>2, <2>3, <2>4, <2>5 DEF Reload, clearLocalData
<1>2. TypeOK /\ [Next]_vars =>
        [\A w \in Window, p \in Pane : Released(w, p) => Activated(w, p)]_vars
  BY <1>1
<1>3. [\A w \in Window, p \in Pane : Released(w, p) => Activated(w, p)]_vars =>
      [\A w \in Window, p \in Pane :
         LET id == parked[w].member[p]
         IN ( /\ id # None /\ parked'[w].member[p] = None
              /\ card'[w][p] # card[w][p] /\ card'[w][p] # Gone )
            => ( /\ RuleOf(w, id) = "agent-activity"
                 /\ card'[w][p] \in Active )]_vars
  OBVIOUS
<1> HIDE DEF Released, Activated
<1>4. QED
  BY <1>2, <1>3, InitHasDocuments, NextKeepsDocuments, PTL DEF Spec, LeavesOnlyOnActivation

\* A card's rule is that of the one column with its number.
LEMMA RuleOfTheColumn ==
  ASSUME NEW cols, Distinct(cols), NEW c \in cols
  PROVE  (CHOOSE d \in cols : d.id = c.id) = c
  BY DEF Distinct

\* In a document, a member's column is there, and its rule is RuleOf.
LEMMA MembersHaveColumns ==
  ASSUME TypeOK, Documents, NEW w \in Window, NEW p \in Pane, parked[w].member[p] # None
  PROVE  \E c \in parked[w].columns :
           c.id = parked[w].member[p] /\ RuleOf(w, parked[w].member[p]) = c.rule
<1>1. PICK c \in parked[w].columns : c.id = parked[w].member[p]
  BY ParkedIsDoc DEF Doc, Ids
<1>2. (CHOOSE d \in parked[w].columns : d.id = parked[w].member[p]) = c
  BY <1>1, ParkedIsDoc, RuleOfTheColumn
<1>3. QED
  BY <1>1, <1>2 DEF RuleOf

\* Told so: p is in a column of w that its activity takes it out of.
Overstays(w, p) == /\ card[w][p] \in Active
                   /\ \E c \in parked[w].columns : c.id = parked[w].member[p]
                                                 /\ c.rule = "agent-activity"

LEMMA StaysIffOverstays ==
  ASSUME TypeOK, Documents
  PROVE  StaysOnlyIfExcused <=> \A w \in Window, p \in Pane : Overstays(w, p) => p \in excused[w]
<1>1. ASSUME NEW w \in Window, NEW p \in Pane
      PROVE  Overstays(w, p) <=> /\ card[w][p] \in Active
                                 /\ parked[w].member[p] # None
                                 /\ RuleOf(w, parked[w].member[p]) = "agent-activity"
  <2>1. \A c \in parked[w].columns : c.id # None /\ c.id \in Id
    BY ParkedIsDoc, ColumnsAssumption DEF Column, Id, None
  <2>2. CASE parked[w].member[p] = None
    BY <2>1, <2>2 DEF Overstays
  <2>3. CASE parked[w].member[p] # None
    <3>1. \A c, d \in parked[w].columns : c.id = d.id => c = d
      BY ParkedIsDoc DEF Distinct
    <3>2. PICK c \in parked[w].columns :
            c.id = parked[w].member[p] /\ RuleOf(w, parked[w].member[p]) = c.rule
      BY <2>3, MembersHaveColumns
    <3>3. QED
      BY <2>3, <3>1, <3>2 DEF Overstays
  <2>4. QED
    BY <2>2, <2>3
<1>2. QED
  BY <1>1 DEF StaysOnlyIfExcused

Excused == \A w \in Window, p \in Pane : Overstays(w, p) => p \in excused[w]

\* A step of w leaves the other windows alone.
Apart(w) == \A u \in Window \ {w} : /\ card'[u] = card[u] /\ parked'[u] = parked[u]
                                     /\ excused'[u] = excused[u]

LEMMA ExcusedIfApart ==
  ASSUME Excused, NEW w \in Window, Apart(w),
         \A p \in Pane : Overstays(w, p)' =>
           \/ p \in excused'[w]
           \/ Overstays(w, p) /\ (p \in excused[w] => p \in excused'[w])
  PROVE  Excused'
<1>1. ASSUME NEW u \in Window \ {w}, NEW p \in Pane, Overstays(u, p)' PROVE p \in excused'[u]
  BY <1>1 DEF Apart, Overstays, Excused
<1>2. QED
  BY <1>1 DEF Excused

\* A document written over that keeps the panes where they were, or nowhere,
\* and whose columns have the rules they had.
LEMMA ExcusedIfRulesStay ==
  ASSUME TypeOK, Documents, Excused, NEW w \in Window, NEW state \in ParkedState,
         parked' = [parked EXCEPT ![w] = state], UNCHANGED <<card, excused>>,
         \A p \in Pane, c \in state.columns :
           c.id = state.member[p] =>
             /\ state.member[p] = parked[w].member[p]
             /\ \E d \in parked[w].columns : d.id = c.id /\ d.rule = c.rule
  PROVE  Excused'
<1>1. Apart(w) /\ parked'[w] = state
  BY DEF Apart, TypeOK
<1>2. ASSUME NEW p \in Pane, Overstays(w, p)' PROVE Overstays(w, p)
  BY <1>1, <1>2 DEF Overstays
<1>3. QED
  BY <1>1, <1>2, ExcusedIfApart

LEMMA ColumnStepsExcuse ==
  ASSUME TypeOK, Documents, TypeOK', Excused, NEW w \in Window,
         \/ \E rule \in ExitRule : createColumn(w, rule)
         \/ renameColumn(w)
         \/ \E id \in Id, rule \in ExitRule : setExitRule(w, id, rule)
         \/ \E c \in parked[w].columns, delta \in -MaxColumns .. MaxColumns : moveColumn(w, c, delta)
         \/ \E id \in Id : removeColumn(w, id)
         \/ \E p \in Pane, id \in Id : park(w, p, id)
         \/ \E p \in Pane : unpark(w, p)
         \/ clear(w)
  PROVE  Excused'
<1> DEFINE old == parked[w].columns
           Quiet == UNCHANGED <<card, excused>>
<1>0. /\ parked'[w] \in ParkedState /\ parked[w] \in ParkedState
      /\ old \subseteq Column /\ old \subseteq StoredColumn /\ Distinct(old)
      /\ \A p \in Pane : parked[w].member[p] \in Ids(old) \cup {None}
      /\ \A c \in old : c.id # None
  BY ParkedIsDoc DEF TypeOK, Doc, Column, Id, None
<1>1. ASSUME NEW rule \in ExitRule, createColumn(w, rule) PROVE Excused'
  <2> DEFINE new == [id |-> nextColumnId(old), rule |-> rule, order |-> nextOrder(old),
                     index |-> nextIndex(old), born |-> born + 1]
             state == [parked[w] EXCEPT !.columns = old \cup {new}]
  <2>1. nextColumnId(old) \in Id \ Ids(old)
    BY <1>0, <1>1, NewColumnIsFresh DEF createColumn, Live
  <2>2. parked' = [parked EXCEPT ![w] = state] /\ Quiet
    BY <1>1 DEF createColumn, SetParked
  <2>3. state \in ParkedState
    BY <1>0, <2>2 DEF TypeOK
  <2>4. state.columns = old \cup {new} /\ state.member = parked[w].member
    BY <1>0 DEF ParkedState
  <2>5. ASSUME NEW p \in Pane, NEW c \in old \cup {new}, c.id = parked[w].member[p]
        PROVE  c \in old
    BY <1>0, <2>1, <2>5 DEF Id, None
  <2>6. \A p \in Pane, c \in state.columns :
          c.id = state.member[p] => c \in old /\ state.member[p] = parked[w].member[p]
    <3> HIDE DEF state, new
    <3>1. QED
      BY <2>4, <2>5
  <2> HIDE DEF state
  <2>7. QED
    BY <2>2, <2>3, <2>6, ExcusedIfRulesStay
<1>2. ASSUME renameColumn(w) PROVE Excused'
  BY <1>2 DEF renameColumn, SetParked, TypeOK, Excused, Overstays
<1>3. ASSUME NEW id \in Id, NEW rule \in ExitRule, setExitRule(w, id, rule) PROVE Excused'
  <2> DEFINE ruled(c) == IF c.id = id THEN [c EXCEPT !.rule = rule] ELSE c
  <2>1. /\ parked'[w].columns = {ruled(c) : c \in old} /\ parked'[w].member = parked[w].member
        /\ excused'[w] = excused[w] \cup ActiveIn(w, id) /\ card' = card
    BY <1>0, <1>3 DEF setExitRule, SetParked, TypeOK, ParkedState
  <2>2. Apart(w)
    BY <1>3 DEF setExitRule, SetParked, TypeOK, Apart
  <2>3. ASSUME NEW p \in Pane, Overstays(w, p)'
        PROVE  p \in excused'[w] \/ (Overstays(w, p) /\ (p \in excused[w] => p \in excused'[w]))
    <3>1. PICK c \in old : ruled(c).id = parked[w].member[p] /\ ruled(c).rule = "agent-activity"
      BY <2>1, <2>3 DEF Overstays
    <3>2. ruled(c).id = c.id
      BY <1>0 DEF Column
    <3>3. CASE c.id = id
      BY <2>1, <2>3, <3>1, <3>2, <3>3 DEF Overstays, ActiveIn
    <3>4. CASE c.id # id
      BY <2>1, <2>3, <3>1, <3>2, <3>4 DEF Overstays
    <3>5. QED
      BY <3>3, <3>4
  <2>4. QED
    BY <2>2, <2>3, ExcusedIfApart
<1>4. ASSUME NEW c \in old, NEW delta \in -MaxColumns .. MaxColumns, moveColumn(w, c, delta)
      PROVE  Excused'
  <2> DEFINE to == Clamped(Place(c, old) + delta, old)
             state == [parked[w] EXCEPT !.columns = Reordered(old, c, to)]
  <2>1. parked' = [parked EXCEPT ![w] = state] /\ Quiet
    BY <1>4 DEF moveColumn, SetParked
  <2>2. state \in ParkedState
    BY <1>0, <2>1 DEF TypeOK
  <2>3. to \in 0 .. Cardinality(old) - 1
    <3>1. Place(c, old) \in Int /\ delta \in Int
      BY <1>0, ColumnsAreFinite, FS_CardinalityType, PlaceRanks, ColumnsAssumption
    <3>2. QED
      BY <1>0, <3>1, ClampedIsAPlace
  <2>4. \A e \in Reordered(old, c, to) : \E d \in old : e.id = d.id /\ e.rule = d.rule
    <3> HIDE DEF to, old
    <3>1. QED
      BY <1>0, <2>3, ReorderedIsDistinct
  <2>5. state.columns = Reordered(old, c, to) /\ state.member = parked[w].member
    BY <1>0 DEF ParkedState
  <2> HIDE DEF state, to
  <2>6. \A p \in Pane, e \in state.columns :
          e.id = state.member[p] =>
            /\ state.member[p] = parked[w].member[p]
            /\ \E d \in old : d.id = e.id /\ d.rule = e.rule
    BY <2>4, <2>5
  <2>7. QED
    BY <2>1, <2>2, <2>6, ExcusedIfRulesStay
<1>5. ASSUME NEW id \in Id, removeColumn(w, id) PROVE Excused'
  <2> DEFINE state == [columns |-> {c \in old : c.id # id},
                       member |-> [p \in Pane |-> IF parked[w].member[p] = id THEN None
                                                   ELSE parked[w].member[p]]]
  <2>1. parked' = [parked EXCEPT ![w] = state] /\ Quiet
    BY <1>5 DEF removeColumn, SetParked
  <2>2. state \in ParkedState
    BY <1>0, <2>1 DEF TypeOK
  <2>3. \A p \in Pane, c \in state.columns :
          c.id = state.member[p] => c \in old /\ state.member[p] = parked[w].member[p]
    BY <1>0
  <2> HIDE DEF state
  <2>4. QED
    BY <2>1, <2>2, <2>3, ExcusedIfRulesStay
<1>6. ASSUME NEW q \in Pane, NEW id \in Id, park(w, q, id) PROVE Excused'
  <2>1. /\ parked'[w] = [parked[w] EXCEPT !.member[q] = id] /\ card' = card
        /\ excused'[w] = IF card[w][q] \in Active THEN excused[w] \cup {q} ELSE excused[w]
    BY <1>6 DEF park, SetParked, TypeOK
  <2>2. Apart(w)
    BY <1>6 DEF park, SetParked, TypeOK, Apart
  <2>3. ASSUME NEW p \in Pane, Overstays(w, p)'
        PROVE  p \in excused'[w] \/ (Overstays(w, p) /\ (p \in excused[w] => p \in excused'[w]))
    <3>1. CASE p = q
      BY <2>1, <2>3, <3>1 DEF Overstays
    <3>2. CASE p # q
      BY <1>0, <2>1, <2>3, <3>2 DEF Overstays, ParkedState
    <3>3. QED
      BY <3>1, <3>2
  <2>4. QED
    BY <2>2, <2>3, ExcusedIfApart
<1>7. ASSUME NEW S, SetParked(w, releasePanes(w, S)), Quiet PROVE Excused'
  <2> DEFINE state == releasePanes(w, S)
  <2>1. parked' = [parked EXCEPT ![w] = state]
    BY <1>7 DEF SetParked
  <2>2. state \in ParkedState
    BY <1>0, <2>1 DEF TypeOK
  <2>3. \A p \in Pane, c \in state.columns :
          c.id = state.member[p] => c \in old /\ state.member[p] = parked[w].member[p]
    BY <1>0 DEF releasePanes, ParkedState
  <2> HIDE DEF state
  <2>4. QED
    BY <1>7, <2>1, <2>2, <2>3, ExcusedIfRulesStay
<1>8. ASSUME clear(w) PROVE Excused'
  <2>1. parked' = [parked EXCEPT ![w] = NoDocument] /\ Quiet
    BY <1>8 DEF clear, SetParked
  <2>2. NoDocument \in ParkedState /\ NoDocument.columns = {}
    BY NoDocumentIsDoc DEF Doc, NoDocument
  <2>3. QED
    BY <2>1, <2>2, ExcusedIfRulesStay
<1>9. QED
  BY <1>1, <1>2, <1>3, <1>4, <1>5, <1>6, <1>7, <1>8 DEF unpark

\* An agent that becomes active is released by the same event; what shows it
\* active otherwise is an excuse.
LEMMA EventsExcuse ==
  ASSUME TypeOK, Documents, Excused, NEW w \in Window,
         \/ \E p \in Pane, s \in Status : StatusChanged(w, p, s)
         \/ \E p \in Pane, s \in Status : Shown(w, p, s)
         \/ \E S \in SUBSET {p \in Pane : card[w][p] # Gone} \ {{}} : Dropped(w, S)
  PROVE  Excused'
<1>0. /\ parked[w] \in ParkedState /\ card[w] \in [Pane -> Status \cup {Gone}]
      /\ excused[w] \in SUBSET Pane /\ Gone \notin Active
      /\ \A c \in parked[w].columns : c.id # None
  BY ParkedIsDoc, PaneAssumption, ColumnsAssumption DEF TypeOK, Doc, Column, Id, None
<1>1. ASSUME NEW q \in Pane, NEW s \in Status, StatusChanged(w, q, s) PROVE Excused'
  <2> DEFINE id == parked[w].member[q]
             asks == id \in Live(w) /\ shouldExit(RuleOf(w, id), card[w][q], s)
  <2>1. /\ card'[w] = [card[w] EXCEPT ![q] = s]
        /\ excused'[w] = IF s \in Active THEN excused[w] ELSE excused[w] \ {q}
        /\ parked'[w] = IF asks THEN releasePanes(w, {q}) ELSE parked[w]
    BY <1>1 DEF StatusChanged, SetParked, TypeOK
  <2>2. Apart(w)
    BY <1>1 DEF StatusChanged, SetParked, TypeOK, Apart
  <2>3. /\ parked'[w].columns = parked[w].columns
        /\ \A p \in Pane : parked'[w].member[p] = parked[w].member[p] \/ parked'[w].member[p] = None
        /\ asks => parked'[w].member[q] = None
    BY <1>0, <2>1 DEF releasePanes, ParkedState
  <2>4. ASSUME NEW p \in Pane, Overstays(w, p)'
        PROVE  Overstays(w, p) /\ (p \in excused[w] => p \in excused'[w])
    <3>1. PICK c \in parked[w].columns : c.id = parked[w].member[p] /\ c.rule = "agent-activity"
      BY <1>0, <2>3, <2>4 DEF Overstays
    <3>2. CASE p # q
      BY <1>0, <2>1, <2>4, <3>1, <3>2 DEF Overstays
    <3>3. CASE p = q
      <4>1. s \in Active /\ ~asks
        BY <1>0, <2>1, <2>3, <2>4, <3>3 DEF Overstays
      <4>2. id \in Live(w) /\ RuleOf(w, id) = "agent-activity"
        <5>1. RuleOf(w, c.id) = c.rule
          BY ParkedIsDoc, RuleOfTheColumn DEF RuleOf
        <5>2. QED
          BY <3>1, <3>3, <5>1 DEF Live, Ids
      <4>3. card[w][q] = s
        BY <4>1, <4>2 DEF shouldExit
      <4>4. QED
        BY <2>1, <3>1, <3>3, <4>1, <4>3 DEF Overstays
    <3>4. QED
      BY <3>2, <3>3
  <2>5. QED
    BY <2>2, <2>4, ExcusedIfApart
<1>2. ASSUME NEW q \in Pane, NEW s \in Status, Shown(w, q, s) PROVE Excused'
  <2>1. /\ card'[w] = [card[w] EXCEPT ![q] = s] /\ parked' = parked
        /\ excused'[w] = IF s \in Active THEN excused[w] \cup {q} ELSE excused[w] \ {q}
    BY <1>2 DEF Shown, TypeOK
  <2>2. Apart(w)
    BY <1>2 DEF Shown, TypeOK, Apart
  <2>3. ASSUME NEW p \in Pane, Overstays(w, p)'
        PROVE  p \in excused'[w] \/ (Overstays(w, p) /\ (p \in excused[w] => p \in excused'[w]))
    <3>1. CASE p = q
      BY <1>0, <2>1, <2>3, <3>1 DEF Overstays
    <3>2. CASE p # q
      BY <1>0, <2>1, <2>3, <3>2 DEF Overstays
    <3>3. QED
      BY <3>1, <3>2
  <2>4. QED
    BY <2>2, <2>3, ExcusedIfApart
<1>3. ASSUME NEW S, Dropped(w, S) PROVE Excused'
  <2>1. /\ card'[w] = [p \in Pane |-> IF p \in S THEN Gone ELSE card[w][p]]
        /\ parked'[w] = parked[w] \/ parked'[w] = releasePanes(w, S)
        /\ excused' = excused
    BY <1>3 DEF Dropped, SetParked, TypeOK
  <2>2. Apart(w)
    BY <1>3 DEF Dropped, SetParked, TypeOK, Apart
  <2>3. ASSUME NEW p \in Pane, Overstays(w, p)' PROVE Overstays(w, p)
    <3>1. p \notin S /\ card[w][p] \in Active
      BY <1>0, <2>1, <2>3 DEF Overstays
    <3>2. parked'[w].columns = parked[w].columns /\ parked'[w].member[p] = parked[w].member[p]
      BY <1>0, <2>1, <3>1 DEF releasePanes, ParkedState
    <3>3. QED
      BY <2>3, <3>1, <3>2 DEF Overstays
  <2>4. QED
    BY <2>1, <2>2, <2>3, ExcusedIfApart
<1>4. QED
  BY <1>1, <1>2, <1>3

LEMMA LoadsExcuse ==
  ASSUME TypeOK, Excused, NEW w \in Window, NEW stored, LoadFrom(w, stored)
  PROVE  Excused'
<1>1. Apart(w) /\ card'[w] = [p \in Pane |-> Gone]
  BY DEF LoadFrom, TypeOK, Apart
<1>2. \A p \in Pane : ~Overstays(w, p)'
  BY <1>1, PaneAssumption, ColumnsAssumption DEF Overstays
<1>3. QED
  BY <1>1, <1>2, ExcusedIfApart

LEMMA NextExcuses ==
  TypeOK /\ Documents /\ TypeOK' /\ Excused /\ [Next]_vars => Excused'
<1> SUFFICES ASSUME TypeOK, Documents, TypeOK', Excused, [Next]_vars PROVE Excused'
  OBVIOUS
<1>1. CASE UNCHANGED <<card, parked, excused>>
  BY <1>1 DEF Excused, Overstays
<1>2. CASE ~UNCHANGED <<card, parked, excused>>
  <2>1. Next
    BY <1>2 DEF vars
  <2>2. ASSUME NEW w \in Window,
               \/ \E h \in Host : toggleHost(w, h)
               \/ \E key \in Key : toggleColumn(w, key)
               \/ clearFilters(w) \/ SaveParked(w) \/ SaveFilters(w) \/ Prune(w)
        PROVE  FALSE
    BY <1>2, <2>2 DEF toggleHost, toggleColumn, clearFilters, SaveParked, SaveFilters, Prune
  <2>3. QED
    BY <2>1, <2>2, ColumnStepsExcuse, EventsExcuse, LoadsExcuse DEF Next, Reload, clearLocalData
<1>3. QED
  BY <1>1, <1>2

\* A card that shows an active agent stays in an `agent-activity' column only
\* for one of the reasons the store has, whatever the order of its events
\* (ParkedStore.shouldExit, PanesStore's handler of pane.agent_status_changed).
THEOREM ActivityIsNotMissed == Spec => []StaysOnlyIfExcused
<1>1. Init => Excused
  BY PaneAssumption, ColumnsAssumption DEF Init, Excused, Overstays
<1>2. TypeOK /\ Documents /\ Excused => StaysOnlyIfExcused
  BY StaysIffOverstays DEF Excused
<1>3. QED
  BY <1>1, <1>2, InitHasDocuments, NextKeepsDocuments, NextExcuses, PTL DEF Spec

-----------------------------------------------------------------------------
(* The hidden columns, with one window.                                    *)

ChosenOf(cols, hide) == \A c \in cols : c.id \in hide => c.born \in chosen

\* What the page and the disk hold may be combined by a save or a reload: the
\* columns of either are hidden by the filters of either only by choice.  What
\* is not waiting to be saved is saved, and what is not waiting to be pruned
\* is of columns there are.
Choice(w) ==
  /\ "prune" \notin dirty[w] => filters[w].hidden \subseteq Status \cup Live(w)
  /\ "saveFilters" \notin dirty[w] => disk.filters = filters[w]
  /\ "saveParked" \notin dirty[w] => disk.parked = parked[w]
  /\ ChosenOf(parked[w].columns, filters[w].hidden)
  /\ ChosenOf(parked[w].columns, disk.filters.hidden)
  /\ ChosenOf(disk.parked.columns, filters[w].hidden)
  /\ ChosenOf(disk.parked.columns, disk.filters.hidden)

\* A document may be written whose columns were there before.
LEMMA ChoiceOfOldColumns ==
  ASSUME TypeOK, NEW w \in Window, Choice(w), NEW state, SetParked(w, state),
         UNCHANGED <<filters, disk, chosen>>,
         \A c \in state.columns : \E d \in parked[w].columns : d.id = c.id /\ d.born = c.born
  PROVE  Choice(w)'
<1>1. parked'[w] = state /\ dirty'[w] = dirty[w] \cup {"saveParked", "prune"}
  BY DEF SetParked, TypeOK
<1>2. ChosenOf(parked[w].columns, filters[w].hidden)' /\ ChosenOf(parked[w].columns, disk.filters.hidden)'
  BY <1>1 DEF Choice, ChosenOf
<1>3. ChosenOf(disk.parked.columns, filters[w].hidden)' /\ ChosenOf(disk.parked.columns, disk.filters.hidden)'
  BY DEF Choice, ChosenOf
<1>4. QED
  BY <1>1, <1>2, <1>3 DEF Choice

LEMMA ColumnStepsAreChosen ==
  ASSUME TypeOK, Documents, TypeOK', NEW w \in Window, Choice(w),
         \/ \E rule \in ExitRule : createColumn(w, rule)
         \/ renameColumn(w)
         \/ \E id \in Id, rule \in ExitRule : setExitRule(w, id, rule)
         \/ \E c \in parked[w].columns, delta \in -MaxColumns .. MaxColumns : moveColumn(w, c, delta)
         \/ \E id \in Id : removeColumn(w, id)
         \/ \E p \in Pane, id \in Id : park(w, p, id)
         \/ \E p \in Pane : unpark(w, p)
         \/ clear(w)
  PROVE  Choice(w)'
<1> DEFINE old == parked[w].columns
<1>0. /\ parked[w] \in ParkedState /\ filters[w] \in Filters
      /\ old \subseteq Column /\ old \subseteq StoredColumn /\ Distinct(old)
  BY ParkedIsDoc DEF TypeOK, Doc
<1>1. ASSUME NEW rule \in ExitRule, createColumn(w, rule) PROVE Choice(w)'
  <2> DEFINE new == [id |-> nextColumnId(old), rule |-> rule, order |-> nextOrder(old),
                     index |-> nextIndex(old), born |-> born + 1]
  <2>1. new.id \in Id \ Live(w)
    BY <1>0, <1>1, NewColumnIsFresh DEF createColumn, Live
  <2>2. new.id \notin filters[w].hidden
    <3>1. filters[w].hidden \subseteq Status \cup Live(w)
      BY <1>1 DEF createColumn, Ready, Choice
    <3>2. new.id \notin Status
      BY <2>1, PaneAssumption, ColumnsAssumption DEF Id
    <3>3. QED
      BY <2>1, <3>1, <3>2
  <2>3. /\ parked'[w].columns = old \cup {new} /\ dirty'[w] = {"saveParked", "prune"}
        /\ UNCHANGED <<filters, disk, chosen>> /\ disk.filters = filters[w]
    BY <1>0, <1>1 DEF createColumn, Ready, SetParked, TypeOK, ParkedState, Choice
  <2> HIDE DEF new
  <2>4. ChosenOf(parked[w].columns, filters[w].hidden)'
        /\ ChosenOf(parked[w].columns, disk.filters.hidden)'
    BY <2>2, <2>3 DEF Choice, ChosenOf
  <2>5. ChosenOf(disk.parked.columns, filters[w].hidden)'
        /\ ChosenOf(disk.parked.columns, disk.filters.hidden)'
    BY <2>3 DEF Choice, ChosenOf
  <2>6. QED
    BY <2>3, <2>4, <2>5 DEF Choice
<1>2. ASSUME NEW state, SetParked(w, state), UNCHANGED <<filters, disk, chosen>>,
             state.columns \subseteq old
      PROVE  Choice(w)'
  BY <1>2, ChoiceOfOldColumns
<1>3. ASSUME NEW id \in Id, NEW rule \in ExitRule, setExitRule(w, id, rule) PROVE Choice(w)'
  <2> DEFINE ruled(c) == IF c.id = id THEN [c EXCEPT !.rule = rule] ELSE c
             state == [parked[w] EXCEPT !.columns = {ruled(c) : c \in @}]
  <2>1. \A c \in old : ruled(c).id = c.id /\ ruled(c).born = c.born
    BY <1>0 DEF Column
  <2>2. state.columns = {ruled(c) : c \in old}
    BY <1>0 DEF ParkedState
  <2>3. SetParked(w, state) /\ UNCHANGED <<filters, disk, chosen>>
    BY <1>3 DEF setExitRule
  <2> HIDE DEF ruled, state
  <2>4. QED
    BY <2>1, <2>2, <2>3, ChoiceOfOldColumns
<1>4. ASSUME NEW c \in old, NEW delta \in -MaxColumns .. MaxColumns, moveColumn(w, c, delta)
      PROVE  Choice(w)'
  <2> DEFINE to == Clamped(Place(c, old) + delta, old)
             state == [parked[w] EXCEPT !.columns = Reordered(old, c, to)]
  <2>1. SetParked(w, state) /\ UNCHANGED <<filters, disk, chosen>>
    BY <1>4 DEF moveColumn
  <2>2. to \in 0 .. Cardinality(old) - 1
    <3>1. Place(c, old) \in Int /\ delta \in Int
      BY <1>0, ColumnsAreFinite, FS_CardinalityType, PlaceRanks, ColumnsAssumption
    <3>2. QED
      BY <1>0, <3>1, ClampedIsAPlace
  <2>3. \A e \in Reordered(old, c, to) : \E d \in old : e.id = d.id /\ e.born = d.born
    <3> HIDE DEF to, old
    <3>1. QED
      BY <1>0, <2>2, ReorderedIsDistinct
  <2>4. state.columns = Reordered(old, c, to)
    BY <1>0 DEF ParkedState
  <2> HIDE DEF state, to
  <2>5. QED
    BY <2>1, <2>3, <2>4, ChoiceOfOldColumns
<1>5. ASSUME NEW id, removeColumn(w, id) PROVE Choice(w)'
  BY <1>2, <1>5 DEF removeColumn
<1>6. ASSUME NEW p, NEW id, park(w, p, id) PROVE Choice(w)'
  BY <1>0, <1>2, <1>6 DEF park, ParkedState
<1>7. ASSUME NEW p, unpark(w, p) PROVE Choice(w)'
  BY <1>0, <1>2, <1>7 DEF unpark, releasePanes, ParkedState
<1>8. ASSUME renameColumn(w) PROVE Choice(w)'
  BY <1>2, <1>8 DEF renameColumn
<1>9. ASSUME clear(w) PROVE Choice(w)'
  BY <1>2, <1>9 DEF clear, NoDocument
<1>10. QED
  BY <1>1, <1>3, <1>4, <1>5, <1>6, <1>7, <1>8, <1>9

LEMMA StoreStepsAreChosen ==
  ASSUME TypeOK, Documents, NEW w \in Window, Choice(w),
         \/ \E h \in Host : toggleHost(w, h)
         \/ \E key \in Key : toggleColumn(w, key)
         \/ clearFilters(w)
         \/ \E p \in Pane, s \in Status : StatusChanged(w, p, s)
         \/ \E p \in Pane, s \in Status : Shown(w, p, s)
         \/ \E S \in SUBSET {p \in Pane : card[w][p] # Gone} \ {{}} : Dropped(w, S)
  PROVE  Choice(w)'
<1>0. parked[w] \in ParkedState /\ filters[w] \in Filters
  BY DEF TypeOK
<1>1. ASSUME NEW f \in Filters, Ready(w), SetFilters(w, f), UNCHANGED <<parked, disk>>, chosen \subseteq chosen',
             f.hidden \subseteq Status \cup Live(w),
             \A c \in parked[w].columns : c.id \in f.hidden \ filters[w].hidden => c.born \in chosen'
      PROVE  Choice(w)'
  <2>1. filters'[w] = f /\ dirty'[w] = {"saveFilters"} /\ disk.parked = parked[w]
    BY <1>1 DEF Ready, SetFilters, TypeOK, Choice
  <2>2. Live(w)' = Live(w)
    BY <1>1 DEF Live
  <2>3. ChosenOf(parked[w].columns, filters[w].hidden)'
        /\ ChosenOf(parked[w].columns, disk.filters.hidden)'
    BY <1>1, <2>1 DEF Choice, ChosenOf
  <2>4. QED
    BY <1>1, <2>1, <2>2, <2>3 DEF Choice, ChosenOf
<1>2. ASSUME NEW h \in Host, toggleHost(w, h) PROVE Choice(w)'
  <2> DEFINE f == [filters[w] EXCEPT !.hosts = Toggled(@, h)]
  <2>1. f \in Filters /\ f.hidden = filters[w].hidden
    BY <1>0 DEF Filters, Toggled
  <2>2. Ready(w) /\ SetFilters(w, f) /\ UNCHANGED <<parked, disk, chosen>>
    BY <1>2 DEF toggleHost
  <2>3. filters[w].hidden \subseteq Status \cup Live(w)
    BY <2>2 DEF Ready, Choice
  <2> HIDE DEF f
  <2>4. QED
    BY <1>1, <2>1, <2>2, <2>3
<1>3. ASSUME NEW key \in Key, toggleColumn(w, key) PROVE Choice(w)'
  <2> DEFINE f == [filters[w] EXCEPT !.hidden = Toggled(@, key)]
  <2>1. f \in Filters /\ f.hidden \subseteq filters[w].hidden \cup {key}
    BY <1>0 DEF Filters, Toggled
  <2>2. Ready(w) /\ SetFilters(w, f) /\ UNCHANGED <<parked, disk>> /\ key \in Status \cup Live(w)
    BY <1>3 DEF toggleColumn
  <2>3. filters[w].hidden \subseteq Status \cup Live(w)
    BY <2>2 DEF Ready, Choice
  <2>4. chosen' = chosen \cup {c.born : c \in {d \in parked[w].columns : d.id = key}}
    BY <1>3 DEF toggleColumn
  <2> HIDE DEF f
  <2>5. QED
    BY <1>1, <2>1, <2>2, <2>3, <2>4
<1>4. ASSUME clearFilters(w) PROVE Choice(w)'
  <2>1. NoFilters \in Filters /\ NoFilters.hidden = {}
    BY DEF NoFilters, Filters
  <2>2. QED
    BY <1>1, <1>4, <2>1 DEF clearFilters
<1>5. ASSUME NEW S, SetParked(w, releasePanes(w, S)), UNCHANGED <<filters, disk, chosen>>
      PROVE  Choice(w)'
  <2>1. releasePanes(w, S).columns = parked[w].columns
    BY <1>0 DEF releasePanes, ParkedState
  <2>2. QED
    BY <1>5, <2>1, ChoiceOfOldColumns
<1>6. ASSUME UNCHANGED <<parked, filters, dirty, disk, chosen>> PROVE Choice(w)'
  BY <1>6 DEF Choice, ChosenOf, Live
<1>7. QED
  BY <1>2, <1>3, <1>4, <1>5, <1>6 DEF StatusChanged, Shown, Dropped

LEMMA EffectsAreChosen ==
  ASSUME TypeOK, NEW w \in Window, Choice(w),
         SaveParked(w) \/ SaveFilters(w) \/ Prune(w) \/ Reload(w) \/ clearLocalData(w)
  PROVE  Choice(w)'
<1>0. /\ filters[w] \in Filters
      /\ disk = [parked |-> disk.parked, filters |-> disk.filters]
  BY DEF TypeOK
<1>1. CASE SaveParked(w)
  <2>1. /\ disk' = [parked |-> parked[w], filters |-> disk.filters]
        /\ dirty'[w] = dirty[w] \ {"saveParked"} /\ UNCHANGED <<parked, filters, chosen>>
    BY <1>0, <1>1 DEF SaveParked, TypeOK
  <2>2. Live(w)' = Live(w)
    BY <2>1 DEF Live
  <2>3. QED
    BY <2>1, <2>2 DEF Choice, ChosenOf
<1>2. CASE SaveFilters(w)
  <2>1. /\ disk' = [parked |-> disk.parked, filters |-> filters[w]]
        /\ dirty'[w] = dirty[w] \ {"saveFilters"} /\ UNCHANGED <<parked, filters, chosen>>
    BY <1>0, <1>2 DEF SaveFilters, TypeOK
  <2>2. Live(w)' = Live(w)
    BY <2>1 DEF Live
  <2>3. QED
    BY <2>1, <2>2 DEF Choice, ChosenOf
<1>3. CASE Prune(w)
  <2> DEFINE kept == Pruned(filters[w].hidden, Live(w))
  <2>1. UNCHANGED <<parked, disk, chosen>> /\ Live(w)' = Live(w)
    BY <1>3 DEF Prune, Live
  <2>2. filters'[w].hidden = kept /\ kept \subseteq filters[w].hidden /\ kept \subseteq Status \cup Live(w)
    BY <1>0, <1>3 DEF Prune, Pruned, TypeOK, Filters
  <2>3. /\ "saveFilters" \notin dirty'[w] => filters' = filters /\ "saveFilters" \notin dirty[w]
        /\ "saveParked" \notin dirty'[w] => "saveParked" \notin dirty[w]
    BY <1>3 DEF Prune, TypeOK
  <2> HIDE DEF kept
  <2>4. QED
    BY <2>1, <2>2, <2>3 DEF Choice, ChosenOf
<1>4. ASSUME NEW stored, LoadFrom(w, stored), disk' = stored,
             ChosenOf(stored.parked.columns, stored.filters.hidden)
      PROVE  Choice(w)'
  <2>1. /\ filters'[w] = stored.filters /\ dirty'[w] = Effect /\ chosen' = chosen
        /\ parked'[w] = loadParked(stored.parked)
    BY <1>4 DEF LoadFrom, TypeOK
  <2>2. parked'[w].columns \subseteq stored.parked.columns
    BY <2>1 DEF loadParked
  <2>3. QED
    BY <1>4, <2>1, <2>2 DEF Choice, ChosenOf, Effect
<1>5. CASE Reload(w)
  BY <1>4, <1>5 DEF Reload, Choice
<1>6. CASE clearLocalData(w)
  <2>1. ChosenOf(NoDocument.columns, NoFilters.hidden)
    BY DEF ChosenOf, NoDocument
  <2>2. QED
    BY <1>4, <1>6, <2>1 DEF clearLocalData
<1>7. QED
  BY <1>1, <1>2, <1>3, <1>5, <1>6

\* With one window, a parked column is hidden only if the operator has hidden
\* that very column, wherever the page dies between two saves: the pruning
\* effect takes the number of a removed column out of the filters before
\* another column can be given it (PanesStore's constructor, nextColumnId).
\* Two windows write over one another's documents, and it does not hold.
THEOREM HiddenColumnsWereChosen ==
  (\A v, w \in Window : v = w) => (Spec => []HiddenByChoice)
<1> SUFFICES ASSUME \A v, w \in Window : v = w PROVE Spec => []HiddenByChoice
  OBVIOUS
<1> DEFINE Chosen == \A w \in Window : Choice(w)
<1>1. Init => Chosen
  <2> SUFFICES ASSUME Init, NEW w \in Window PROVE Choice(w)
    OBVIOUS
  <2>1. PICK doc \in StoredAtFirst, stored \in Filters :
          /\ disk = [parked |-> doc, filters |-> stored]
          /\ parked[w] = loadParked(doc) /\ filters[w] = stored
    BY DEF Init
  <2>2. \A c \in doc.columns : c.born = 0
    BY StoredIsIndexed
  <2>3. parked[w].columns \subseteq doc.columns
    BY <2>1 DEF loadParked
  <2>4. QED
    BY <2>1, <2>2, <2>3 DEF Init, Choice, ChosenOf, Effect
<1>2. TypeOK /\ Documents /\ TypeOK' /\ Chosen /\ [Next]_vars => Chosen'
  <2> SUFFICES ASSUME TypeOK, Documents, TypeOK', Chosen, [Next]_vars, NEW w \in Window
               PROVE  Choice(w)'
    OBVIOUS
  <2>1. CASE UNCHANGED vars
    BY <2>1 DEF vars, Choice, ChosenOf, Live
  <2>2. CASE Next
    BY <2>2, ColumnStepsAreChosen, StoreStepsAreChosen, EffectsAreChosen DEF Next
  <2>3. QED
    BY <2>1, <2>2
<1>3. Chosen => HiddenByChoice
  BY DEF Choice, ChosenOf, HiddenByChoice
<1> HIDE DEF Chosen
<1>4. QED
  BY <1>1, <1>2, <1>3, InitHasDocuments, NextKeepsDocuments, PTL DEF Spec

-----------------------------------------------------------------------------
(* The keys of columns that are gone, with any number of windows.          *)

NotStranded(w) == "prune" \notin dirty[w] => filters[w].hidden \subseteq Status \cup Live(w)

LEMMA StepsStrandNoKey ==
  ASSUME TypeOK, NoStrandedKeys, Next PROVE NoStrandedKeys'
<1>1. PICK w \in Window :
        \/ \E rule \in ExitRule : createColumn(w, rule)
        \/ renameColumn(w)
        \/ \E id \in Id, rule \in ExitRule : setExitRule(w, id, rule)
        \/ \E c \in parked[w].columns, delta \in -MaxColumns .. MaxColumns : moveColumn(w, c, delta)
        \/ \E id \in Id : removeColumn(w, id)
        \/ \E p \in Pane, id \in Id : park(w, p, id)
        \/ \E p \in Pane : unpark(w, p)
        \/ clear(w)
        \/ \E h \in Host : toggleHost(w, h)
        \/ \E key \in Key : toggleColumn(w, key)
        \/ clearFilters(w)
        \/ \E p \in Pane, s \in Status : StatusChanged(w, p, s)
        \/ \E p \in Pane, s \in Status : Shown(w, p, s)
        \/ \E S \in SUBSET {p \in Pane : card[w][p] # Gone} \ {{}} : Dropped(w, S)
        \/ SaveParked(w) \/ SaveFilters(w) \/ Prune(w) \/ Reload(w) \/ clearLocalData(w)
  BY DEF Next
<1>2. \A v \in Window : NotStranded(v)
  BY DEF NoStrandedKeys, NotStranded
\* A window is left alone, or its columns change and the pruning is
\* scheduled, or its filters change and hide what there is.
<1> DEFINE Alone(v) == parked'[v] = parked[v] /\ filters'[v] = filters[v]
                       /\ ("prune" \in dirty[v] => "prune" \in dirty'[v])
           Scheduled(v) == "prune" \in dirty'[v]
           Hiding(v) == filters'[v].hidden \subseteq Status \cup Ids(parked'[v].columns)
<1>3. ASSUME NEW v \in Window, Alone(v) \/ Scheduled(v) \/ Hiding(v) PROVE NotStranded(v)'
  BY <1>2, <1>3 DEF NotStranded, Live
<1>4. ASSUME NEW state, SetParked(w, state), UNCHANGED filters
      PROVE  Scheduled(w) /\ \A v \in Window : v # w => Alone(v)
  BY <1>4 DEF SetParked, TypeOK
<1>5. ASSUME NEW f \in Filters, SetFilters(w, f), UNCHANGED parked, Ready(w),
             f.hidden \subseteq Status \cup Live(w)
      PROVE  Hiding(w) /\ \A v \in Window : v # w => Alone(v)
  BY <1>5 DEF SetFilters, TypeOK, Live
<1>6. ASSUME NEW stored, LoadFrom(w, stored)
      PROVE  Scheduled(w) /\ \A v \in Window : v # w => Alone(v)
  BY <1>6 DEF LoadFrom, TypeOK, Effect
<1>7. ASSUME Ready(w) PROVE filters[w].hidden \subseteq Status \cup Live(w)
  BY <1>2, <1>7 DEF Ready, NotStranded
<1>8. ASSUME UNCHANGED <<parked, filters, dirty>> PROVE \A v \in Window : Alone(v)
  BY <1>8
<1> SUFFICES \A v \in Window : Alone(v) \/ Scheduled(v) \/ Hiding(v)
  <2> HIDE DEF Alone, Scheduled, Hiding
  <2>1. QED
    BY <1>3 DEF NoStrandedKeys, NotStranded
<1>9. CASE \/ \E rule \in ExitRule : createColumn(w, rule)
           \/ renameColumn(w)
           \/ \E id \in Id, rule \in ExitRule : setExitRule(w, id, rule)
           \/ \E c \in parked[w].columns, delta \in -MaxColumns .. MaxColumns :
                moveColumn(w, c, delta)
           \/ \E id \in Id : removeColumn(w, id)
           \/ \E p \in Pane, id \in Id : park(w, p, id)
           \/ \E p \in Pane : unpark(w, p)
           \/ clear(w)
  <2>1. UNCHANGED filters /\ \E state : SetParked(w, state)
    BY <1>9 DEF createColumn, renameColumn, setExitRule, moveColumn, removeColumn, park,
                unpark, clear
  <2> HIDE DEF Alone, Scheduled
  <2>2. QED
    BY <1>4, <2>1
<1>10. CASE \/ \E p \in Pane, s \in Status : StatusChanged(w, p, s)
            \/ \E p \in Pane, s \in Status : Shown(w, p, s)
            \/ \E S \in SUBSET {p \in Pane : card[w][p] # Gone} \ {{}} : Dropped(w, S)
  <2>1. UNCHANGED filters /\ (UNCHANGED <<parked, dirty>> \/ \E state : SetParked(w, state))
    BY <1>10 DEF StatusChanged, Shown, Dropped
  <2> HIDE DEF Alone, Scheduled
  <2>2. QED
    BY <1>4, <1>8, <2>1
<1>11. CASE \/ \E h \in Host : toggleHost(w, h)
            \/ \E key \in Key : toggleColumn(w, key)
            \/ clearFilters(w)
  <2>1. Ready(w) /\ UNCHANGED parked
    BY <1>11 DEF toggleHost, toggleColumn, clearFilters
  <2>2. filters[w] \in Filters /\ filters[w].hidden \subseteq Status \cup Live(w)
    BY <1>7, <2>1 DEF TypeOK
  <2>3. \E f \in Filters : SetFilters(w, f) /\ f.hidden \subseteq Status \cup Live(w)
    <3>1. ASSUME NEW h \in Host, toggleHost(w, h)
          PROVE  \E f \in Filters : SetFilters(w, f) /\ f.hidden \subseteq Status \cup Live(w)
      <4> DEFINE f == [filters[w] EXCEPT !.hosts = Toggled(filters[w].hosts, h)]
      <4>1. f \in Filters /\ f.hidden = filters[w].hidden
        BY <2>2 DEF Filters, Toggled
      <4>2. SetFilters(w, f)
        BY <3>1 DEF toggleHost
      <4> HIDE DEF f
      <4>3. QED
        BY <2>2, <4>1, <4>2
    <3>2. ASSUME NEW key \in Key, toggleColumn(w, key)
          PROVE  \E f \in Filters : SetFilters(w, f) /\ f.hidden \subseteq Status \cup Live(w)
      <4> DEFINE f == [filters[w] EXCEPT !.hidden = Toggled(filters[w].hidden, key)]
      <4>1. f \in Filters /\ f.hidden \subseteq filters[w].hidden \cup {key}
        BY <2>2 DEF Filters, Toggled
      <4>2. SetFilters(w, f) /\ key \in Status \cup Live(w)
        BY <3>2 DEF toggleColumn
      <4> HIDE DEF f
      <4>3. QED
        BY <2>2, <4>1, <4>2
    <3>3. ASSUME clearFilters(w)
          PROVE  \E f \in Filters : SetFilters(w, f) /\ f.hidden \subseteq Status \cup Live(w)
      <4>1. NoFilters \in Filters /\ NoFilters.hidden = {}
        BY DEF NoFilters, Filters
      <4>2. QED
        BY <3>3, <4>1 DEF clearFilters
    <3>4. QED
      BY <1>11, <3>1, <3>2, <3>3
  <2> HIDE DEF Alone, Hiding
  <2>4. QED
    BY <1>5, <2>1, <2>3
<1>12. CASE SaveParked(w) \/ SaveFilters(w)
  <2>1. /\ UNCHANGED <<parked, filters>>
        /\ \A v \in Window : "prune" \in dirty[v] => "prune" \in dirty'[v]
    BY <1>12 DEF SaveParked, SaveFilters, TypeOK
  <2>2. QED
    BY <2>1
<1>13. CASE Prune(w)
  <2> DEFINE kept == Pruned(filters[w].hidden, Live(w))
  <2>1. kept \subseteq Status \cup Live(w) /\ UNCHANGED parked
    BY <1>13 DEF Prune, Pruned
  <2>2. /\ filters'[w].hidden = kept
        /\ \A v \in Window : v # w => filters'[v] = filters[v] /\ dirty'[v] = dirty[v]
    <3>1. filters[w] \in Filters
      BY DEF TypeOK
    <3>2. QED
      BY <1>13, <3>1 DEF Prune, TypeOK, Filters
  <2> HIDE DEF kept
  <2>3. QED
    BY <2>1, <2>2 DEF Live
<1>14. CASE Reload(w) \/ clearLocalData(w)
  <2>1. \E stored : LoadFrom(w, stored)
    BY <1>14 DEF Reload, clearLocalData
  <2> HIDE DEF Alone, Scheduled
  <2>2. QED
    BY <1>6, <2>1
<1> HIDE DEF Alone, Scheduled, Hiding
<1>15. QED
  BY <1>1, <1>9, <1>10, <1>11, <1>12, <1>13, <1>14

\* With any number of windows: once its effects have run, a page's filters hide
\* no key of a column that is gone (the pruning effect of PanesStore's
\* constructor); so none waits for a column that is yet to be created.
THEOREM NoKeyIsStranded == Spec => []NoStrandedKeys
<1>1. Init => NoStrandedKeys
  BY DEF Init, NoStrandedKeys, Effect
<1>2. TypeOK /\ NoStrandedKeys /\ [Next]_vars => NoStrandedKeys'
  <2>1. TypeOK /\ NoStrandedKeys /\ UNCHANGED vars => NoStrandedKeys'
    BY DEF vars, NoStrandedKeys, Live
  <2>2. QED
    BY <2>1, StepsStrandNoKey
<1>3. QED
  BY <1>1, <1>2, ColumnsHaveTheirTypes, PTL DEF Spec

-----------------------------------------------------------------------------
(* The row those columns are drawn in, and its pager: BoardStrip.             *)

\* What is counted from the first.
IsRow(row) ==
  Len(row) \in Nat /\ DOMAIN row = 1 .. Len(row) /\ (row # <<>> => 1 \in DOMAIN row)
PlacesIn(row) == IF row = <<>> THEN {1} ELSE DOMAIN row

\* The drawn row is a row: its columns are counted from the first.
LEMMA DrawnIsARow ==
  ASSUME StripAssumption, NEW cols \in Seq(ParkedId), NEW hide
  PROVE  IsRow(Drawn(cols, hide))
<1> DEFINE all == StatusOrder \o cols
           drawn == {i \in DOMAIN all : all[i] \notin hide}
           key(n) == all[CHOOSE i \in drawn : Cardinality(drawn \cap (1 .. i)) = n]
           row == Drawn(cols, hide)
<1>0. DOMAIN row = 1 .. Cardinality(drawn) /\ row = [n \in DOMAIN row |-> row[n]]
  <2>1. row = [n \in 1 .. Cardinality(drawn) |-> key(n)]
    BY Zenon DEF Drawn
  <2> HIDE DEF drawn, key, row
  <2>2. QED
    BY <2>1
<1>1. IsFiniteSet(drawn)
  <2>1. Len(StatusOrder) \in Nat /\ Len(cols) \in Nat
    BY DEF StripAssumption
  <2>2. DOMAIN all = 1 .. (Len(StatusOrder) + Len(cols))
    BY DEF StripAssumption
  <2>3. IsFiniteSet(DOMAIN all)
    BY <2>1, <2>2, FS_Interval
  <2>4. QED
    BY <2>3, FS_Subset
<1> HIDE DEF drawn
<1>2. Cardinality(drawn) \in Nat
  BY <1>1, FS_CardinalityType
<1> HIDE DEF row
<1>4. DOMAIN row = 1 .. Cardinality(drawn)
  BY <1>0
<1>5. Len(row) = Cardinality(drawn)
  BY <1>2, <1>4
<1>6. ASSUME Cardinality(drawn) = 0 PROVE row = <<>>
  <2>1. row = [n \in 1 .. 0 |-> row[n]]
    BY <1>0, <1>4, <1>6
  <2>2. row \in Seq({})
    BY <2>1
  <2>3. QED
    BY <1>4, <1>5, <1>6, <2>2
<1>7. QED
  BY <1>2, <1>4, <1>5, <1>6 DEF IsRow, row

LEMMA IndicesArePlaces ==
  ASSUME NEW row, IsRow(row), NEW key PROVE IndexOf(key, row) \in PlacesIn(row)
<1>1. CASE Contains(row, key)
  <2>1. PICK i \in 1 .. Len(row) : row[i] = key
    BY <1>1 DEF Contains
  <2>2. row # <<>>
    BY <2>1
  <2>3. IndexOf(key, row) = CHOOSE j \in DOMAIN row : row[j] = key
    BY <1>1 DEF IndexOf
  <2>4. QED
    BY <2>1, <2>2, <2>3 DEF IsRow, PlacesIn
<1>2. CASE ~Contains(row, key)
  BY <1>2 DEF IndexOf, IsRow, PlacesIn
<1>3. QED
  BY <1>1, <1>2

\* The pager rests on a column of the row: its own, the nearest status to the
\* left, else the first status, else the first column.
LEMMA RestsInTheRow ==
  ASSUME StripAssumption, NEW row, IsRow(row), row # <<>>, NEW key
  PROVE  Contains(row, Resting(key, row))
<1> DEFINE drawn(i) == Contains(row, StatusOrder[i])
           left == {i \in DOMAIN StatusOrder :
                      i < IndexOf(key, StatusOrder) /\ drawn(i)}
           visible == {i \in DOMAIN StatusOrder : drawn(i)}
           last == CHOOSE i \in left : \A j \in left : j <= i
           first == CHOOSE i \in visible : \A j \in visible : i <= j
           status == nearestVisibleStatus(key, row)
<1>1. /\ Len(StatusOrder) \in Nat /\ DOMAIN StatusOrder = 1 .. Len(StatusOrder)
  BY DEF StripAssumption
<1>2. status = IF left # {} THEN StatusOrder[last]
               ELSE IF visible # {} THEN StatusOrder[first] ELSE Nothing
  BY DEF nearestVisibleStatus
<1>3. left \subseteq visible /\ visible \subseteq 1 .. Len(StatusOrder)
  BY <1>1
<1>4. IsFiniteSet(left) /\ left \subseteq Nat /\ visible \subseteq Nat
  <2>1. IsFiniteSet(1 .. Len(StatusOrder))
    BY <1>1, FS_Interval
  <2> HIDE DEF left, visible
  <2>2. IsFiniteSet(visible)
    BY <1>3, <2>1, FS_Subset
  <2>3. IsFiniteSet(left)
    BY <1>3, <2>2, FS_Subset
  <2>4. visible \subseteq Nat
    BY <1>1, <1>3
  <2>5. QED
    BY <1>3, <2>3, <2>4
<1>5. \A i \in visible : Contains(row, StatusOrder[i])
  OBVIOUS
<1> HIDE DEF left, visible, status
<1>6. left # {} => last \in left
  <2> SUFFICES ASSUME left # {} PROVE last \in left
    OBVIOUS
  <2>1. \E i \in left : \A j \in left : i >= j
    BY <1>4, GreatestOfNat
  <2>2. \E i \in left : \A j \in left : j <= i
    BY <1>4, <2>1
  <2>3. QED
    BY <2>2
<1>7. visible # {} => first \in visible
  <2> SUFFICES ASSUME visible # {} PROVE first \in visible
    OBVIOUS
  <2>1. \E i \in visible : \A j \in visible : i <= j
    BY <1>4, LeastOfNat
  <2>2. QED
    BY <2>1
<1> HIDE DEF last, first
<1>8. status = Nothing \/ Contains(row, status)
  BY <1>2, <1>3, <1>5, <1>6, <1>7
<1>9. Contains(row, row[1])
  BY DEF IsRow, Contains
<1>10. \/ Contains(row, key) /\ Resting(key, row) = key
       \/ Resting(key, row) \in {status, row[1]}
          /\ (Resting(key, row) = status => status # Nothing \/ status = row[1])
  BY DEF Resting, status
<1>11. QED
  BY <1>8, <1>9, <1>10

\* A strip that follows the page stays at the row's columns.
LEMMA FollowingStaysInTheRow ==
  ASSUME NEW row, IsRow(row), NEW key, NEW at \in [Band -> PlacesIn(row)],
         NEW bound \in [Band -> PlacesIn(row)], Follow(key, row, at, bound)
  PROVE  page' = key /\ pos' \in [Band -> PlacesIn(row)] /\ target' \in [Band -> PlacesIn(row)]
<1>1. IndexOf(key, row) \in PlacesIn(row)
  BY IndicesArePlaces
<1>2. QED
  BY <1>1 DEF Follow

LEMMA SetRowKeepsTheStrip ==
  ASSUME StripAssumption, StripInv, NEW cols \in Seq(ParkedId), NEW hide,
         SetRow(cols, hide)
  PROVE  StripInv'
<1> DEFINE row == Drawn(cols, hide)
           gone == row = <<>> \/ Visible = <<>>
           at == IF gone THEN [b \in Band |-> 1] ELSE Within(pos, row)
           bound == IF gone THEN [b \in Band |-> 1] ELSE Within(target, row)
<1>1. /\ columns' = cols /\ hidden' = hide
      /\ Follow(Resting(page, row), row, at, bound)
  BY DEF SetRow
<1>2. IsRow(row) /\ IsRow(Visible)
  BY DrawnIsARow DEF StripInv, Visible
<1>3. Visible' = row
  BY <1>1 DEF Visible
<1> HIDE DEF row
<1>4. at \in [Band -> PlacesIn(row)] /\ bound \in [Band -> PlacesIn(row)]
  <2>1. CASE gone
    BY <1>2, <2>1 DEF IsRow, PlacesIn
  <2>2. CASE ~gone
    <3>1. pos \in [Band -> DOMAIN Visible] /\ target \in [Band -> DOMAIN Visible]
      BY <2>2 DEF StripInv, Places
    <3>2. \A x \in [Band -> DOMAIN Visible] :
            Within(x, row) \in [Band -> PlacesIn(row)]
      BY <1>2, <2>2 DEF Within, IsRow, PlacesIn
    <3>3. QED
      BY <2>2, <3>1, <3>2
  <2>3. QED
    BY <2>1, <2>2
<1> HIDE DEF at, bound
<1>5. /\ page' = Resting(page, row)
      /\ pos' \in [Band -> PlacesIn(row)] /\ target' \in [Band -> PlacesIn(row)]
  BY <1>1, <1>2, <1>4, FollowingStaysInTheRow
<1>6. row # <<>> => Contains(row, page')
  BY <1>2, <1>5, RestsInTheRow
<1>7. QED
  BY <1>1, <1>3, <1>5, <1>6 DEF StripInv, Places, PageIsDrawn, PlacesIn
\* A column that is put elsewhere leaves a sequence of columns behind.
LEMMA IndicesOfSequences ==
  ASSUME NEW S, NEW order \in Seq(S), Len(order) > 0, NEW key
  PROVE  IndexOf(key, order) \in 1 .. Len(order)
<1>1. IsRow(order) /\ order # <<>>
  BY DEF IsRow
<1>2. QED
  BY <1>1, IndicesArePlaces DEF IsRow, PlacesIn

\* Which elements a sequence has after one is taken out, or put in.
LEMMA ConcatenatedAre ==
  ASSUME NEW S, NEW s \in Seq(S), NEW t \in Seq(S)
  PROVE  /\ s \o t \in Seq(S) /\ Len(s \o t) = Len(s) + Len(t)
         /\ \A r \in 1 .. Len(s) + Len(t) :
              (s \o t)[r] = IF r <= Len(s) THEN s[r] ELSE t[r - Len(s)]
  OBVIOUS

LEMMA RemainingAre ==
  ASSUME NEW S, NEW s \in Seq(S), NEW i \in 1 .. Len(s)
  PROVE  /\ RemoveAt(s, i) \in Seq(S) /\ Len(RemoveAt(s, i)) = Len(s) - 1
         /\ \A r \in 1 .. Len(s) - 1 : RemoveAt(s, i)[r] = IF r < i THEN s[r] ELSE s[r + 1]
<1> DEFINE n == Len(s)
           before == SubSeq(s, 1, i - 1)
           after == SubSeq(s, i + 1, n)
           all == before \o after
<1>0. n \in Nat
  OBVIOUS
<1>1. /\ before \in Seq(S) /\ Len(before) = i - 1
      /\ \A r \in 1 .. i - 1 : before[r] = s[r]
  OBVIOUS
<1>2. /\ after \in Seq(S) /\ Len(after) = n - i
      /\ \A r \in 1 .. n - i : after[r] = s[i + r]
  OBVIOUS
<1>3. RemoveAt(s, i) = all
  BY DEF RemoveAt
<1> HIDE DEF before, after, n
<1>4. /\ all \in Seq(S) /\ Len(all) = (i - 1) + (n - i)
      /\ \A r \in 1 .. (i - 1) + (n - i) :
           all[r] = IF r <= i - 1 THEN before[r] ELSE after[r - (i - 1)]
  <2>1. before \in Seq(S) /\ after \in Seq(S)
    BY <1>1, <1>2
  <2>2. /\ all \in Seq(S) /\ Len(all) = Len(before) + Len(after)
        /\ \A r \in 1 .. Len(before) + Len(after) :
             all[r] = IF r <= Len(before) THEN before[r] ELSE after[r - Len(before)]
    BY <2>1, ConcatenatedAre
  <2> HIDE DEF all
  <2>3. Len(before) = i - 1 /\ Len(after) = n - i
    BY <1>1, <1>2
  <2>4. QED
    BY <2>2, <2>3
<1> HIDE DEF all
<1>5. i \in 1 .. n /\ (i - 1) + (n - i) = n - 1
  BY <1>0 DEF n
<1>6. ASSUME NEW r \in 1 .. n - 1 PROVE all[r] = IF r < i THEN s[r] ELSE s[r + 1]
  <2>1. CASE r < i
    BY <1>0, <1>1, <1>4, <1>5, <2>1
  <2>2. CASE ~(r < i)
    <3>1. r - (i - 1) \in 1 .. n - i /\ i + (r - (i - 1)) = r + 1 /\ ~(r <= i - 1)
      BY <1>0, <1>5, <2>2
    <3>2. all[r] = after[r - (i - 1)]
      BY <1>4, <1>5, <3>1
    <3>3. after[r - (i - 1)] = s[i + (r - (i - 1))]
      BY <1>2, <3>1
    <3>4. QED
      BY <2>2, <3>1, <3>2, <3>3
  <2>3. QED
    BY <2>1, <2>2
<1>7. QED
  BY <1>3, <1>4, <1>5, <1>6 DEF n

LEMMA InsertedAre ==
  ASSUME NEW S, NEW s \in Seq(S), NEW j \in 1 .. Len(s) + 1, NEW key \in S
  PROVE  /\ InsertAt(s, j, key) \in Seq(S) /\ Len(InsertAt(s, j, key)) = Len(s) + 1
         /\ \A r \in 1 .. Len(s) + 1 :
              InsertAt(s, j, key)[r] = IF r < j THEN s[r] ELSE IF r = j THEN key ELSE s[r - 1]
<1> DEFINE n == Len(s)
           before == SubSeq(s, 1, j - 1)
           with == before \o <<key>>
           after == SubSeq(s, j, n)
           all == with \o after
<1>0. n \in Nat
  OBVIOUS
<1>1. /\ before \in Seq(S) /\ Len(before) = j - 1
      /\ \A r \in 1 .. j - 1 : before[r] = s[r]
  OBVIOUS
<1>2. /\ after \in Seq(S) /\ Len(after) = n - j + 1
      /\ \A r \in 1 .. n - j + 1 : after[r] = s[j - 1 + r]
  OBVIOUS
<1>3. InsertAt(s, j, key) = all
  BY DEF InsertAt
<1> HIDE DEF before, after, n
<1>4. <<key>> \in Seq(S) /\ Len(<<key>>) = 1 /\ <<key>>[1] = key
  OBVIOUS
<1>5. j \in 1 .. n + 1 /\ (j - 1) + 1 = j /\ j + (n - j + 1) = n + 1
  BY <1>0 DEF n
<1>6. /\ with \in Seq(S) /\ Len(with) = j
      /\ \A r \in 1 .. j : with[r] = IF r <= j - 1 THEN before[r] ELSE <<key>>[r - (j - 1)]
  BY <1>1, <1>4, <1>5, ConcatenatedAre
<1> HIDE DEF with
<1>7. /\ all \in Seq(S) /\ Len(all) = n + 1
      /\ \A r \in 1 .. n + 1 : all[r] = IF r <= j THEN with[r] ELSE after[r - j]
  <2>1. with \in Seq(S) /\ after \in Seq(S)
    BY <1>2, <1>6
  <2>2. /\ all \in Seq(S) /\ Len(all) = Len(with) + Len(after)
        /\ \A r \in 1 .. Len(with) + Len(after) :
             all[r] = IF r <= Len(with) THEN with[r] ELSE after[r - Len(with)]
    BY <2>1, ConcatenatedAre
  <2> HIDE DEF all
  <2>3. Len(with) = j /\ Len(with) + Len(after) = n + 1
    BY <1>2, <1>5, <1>6
  <2>4. QED
    BY <2>2, <2>3
<1> HIDE DEF all
<1>8. ASSUME NEW r \in 1 .. n + 1
      PROVE  all[r] = IF r < j THEN s[r] ELSE IF r = j THEN key ELSE s[r - 1]
  <2>1. CASE r < j
    <3>1. r <= j /\ r <= j - 1 /\ r \in 1 .. j /\ r \in 1 .. j - 1
      BY <1>0, <1>5, <2>1
    <3>2. QED
      BY <1>1, <1>6, <1>7, <2>1, <3>1
  <2>2. CASE r = j
    <3>1. r <= j /\ ~(r <= j - 1) /\ r - (j - 1) = 1 /\ r \in 1 .. j
      BY <1>0, <1>5, <2>2
    <3>2. with[r] = <<key>>[1]
      BY <1>6, <3>1
    <3>3. QED
      BY <1>4, <1>7, <2>2, <3>1, <3>2
  <2>3. CASE r > j
    <3>1. ~(r <= j) /\ r - j \in 1 .. n - j + 1 /\ j - 1 + (r - j) = r - 1
      BY <1>0, <1>5, <2>3
    <3>2. all[r] = after[r - j]
      BY <1>7, <3>1
    <3>3. after[r - j] = s[j - 1 + (r - j)]
      BY <1>2, <3>1
    <3>4. QED
      BY <2>3, <3>1, <3>2, <3>3
  <2>4. QED
    BY <1>0, <1>5, <2>1, <2>2, <2>3
<1>9. QED
  BY <1>3, <1>7, <1>8 DEF n

LEMMA MovingKeepsTheColumns ==
  ASSUME NEW S, NEW order \in Seq(S), Len(order) > 0, NEW key \in S, NEW neighbour
  PROVE  Moved(order, key, reorderDelta(order, key, neighbour)) \in Seq(S)
<1> DEFINE from == IndexOf(key, order)
           delta == reorderDelta(order, key, neighbour)
<1>1. from \in 1 .. Len(order) /\ IndexOf(neighbour, order) \in 1 .. Len(order)
  BY IndicesOfSequences
<1>2. Len(order) \in Nat /\ from + delta \in 1 .. Len(order)
  BY <1>1 DEF reorderDelta
<1>3. Moved(order, key, delta) = InsertAt(RemoveAt(order, from), from + delta, key)
  BY DEF Moved
<1> HIDE DEF from, delta
<1>4. RemoveAt(order, from) \in Seq(S) /\ Len(RemoveAt(order, from)) = Len(order) - 1
  BY <1>1, RemainingAre
<1>5. from + delta \in 1 .. Len(RemoveAt(order, from)) + 1
  BY <1>2, <1>4
<1>6. InsertAt(RemoveAt(order, from), from + delta, key) \in Seq(S)
  BY <1>4, <1>5, InsertedAre
<1>7. QED
  BY <1>3, <1>6 DEF delta

\* A column of the row is one the row contains.
LEMMA RowsContainTheirColumns ==
  ASSUME NEW row, IsRow(row), NEW i \in DOMAIN row PROVE Contains(row, row[i])
  BY DEF IsRow, Contains

\* What turns the page and leaves the row: the switcher, a finger, a scroll.
LEMMA TurningKeepsTheStrip ==
  ASSUME StripAssumption, StripInv, NEW i \in DOMAIN Visible,
         NEW at \in [Band -> Places], NEW bound \in [Band -> Places],
         Follow(Visible[i], Visible, at, bound), UNCHANGED <<columns, hidden>>
  PROVE  StripInv'
<1>1. IsRow(Visible)
  BY DrawnIsARow DEF StripInv, Visible
<1>2. Visible' = Visible
  BY DEF Visible
<1>3. Places = PlacesIn(Visible) /\ Places' = PlacesIn(Visible)
  BY <1>2 DEF Places, PlacesIn
<1>4. at \in [Band -> PlacesIn(Visible)] /\ bound \in [Band -> PlacesIn(Visible)]
  BY <1>3
<1>5. /\ page' = Visible[i]
      /\ pos' \in [Band -> PlacesIn(Visible)] /\ target' \in [Band -> PlacesIn(Visible)]
  BY <1>1, <1>4, FollowingStaysInTheRow
<1>6. Contains(Visible, page')
  BY <1>1, <1>5, RowsContainTheirColumns
<1>7. Contains(Visible', page')
  BY <1>2, <1>6
<1>8. QED
  BY <1>3, <1>5, <1>7 DEF StripInv, PageIsDrawn
LEMMA StripsStartInTheRow ==
  ASSUME StripAssumption, StripInit PROVE StripInv
<1>1. columns \in Seq(ParkedId)
  <2>1. PICK n \in 0 .. MaxParked : columns \in [1 .. n -> ParkedId]
    BY DEF StripInit
  <2>2. n \in Nat
    BY DEF StripAssumption
  <2>3. QED
    BY <2>1, <2>2
<1>2. IsRow(Visible)
  BY <1>1, DrawnIsARow DEF Visible
<1>3. 1 \in Places
  BY <1>2 DEF Places, IsRow
<1>4. pos \in [Band -> Places] /\ target \in [Band -> Places]
  BY <1>3 DEF StripInit
<1>5. PageIsDrawn
  BY <1>2, RestsInTheRow DEF StripInit, PageIsDrawn
<1>6. QED
  BY <1>1, <1>4, <1>5 DEF StripInv

LEMMA StepsKeepTheStrip ==
  ASSUME StripAssumption, StripInv, [StripNext]_stripVars
  PROVE  StripInv'
<1>1. columns \in Seq(ParkedId) /\ IsRow(Visible)
  BY DrawnIsARow DEF StripInv, Visible
<1>2. pos \in [Band -> Places] /\ target \in [Band -> Places]
  BY DEF StripInv
<1>3. \A id : id \in Range(columns) => id \in ParkedId /\ Len(columns) > 0
  BY <1>1 DEF Range
<1>4. ASSUME NEW key \in ColumnKey, Toggle(key) PROVE StripInv'
  BY <1>1, <1>4, SetRowKeepsTheStrip DEF Toggle
<1>5. ASSUME NEW id \in ParkedId, CreateColumn(id) PROVE StripInv'
  <2>1. Append(columns, id) \in Seq(ParkedId)
    BY <1>1
  <2>2. SetRow(Append(columns, id), hidden \ {id})
    BY <1>5 DEF CreateColumn
  <2>3. QED
    BY <2>1, <2>2, SetRowKeepsTheStrip
<1>6. ASSUME NEW id \in ParkedId, RemoveColumn(id) PROVE StripInv'
  <2>1. SetRow(RemoveAt(columns, IndexOf(id, columns)), hidden)
    BY <1>6 DEF RemoveColumn
  <2>2. IndexOf(id, columns) \in 1 .. Len(columns)
    BY <1>1, <1>3, <1>6, IndicesOfSequences DEF RemoveColumn
  <2>3. RemoveAt(columns, IndexOf(id, columns)) \in Seq(ParkedId)
    BY <1>1, <2>2, RemainingAre
  <2>4. QED
    BY <2>1, <2>3, SetRowKeepsTheStrip
<1>7. ASSUME NEW id \in ParkedId, NEW step \in {-1, 1}, MoveColumn(id, step)
      PROVE  StripInv'
  <2> DEFINE order == Moved(columns, id,
                        reorderDelta(columns, id, visibleNeighbour(id, step)))
  <2>1. Len(columns) > 0
    BY <1>3, <1>7 DEF MoveColumn
  <2>2. order \in Seq(ParkedId)
    BY <1>1, <2>1, MovingKeepsTheColumns
  <2>3. SetRow(order, hidden)
    BY <1>7 DEF MoveColumn
  <2> HIDE DEF order
  <2>4. QED
    BY <2>2, <2>3, SetRowKeepsTheStrip
<1>8. ASSUME NEW i, NEW j, ColumnDropped(i, j) PROVE StripInv'
  <2> DEFINE key == Visible[i]
             order == Moved(columns, key,
                        reorderDelta(columns, key, Visible[j]))
  <2>1. Len(columns) > 0 /\ key \in ParkedId
    BY <1>1, <1>8 DEF ColumnDropped
  <2>2. order \in Seq(ParkedId)
    BY <1>1, <2>1, MovingKeepsTheColumns
  <2>3. SetRow(order, hidden)
    BY <1>8 DEF ColumnDropped
  <2> HIDE DEF order
  <2>4. QED
    BY <2>2, <2>3, SetRowKeepsTheStrip
<1>9. ASSUME NEW i, selectStatus(i) PROVE StripInv'
  <2> DEFINE bound == IF Grouped THEN target ELSE [b \in Band |-> i]
  <2>1. /\ i \in DOMAIN Visible /\ UNCHANGED <<columns, hidden>>
        /\ Follow(Visible[i], Visible, pos, bound)
    BY <1>9 DEF selectStatus
  <2>2. i \in Places
    BY <1>1, <2>1 DEF Places, IsRow
  <2>3. bound \in [Band -> Places]
    BY <1>2, <2>2
  <2> HIDE DEF bound
  <2>4. QED
    BY <1>2, <2>1, <2>3, TurningKeepsTheStrip
<1>10. ASSUME NEW b \in Band, NEW i, Swipe(b, i) PROVE StripInv'
  <2> DEFINE at == [pos EXCEPT ![b] = i]
             bound == [target EXCEPT ![b] = i]
  <2>1. /\ i \in DOMAIN Visible /\ UNCHANGED <<columns, hidden>>
        /\ Follow(Visible[at[b]], Visible, at, bound)
    BY <1>10 DEF Swipe, onStripScroll
  <2>2. i \in Places
    BY <1>1, <2>1 DEF Places, IsRow
  <2>3. at \in [Band -> Places] /\ bound \in [Band -> Places] /\ at[b] = i
    BY <1>2, <2>2
  <2> HIDE DEF at, bound
  <2>4. QED
    BY <2>1, <2>3, TurningKeepsTheStrip
<1>11. ASSUME NEW b \in Band, ScrollBegins(b) PROVE StripInv'
  <2>1. /\ Visible # <<>> /\ UNCHANGED <<columns, hidden>>
        /\ Follow(Visible[pos[b]], Visible, pos, target)
    BY <1>11 DEF ScrollBegins, onStripScroll
  <2>2. pos[b] \in DOMAIN Visible
    BY <1>2, <2>1 DEF Places
  <2>3. QED
    BY <1>2, <2>1, <2>2, TurningKeepsTheStrip
<1>12. ASSUME NEW b \in Band, Scrolls(b) PROVE StripInv'
  <2> DEFINE i == IF pos[b] < target[b] THEN pos[b] + 1 ELSE pos[b] - 1
             at == [pos EXCEPT ![b] = i]
  <2>1. /\ Visible # <<>> /\ UNCHANGED <<columns, hidden>> /\ pos[b] # target[b]
        /\ Follow(Visible[at[b]], Visible, at, target)
    BY <1>12 DEF Scrolls, onStripScroll
  <2>2. /\ pos[b] \in DOMAIN Visible /\ target[b] \in DOMAIN Visible
        /\ Places = DOMAIN Visible
    BY <1>2, <2>1 DEF Places
  <2>3. i \in DOMAIN Visible
    BY <1>1, <2>1, <2>2 DEF IsRow
  <2> HIDE DEF i
  <2>4. at \in [Band -> Places] /\ at[b] = i
    BY <1>2, <2>2, <2>3
  <2> HIDE DEF at
  <2>5. QED
    BY <1>2, <2>1, <2>3, <2>4, TurningKeepsTheStrip
<1>13. CASE UNCHANGED stripVars
  BY <1>13 DEF stripVars, StripInv, Places, PageIsDrawn, Visible
<1>14. QED
  BY <1>4, <1>5, <1>6, <1>7, <1>8, <1>9, <1>10, <1>11, <1>12, <1>13 DEF StripNext

\* Whatever is hidden, added, removed or moved, and wherever the strips scroll
\* meanwhile, the pager rests on a column that is drawn, if any is
\* (currentKey, nearestVisibleStatus and onStripScroll of board.ts).
THEOREM PagerRestsOnAColumn == StripSpec => []PageIsDrawn
<1>1. StripInit => StripInv
  BY StripAssumption, StripsStartInTheRow
<1>2. StripInv /\ [StripNext]_stripVars => StripInv'
  BY StripAssumption, StepsKeepTheStrip
<1>3. StripInv => PageIsDrawn
  BY DEF StripInv
<1>4. QED
  BY <1>1, <1>2, <1>3, PTL DEF StripSpec

LEMMA RowStepsKeepThePage ==
  ASSUME NEW cols, NEW hide, SetRow(cols, hide), Contains(Visible', page)
  PROVE  page' = page
<1>1. Visible' = Drawn(cols, hide)
  BY DEF SetRow, Visible
<1>2. page' = Resting(page, Drawn(cols, hide))
  BY DEF SetRow, Follow
<1>3. QED
  BY <1>1, <1>2 DEF Resting

\* A change of the row that leaves the page's column in it leaves the page:
\* whoever looks at a column keeps looking at it while others come, go and move
\* (the effect on visibleColumns, board.ts).
THEOREM RowChangesLeaveThePage == StripSpec => RowChangesKeepThePage
<1>1. ASSUME [StripNext]_stripVars
      PROVE  [<<columns, hidden>>' # <<columns, hidden>> /\ Contains(Visible', page)
                => page' = page]_stripVars
  <2> SUFFICES ASSUME StripNext, <<columns, hidden>>' # <<columns, hidden>>,
                      Contains(Visible', page)
               PROVE  page' = page
    BY <1>1
  <2>1. \A cols, hide : SetRow(cols, hide) => page' = page
    BY RowStepsKeepThePage
  <2>2. ASSUME NEW key, Toggle(key) PROVE page' = page
    BY <2>1, <2>2 DEF Toggle
  <2>3. ASSUME NEW id, CreateColumn(id) \/ RemoveColumn(id) PROVE page' = page
    BY <2>1, <2>3 DEF CreateColumn, RemoveColumn
  <2>4. ASSUME NEW id, NEW step, MoveColumn(id, step) PROVE page' = page
    BY <2>1, <2>4 DEF MoveColumn
  <2>5. ASSUME NEW i, NEW j, ColumnDropped(i, j) PROVE page' = page
    BY <2>1, <2>5 DEF ColumnDropped
  <2>6. ASSUME NEW i, selectStatus(i) PROVE FALSE
    BY <2>6 DEF selectStatus
  <2>7. ASSUME NEW b, NEW i, Swipe(b, i) PROVE FALSE
    BY <2>7 DEF Swipe
  <2>8. ASSUME NEW b, ScrollBegins(b) \/ Scrolls(b) PROVE FALSE
    BY <2>8 DEF ScrollBegins, Scrolls
  <2>9. QED
    BY <2>2, <2>3, <2>4, <2>5, <2>6, <2>7, <2>8 DEF StripNext
<1>2. QED
  BY <1>1, PTL DEF StripSpec, RowChangesKeepThePage

-----------------------------------------------------------------------------
(* Where a column that is dropped comes to lie.                            *)

\* Where an element of a row comes from when the i-th is moved to be the j-th.
Source(i, j, r) ==
  IF r = j THEN i
  ELSE IF i <= r /\ r < j THEN r + 1
  ELSE IF j < r /\ r <= i THEN r - 1
  ELSE r

\* e lists the numbers in S, the least first.
Lists(e, n, S) ==
  /\ e \in [1 .. n -> S]
  /\ \A r, q \in 1 .. n : r < q => e[r] < e[q]
  /\ \A k \in S : \E r \in 1 .. n : e[r] = k

LEMMA SourcesArePlaces ==
  ASSUME NEW n \in Nat, NEW i \in 1 .. n, NEW j \in 1 .. n
  PROVE  /\ \A r \in 1 .. n : Source(i, j, r) \in 1 .. n /\ Source(j, i, r) \in 1 .. n
         /\ \A r \in 1 .. n : /\ Source(j, i, Source(i, j, r)) = r
                              /\ Source(i, j, Source(j, i, r)) = r
  BY DEF Source

\* Moving a column keeps the order of all the others.
LEMMA SourcesKeepOrder ==
  ASSUME NEW n \in Nat, NEW i \in 1 .. n, NEW j \in 1 .. n,
         NEW r \in 1 .. n, NEW q \in 1 .. n, r < q
  PROVE  /\ r # j /\ q # j => Source(i, j, r) < Source(i, j, q)
         /\ r # i /\ q # i => Source(j, i, r) < Source(j, i, q)
         /\ r = j /\ i # j => Source(i, j, q) > j \/ (Source(i, j, q) = j /\ j < i)
         /\ q = j /\ i # j => Source(i, j, r) < j \/ (Source(i, j, r) = j /\ i < j)
  BY DEF Source

\* The numbers up to the r-th are r.
LEMMA ListsCount ==
  ASSUME NEW n \in Nat, NEW S \in SUBSET Nat, 0 \notin S, NEW e, Lists(e, n, S)
  PROVE  /\ Cardinality(S) = n
         /\ \A r \in 1 .. n : Cardinality(S \cap (1 .. e[r])) = r
<1>1. /\ e \in [1 .. n -> S]
      /\ \A r, q \in 1 .. n : r < q => e[r] < e[q]
      /\ \A k \in S : \E r \in 1 .. n : e[r] = k
  BY DEF Lists
<1>2. \A r, q \in 1 .. n : e[r] = e[q] => r = q
  <2> SUFFICES ASSUME NEW r \in 1 .. n, NEW q \in 1 .. n, r # q PROVE e[r] # e[q]
    OBVIOUS
  <2>1. e[r] \in Nat /\ e[q] \in Nat
    BY <1>1
  <2>2. r < q \/ q < r
    OBVIOUS
  <2>3. QED
    BY <1>1, <2>1, <2>2
<1>3. Cardinality(S) = n
  <2>1. e \in Bijection(1 .. n, S)
    BY <1>1, <1>2 DEF Bijection, Injection, Surjection, IsInjective
  <2>2. QED
    BY <2>1, FS_CountingElements DEF ExistsBijection
<1>4. ASSUME NEW r \in 1 .. n PROVE Cardinality(S \cap (1 .. e[r])) = r
  <2> DEFINE T == S \cap (1 .. e[r])
             f == [q \in 1 .. r |-> e[q]]
  <2>1. \A q \in 1 .. r : q \in 1 .. n /\ e[q] \in T
    <3> SUFFICES ASSUME NEW q \in 1 .. r PROVE q \in 1 .. n /\ e[q] \in T
      OBVIOUS
    <3>1. q \in 1 .. n /\ (q < r \/ q = r)
      OBVIOUS
    <3>2. e[q] \in S /\ e[r] \in S
      BY <1>1, <3>1
    <3>3. e[q] \in Nat /\ e[r] \in Nat /\ e[q] # 0
      BY <3>2
    <3>4. e[q] < e[r] \/ e[q] = e[r]
      BY <1>1, <3>1
    <3>5. e[q] \in 1 .. e[r]
      BY <3>3, <3>4
    <3>6. QED
      BY <3>1, <3>2, <3>5
  <2>2. \A k \in T : \E q \in 1 .. r : f[q] = k
    <3> SUFFICES ASSUME NEW k \in T PROVE \E q \in 1 .. r : f[q] = k
      OBVIOUS
    <3>1. PICK q \in 1 .. n : e[q] = k
      BY <1>1
    <3>2. k \in 1 .. e[r] /\ e[r] \in S
      BY <1>1
    <3>3. k <= e[r]
      <4>1. e[r] \in Nat
        BY <3>2
      <4>2. QED
        BY <3>2, <4>1
    <3>4. ~(e[r] < e[q])
      <4>1. e[r] \in Nat /\ e[q] \in Nat
        BY <1>1
      <4>2. QED
        BY <3>1, <3>3, <4>1
    <3>5. ~(r < q)
      BY <1>1, <3>1, <3>4
    <3>6. q \in 1 .. r
      BY <3>5
    <3>7. QED
      BY <3>1, <3>6
  <2> HIDE DEF T
  <2>3. f \in [1 .. r -> T]
    BY <2>1
  <2>4. f \in Bijection(1 .. r, T)
    BY <1>2, <2>1, <2>2, <2>3 DEF Bijection, Injection, Surjection, IsInjective
  <2>5. ExistsBijection(1 .. r, T) /\ r \in Nat
    BY <2>4 DEF ExistsBijection
  <2>6. Cardinality(T) = r
    BY <2>5, FS_CountingElements
  <2>7. QED
    BY <2>6 DEF T
<1>5. QED
  BY <1>3, <1>4

Nth(S, r) == CHOOSE k \in S : Cardinality(S \cap (1 .. k)) = r

\* Who is at a place is found by counting.
LEMMA ListsAreFound ==
  ASSUME NEW n \in Nat, NEW S \in SUBSET Nat, 0 \notin S, NEW e, Lists(e, n, S),
         NEW r \in 1 .. n
  PROVE  Nth(S, r) = e[r]
<1> DEFINE found == Nth(S, r)
<1>1. /\ \A q \in 1 .. n : Cardinality(S \cap (1 .. e[q])) = q /\ e[q] \in S
      /\ \A k \in S : \E q \in 1 .. n : e[q] = k
  BY ListsCount DEF Lists
<1>2. found \in S /\ Cardinality(S \cap (1 .. found)) = r
  BY <1>1 DEF Nth
<1> HIDE DEF found
<1>3. PICK q \in 1 .. n : e[q] = found
  BY <1>1, <1>2
<1>4. q = r
  BY <1>1, <1>2, <1>3
<1>5. QED
  BY <1>3, <1>4 DEF found

\* Any places of a row can be listed.
LEMMA PlacesAreListed ==
  ASSUME NEW n \in Nat, NEW S \in SUBSET (1 .. n)
  PROVE  /\ Cardinality(S) \in Nat
         /\ \E e : Lists(e, Cardinality(S), S)
<1> DEFINE upTo(k) == S \cap (1 .. k)
           rank == [k \in S |-> Cardinality(upTo(k))]
           N == Cardinality(S)
<1>1. IsFiniteSet(S)
  <2>1. IsFiniteSet(1 .. n)
    BY FS_Interval
  <2>2. QED
    BY <2>1, FS_Subset
<1>2. N \in Nat
  BY <1>1, FS_CardinalityType
<1>3. \A k : IsFiniteSet(upTo(k)) /\ Cardinality(upTo(k)) \in Nat /\ Cardinality(upTo(k)) <= N
  <2> SUFFICES ASSUME NEW k
               PROVE  IsFiniteSet(upTo(k)) /\ Cardinality(upTo(k)) \in Nat
                      /\ Cardinality(upTo(k)) <= N
    OBVIOUS
  <2>1. upTo(k) \subseteq S
    OBVIOUS
  <2> HIDE DEF upTo
  <2>2. IsFiniteSet(upTo(k)) /\ Cardinality(upTo(k)) <= N
    BY <1>1, <2>1, FS_Subset
  <2>3. QED
    BY <2>2, FS_CardinalityType
<1>4. \A k, l \in S : k < l => Cardinality(upTo(k)) < Cardinality(upTo(l))
  <2> SUFFICES ASSUME NEW k \in S, NEW l \in S, k < l
               PROVE  Cardinality(upTo(k)) < Cardinality(upTo(l))
    OBVIOUS
  <2>1. upTo(k) \subseteq upTo(l) /\ l \in upTo(l) /\ l \notin upTo(k)
    OBVIOUS
  <2> HIDE DEF upTo
  <2>2. /\ Cardinality(upTo(k)) <= Cardinality(upTo(l))
        /\ Cardinality(upTo(k)) # Cardinality(upTo(l))
    BY <1>3, <2>1, FS_Subset
  <2>3. QED
    BY <1>3, <2>2
<1>5. \A k \in S : Cardinality(upTo(k)) \in 1 .. N
  <2> SUFFICES ASSUME NEW k \in S PROVE Cardinality(upTo(k)) \in 1 .. N
    OBVIOUS
  <2>1. upTo(k) # {}
    OBVIOUS
  <2> HIDE DEF upTo
  <2>2. Cardinality(upTo(k)) # 0
    BY <1>3, <2>1, FS_EmptySet
  <2>3. QED
    BY <1>2, <1>3, <2>2
<1> HIDE DEF upTo, N
<1>6. rank \in [S -> 1 .. N] /\ \A k, l \in S : k < l => rank[k] < rank[l]
  BY <1>4, <1>5
<1> HIDE DEF rank
<1>7. \A k, l \in S : rank[k] = rank[l] => k = l
  <2> SUFFICES ASSUME NEW k \in S, NEW l \in S, k # l PROVE rank[k] # rank[l]
    OBVIOUS
  <2>1. k < l \/ l < k
    OBVIOUS
  <2>2. rank[k] \in Nat /\ rank[l] \in Nat
    BY <1>2, <1>6
  <2>3. QED
    BY <1>6, <2>1, <2>2
<1>8. rank \in Surjection(S, 1 .. N)
  <2>1. rank \in Injection(S, 1 .. N)
    BY <1>6, <1>7 DEF Injection, IsInjective
  <2>2. IsFiniteSet(1 .. N) /\ Cardinality(1 .. N) = N
    BY <1>2, FS_Interval
  <2>3. Cardinality(S) = Cardinality(1 .. N)
    BY <2>2 DEF N
  <2>4. QED
    BY <2>1, <2>2, <2>3, FS_Injection
<1>9. \A r \in 1 .. N : \E k \in S : rank[k] = r
  BY <1>8 DEF Surjection
<1> DEFINE e == [r \in 1 .. N |-> CHOOSE k \in S : rank[k] = r]
<1>10. \A r \in 1 .. N : e[r] \in S /\ rank[e[r]] = r
  BY <1>9
<1>11. e \in [1 .. N -> S]
  BY <1>10
<1> HIDE DEF e
<1>12. ASSUME NEW r \in 1 .. N, NEW q \in 1 .. N, r < q PROVE e[r] < e[q]
  <2>1. e[r] \in 1 .. n /\ e[q] \in 1 .. n
    BY <1>10
  <2>2. /\ rank[e[r]] = r /\ rank[e[q]] = q /\ e[r] \in S /\ e[q] \in S
        /\ e[q] < e[r] => rank[e[q]] < rank[e[r]]
    BY <1>6, <1>10
  <2>3. r \in Nat /\ q \in Nat
    BY <1>2
  <2>4. ~(e[q] < e[r]) /\ e[q] # e[r]
    BY <1>12, <2>2, <2>3
  <2>5. QED
    BY <2>1, <2>4
<1>13. \A k \in S : rank[k] \in 1 .. N /\ e[rank[k]] = k
  BY <1>6, <1>7, <1>10
<1>14. Lists(e, N, S)
  BY <1>11, <1>12, <1>13 DEF Lists
<1>15. QED
  BY <1>2, <1>14 DEF N

\* What it is to move an element of a sequence.
Relocated(s, i, j) == InsertAt(RemoveAt(s, i), j, s[i])

LEMMA MovedIs ==
  ASSUME NEW S, NEW s \in Seq(S), NEW i \in 1 .. Len(s), NEW j \in 1 .. Len(s)
  PROVE  /\ Relocated(s, i, j) \in Seq(S) /\ Len(Relocated(s, i, j)) = Len(s)
         /\ \A r \in 1 .. Len(s) : Relocated(s, i, j)[r] = s[Source(i, j, r)]
<1> DEFINE n == Len(s)
           a == RemoveAt(s, i)
           key == s[i]
           t == InsertAt(a, j, key)
<1>0. n \in Nat /\ key \in S /\ j \in 1 .. n
  OBVIOUS
<1>1. /\ a \in Seq(S) /\ Len(a) = n - 1
      /\ \A r \in 1 .. n - 1 : a[r] = IF r < i THEN s[r] ELSE s[r + 1]
  BY RemainingAre
<1> HIDE DEF a, key, n
<1>2. /\ t \in Seq(S) /\ Len(t) = n
      /\ \A r \in 1 .. n : t[r] = IF r < j THEN a[r] ELSE IF r = j THEN key ELSE a[r - 1]
  <2>1. j \in 1 .. Len(a) + 1 /\ Len(a) + 1 = n /\ a \in Seq(S) /\ key \in S
    BY <1>0, <1>1
  <2>2. QED
    <3> DEFINE Inserted(q, k, x) ==
                 /\ InsertAt(q, k, x) \in Seq(S) /\ Len(InsertAt(q, k, x)) = Len(q) + 1
                 /\ \A r \in 1 .. Len(q) + 1 :
                      InsertAt(q, k, x)[r] = IF r < k THEN q[r] ELSE IF r = k THEN x ELSE q[r - 1]
    <3>1. ASSUME NEW q \in Seq(S), NEW k \in 1 .. Len(q) + 1, NEW x \in S PROVE Inserted(q, k, x)
      BY InsertedAre
    <3>2. Inserted(a, j, key)
      <4> HIDE DEF Inserted
      <4>1. QED
        BY <2>1, <3>1
    <3>3. QED
      BY <2>1, <3>2
<1> HIDE DEF t
<1>3. \A r \in 1 .. n : t[r] = s[Source(i, j, r)]
  BY <1>0, <1>1, <1>2 DEF Source, key, n
<1>4. QED
  BY <1>2, <1>3 DEF t, a, key, n, Relocated

\* What is left when the moved element is taken away is what was left.
LEMMA OthersStay ==
  ASSUME NEW S, NEW s \in Seq(S), NEW i \in 1 .. Len(s), NEW j \in 1 .. Len(s)
  PROVE  RemoveAt(Relocated(s, i, j), j) = RemoveAt(s, i)
<1> DEFINE n == Len(s)
           a == RemoveAt(s, i)
           key == s[i]
           t == InsertAt(a, j, key)
           b == RemoveAt(t, j)
<1>0. n \in Nat /\ key \in S /\ j \in 1 .. n
  OBVIOUS
<1>1. a \in Seq(S) /\ Len(a) = n - 1
  BY RemainingAre
<1> HIDE DEF a, key, n
<1>2. /\ t \in Seq(S) /\ Len(t) = n
      /\ \A r \in 1 .. n : t[r] = IF r < j THEN a[r] ELSE IF r = j THEN key ELSE a[r - 1]
  <2>1. j \in 1 .. Len(a) + 1 /\ Len(a) + 1 = n /\ a \in Seq(S) /\ key \in S
    BY <1>0, <1>1
  <2>2. QED
    <3> DEFINE Inserted(q, k, x) ==
                 /\ InsertAt(q, k, x) \in Seq(S) /\ Len(InsertAt(q, k, x)) = Len(q) + 1
                 /\ \A r \in 1 .. Len(q) + 1 :
                      InsertAt(q, k, x)[r] = IF r < k THEN q[r] ELSE IF r = k THEN x ELSE q[r - 1]
    <3>1. ASSUME NEW q \in Seq(S), NEW k \in 1 .. Len(q) + 1, NEW x \in S PROVE Inserted(q, k, x)
      BY InsertedAre
    <3>2. Inserted(a, j, key)
      <4> HIDE DEF Inserted
      <4>1. QED
        BY <2>1, <3>1
    <3>3. QED
      BY <2>1, <3>2
<1> HIDE DEF t
<1>3. /\ b \in Seq(S) /\ Len(b) = n - 1
      /\ \A r \in 1 .. n - 1 : b[r] = IF r < j THEN t[r] ELSE t[r + 1]
  <2>1. j \in 1 .. Len(t)
    BY <1>0, <1>2
  <2>2. /\ b \in Seq(S) /\ Len(b) = Len(t) - 1
        /\ \A r \in 1 .. Len(t) - 1 : b[r] = IF r < j THEN t[r] ELSE t[r + 1]
    BY <1>2, <2>1, RemainingAre
  <2> HIDE DEF b
  <2>3. QED
    BY <1>2, <2>2
<1> HIDE DEF b
<1>4. \A r \in 1 .. n - 1 : b[r] = a[r]
  BY <1>0, <1>2, <1>3
<1>5. b = a
  BY <1>1, <1>3, <1>4
<1>6. QED
  BY <1>5 DEF a, b, t, key, Relocated

\* Of the numbers up to m, those in T come from S.
ComeFrom(T, S, m, a, b) == \A k : k \in T <=> k \in 1 .. m /\ Source(a, b, k) \in S

\* f is the list e after the i-th has gone where the j-th is.
GoesBetween(f, e, n, i, j, a, b) ==
  /\ a = e[i] /\ b = e[j]
  /\ f \in [1 .. n -> Int]
  /\ \A r \in 1 .. n : f[r] = Source(b, a, e[Source(i, j, r)])
ComesBack(f, e, n, i, j, a, b) ==
  \A r \in 1 .. n : Source(a, b, f[r]) = e[Source(i, j, r)]

\* The i-th of the numbers of a list goes where the j-th is, and those between
\* move up: the list of what comes of it.
LEMMA MovedAreListed ==
  ASSUME NEW m, NEW S, NEW n, NEW e, NEW i, NEW j, NEW a, NEW b, NEW T, NEW f
  PROVE  /\ ComeFrom(T, S, m, a, b) /\ GoesBetween(f, e, n, i, j, a, b) /\ Lists(e, n, S)
         /\ m \in Nat /\ S \subseteq 1 .. m /\ n \in Nat
         /\ i \in 1 .. n /\ j \in 1 .. n /\ i # j
         => Lists(f, n, T) /\ ComesBack(f, e, n, i, j, a, b)
<1> SUFFICES ASSUME m \in Nat, S \in SUBSET (1 .. m), n \in Nat, Lists(e, n, S),
                    i \in 1 .. n, j \in 1 .. n, i # j,
                    ComeFrom(T, S, m, a, b), GoesBetween(f, e, n, i, j, a, b)
             PROVE  Lists(f, n, T) /\ ComesBack(f, e, n, i, j, a, b)
  OBVIOUS
<1>0. SUFFICES ASSUME a = e[i], b = e[j], f \in [1 .. n -> Int],
                      \A k : k \in T <=> k \in 1 .. m /\ Source(a, b, k) \in S,
                      \A r \in 1 .. n : f[r] = Source(b, a, e[Source(i, j, r)])
               PROVE  /\ Lists(f, n, T)
                      /\ \A r \in 1 .. n : Source(a, b, f[r]) = e[Source(i, j, r)]
  BY DEF ComeFrom, GoesBetween, ComesBack
<1> DEFINE was(r) == Source(i, j, r)
<1>1. /\ \A r \in 1 .. n : e[r] \in S /\ e[r] \in 1 .. m
      /\ \A r, q \in 1 .. n : r < q => e[r] < e[q]
      /\ \A k \in S : \E r \in 1 .. n : e[r] = k
  BY DEF Lists
<1>2. \A r, q \in 1 .. n : e[r] = e[q] => r = q
  <2> SUFFICES ASSUME NEW r \in 1 .. n, NEW q \in 1 .. n, r # q PROVE e[r] # e[q]
    OBVIOUS
  <2>1. e[r] \in 1 .. m /\ e[q] \in 1 .. m
    BY <1>1
  <2>2. r < q \/ q < r
    OBVIOUS
  <2>3. QED
    BY <1>1, <2>1, <2>2
<1>3. a \in 1 .. m /\ b \in 1 .. m /\ a # b
  BY <1>0, <1>1, <1>2
<1>4. /\ \A r \in 1 .. n : was(r) \in 1 .. n
      /\ \A r \in 1 .. n : Source(j, i, r) \in 1 .. n
      /\ \A r \in 1 .. n : was(Source(j, i, r)) = r
  BY SourcesArePlaces
<1>15. \A r \in 1 .. n : (was(r) = i) <=> (r = j)
  BY DEF Source
<1>5. \A k \in 1 .. m : /\ Source(b, a, k) \in 1 .. m /\ Source(a, b, Source(b, a, k)) = k
                         /\ Source(a, b, k) \in 1 .. m /\ Source(b, a, Source(a, b, k)) = k
  BY <1>3, SourcesArePlaces
<1>6. \A k, l \in 1 .. m : k < l /\ k # a /\ l # a => Source(b, a, k) < Source(b, a, l)
  BY <1>3, SourcesKeepOrder
<1>7. \A r \in 1 .. n : f[r] = Source(b, a, e[was(r)])
  BY <1>0
<1>8. \A k : k \in T <=> k \in 1 .. m /\ Source(a, b, k) \in S
  BY <1>0
<1>9. ASSUME NEW r \in 1 .. n
      PROVE  /\ was(r) \in 1 .. n /\ e[was(r)] \in S /\ e[was(r)] \in 1 .. m
             /\ f[r] \in 1 .. m /\ Source(a, b, f[r]) = e[was(r)]
  <2> HIDE DEF was
  <2>1. was(r) \in 1 .. n
    BY <1>4
  <2>2. e[was(r)] \in S /\ e[was(r)] \in 1 .. m
    BY <1>1, <2>1
  <2>3. f[r] = Source(b, a, e[was(r)])
    BY <1>7
  <2>4. Source(b, a, e[was(r)]) \in 1 .. m /\ Source(a, b, Source(b, a, e[was(r)])) = e[was(r)]
    BY <1>5, <2>2
  <2>5. QED
    BY <2>1, <2>2, <2>3, <2>4
<1>10. f \in [1 .. n -> T]
  <2>1. ASSUME NEW r \in 1 .. n PROVE f[r] \in T
    <3> HIDE DEF was
    <3>1. QED
      BY <1>8, <1>9
  <2>2. QED
    BY <1>0, <2>1
<1>11. ASSUME NEW r \in 1 .. n, NEW q \in 1 .. n, r < q PROVE f[r] < f[q]
  <2> DEFINE x == e[was(r)]
             y == e[was(q)]
  <2>1. /\ was(r) \in 1 .. n /\ was(q) \in 1 .. n /\ x \in 1 .. m /\ y \in 1 .. m
        /\ (x = a <=> r = j) /\ (y = a <=> q = j)
    <3>1. /\ was(r) \in 1 .. n /\ was(q) \in 1 .. n /\ x \in 1 .. m /\ y \in 1 .. m
          /\ (was(r) = i <=> r = j) /\ (was(q) = i <=> q = j)
      BY <1>9, <1>15
    <3> HIDE DEF was
    <3>2. (x = a <=> was(r) = i) /\ (y = a <=> was(q) = i)
      BY <1>0, <1>2, <3>1
    <3>3. QED
      BY <3>1, <3>2
  <2>2. f[r] = Source(b, a, x) /\ f[q] = Source(b, a, y)
    BY <1>7
  <2>3. \A p \in 1 .. n : /\ p < j => e[p] < b
                          /\ j < p => b < e[p]
    BY <1>0, <1>1
  <2>4. i < j => a < b
    BY <1>0, <1>1
  <2>5. j < i => b < a
    BY <1>0, <1>1
  <2>6. CASE r # j /\ q # j
    <3>1. was(r) < was(q)
      BY <1>11, <2>6, SourcesKeepOrder
    <3>2. x < y
      BY <1>1, <2>1, <3>1
    <3> HIDE DEF x, y
    <3>3. QED
      BY <1>6, <2>1, <2>2, <2>6, <3>2
  <2>7. CASE r = j
    <3>1. was(q) > j \/ (was(q) = j /\ j < i)
      BY <1>11, <2>7, SourcesKeepOrder
    <3>2. b < y \/ (y = b /\ b < a)
      BY <1>0, <2>1, <2>3, <2>5, <3>1
    <3>3. x = a /\ y # a
      BY <1>11, <2>1, <2>7
    <3> HIDE DEF x, y
    <3>4. QED
      BY <1>3, <2>1, <2>2, <3>2, <3>3 DEF Source
  <2>8. CASE q = j
    <3>1. was(r) < j \/ (was(r) = j /\ i < j)
      BY <1>11, <2>8, SourcesKeepOrder
    <3>2. x < b \/ (x = b /\ a < b)
      BY <1>0, <2>1, <2>3, <2>4, <3>1
    <3>3. y = a /\ x # a
      BY <1>11, <2>1, <2>8
    <3> HIDE DEF x, y
    <3>4. QED
      BY <1>3, <2>1, <2>2, <3>2, <3>3 DEF Source
  <2>9. QED
    BY <2>6, <2>7, <2>8
<1>12. ASSUME NEW k \in T PROVE \E r \in 1 .. n : f[r] = k
  <2>1. k \in 1 .. m /\ Source(a, b, k) \in S
    BY <1>8
  <2>2. PICK p \in 1 .. n : e[p] = Source(a, b, k)
    BY <1>1, <2>1
  <2> HIDE DEF was
  <2>3. Source(j, i, p) \in 1 .. n /\ was(Source(j, i, p)) = p
    BY <1>4
  <2>4. f[Source(j, i, p)] = Source(b, a, Source(a, b, k))
    BY <1>7, <2>2, <2>3
  <2>5. Source(b, a, Source(a, b, k)) = k
    BY <1>5, <2>1
  <2>6. QED
    BY <2>3, <2>4, <2>5
<1>13. Lists(f, n, T)
  BY <1>10, <1>11, <1>12 DEF Lists
<1>14. QED
  BY <1>9, <1>13

All(cols) == StatusOrder \o cols

\* shown are the places of those that are drawn.
AreShown(shown, cols, hide) ==
  \A k : k \in shown <=> k \in DOMAIN All(cols) /\ All(cols)[k] \notin hide

\* row has the n columns that e lists.
HasTheListed(row, n, e, cols) ==
  row \in [1 .. n -> ColumnKey] /\ \A r \in 1 .. n : row[r] = All(cols)[e[r]]

\* The row is its columns in the order of their places.
LEMMA DrawnIs ==
  ASSUME StripAssumption, NEW cols \in Seq(ParkedId), NEW hide, NEW shown,
         NEW n \in Nat, NEW e, Lists(e, n, shown)
  PROVE  AreShown(shown, cols, hide)
         => HasTheListed(Drawn(cols, hide), n, e, cols)
<1> DEFINE all == All(cols)
           row == Drawn(cols, hide)
           drawn == {k \in DOMAIN all : all[k] \notin hide}
<1>0. SUFFICES ASSUME \A k : k \in shown <=> k \in DOMAIN all /\ all[k] \notin hide
               PROVE  row \in [1 .. n -> ColumnKey] /\ \A r \in 1 .. n : row[r] = all[e[r]]
  BY DEF AreShown, HasTheListed
<1>1. all \in Seq(ColumnKey) /\ DOMAIN all = 1 .. (Len(StatusOrder) + Len(cols))
  <2>1. StatusOrder \in Seq(ColumnKey) /\ cols \in Seq(ColumnKey)
    BY DEF StripAssumption, StatusKey, ColumnKey
  <2>2. QED
    BY <2>1 DEF All
<1>2. shown \in SUBSET Nat /\ 0 \notin shown
  BY <1>0, <1>1
<1>3. drawn = shown
  BY <1>0
<1>4. row = [r \in 1 .. Cardinality(drawn) |-> all[Nth(drawn, r)]]
  BY Zenon DEF Drawn, All, Nth
<1> HIDE DEF row, drawn
<1>5. Cardinality(shown) = n
  BY <1>2, ListsCount
<1>6. \A r \in 1 .. n : Nth(shown, r) = e[r]
  BY <1>2, ListsAreFound
<1> HIDE DEF all
<1>7. row = [r \in 1 .. n |-> all[Nth(shown, r)]]
  BY <1>3, <1>4, <1>5
<1>8. \A r \in 1 .. n : all[e[r]] \in ColumnKey
  <2>1. \A r \in 1 .. n : e[r] \in shown
    BY DEF Lists
  <2>2. QED
    BY <1>0, <1>1, <2>1
<1>9. QED
  BY <1>6, <1>7, <1>8

\* A column that is moved among all of them by the distance to another one, that
\* is drawn too, lies where that lay in the row.
LEMMA DropsMoveTheRow ==
  ASSUME StripAssumption, NEW cols \in Seq(ParkedId), NEW hide, NEW row, NEW i, NEW j,
         NEW from, NEW to
  PROVE  /\ IsInjective(cols) /\ row = Drawn(cols, hide)
         /\ i \in DOMAIN row /\ j \in DOMAIN row /\ i # j
         /\ row[i] \in ParkedId /\ row[j] \in ParkedId
         /\ from = IndexOf(row[i], cols) /\ to = IndexOf(row[j], cols)
         =>
         /\ from \in 1 .. Len(cols) /\ cols[from] = row[i]
         /\ to \in 1 .. Len(cols) /\ cols[to] = row[j]
         /\ Drawn(InsertAt(RemoveAt(cols, from), to, row[i]), hide)
              = InsertAt(RemoveAt(row, i), j, row[i])
<1>0. SUFFICES ASSUME IsInjective(cols), row = Drawn(cols, hide),
                      i \in DOMAIN row, j \in DOMAIN row, i # j,
                      row[i] \in ParkedId, row[j] \in ParkedId,
                      from = IndexOf(row[i], cols), to = IndexOf(row[j], cols)
               PROVE  /\ from \in 1 .. Len(cols) /\ cols[from] = row[i]
                      /\ to \in 1 .. Len(cols) /\ cols[to] = row[j]
                      /\ Drawn(InsertAt(RemoveAt(cols, from), to, row[i]), hide)
                           = InsertAt(RemoveAt(row, i), j, row[i])
  OBVIOUS
<1> DEFINE m == Len(StatusOrder)
           l == Len(cols)
           all == All(cols)
           shown == {k \in DOMAIN all : all[k] \notin hide}
           n == Cardinality(shown)
<1>1. /\ m \in Nat /\ l \in Nat /\ m + l \in Nat /\ StatusOrder \in Seq(StatusKey)
      /\ \A k \in 1 .. m : StatusOrder[k] \in StatusKey /\ StatusOrder[k] \notin ParkedId
  BY DEF StripAssumption, StatusKey, ParkedId, Range
<1>2. /\ DOMAIN all = 1 .. m + l
      /\ \A k \in 1 .. m + l : all[k] = IF k <= m THEN StatusOrder[k] ELSE cols[k - m]
  BY <1>1 DEF All
<1>3. \A k : k \in shown <=> k \in DOMAIN all /\ all[k] \notin hide
  OBVIOUS
<1>4. shown \in SUBSET (1 .. m + l)
  BY <1>2
<1> HIDE DEF shown
<1>5. n \in Nat /\ \E e : Lists(e, n, shown)
  BY <1>1, <1>4, PlacesAreListed
<1> HIDE DEF n
<1>6. PICK e : Lists(e, n, shown)
  BY <1>5
<1>7. row \in [1 .. n -> ColumnKey] /\ \A r \in 1 .. n : row[r] = all[e[r]]
  <2>1. /\ Drawn(cols, hide) \in [1 .. n -> ColumnKey]
        /\ \A r \in 1 .. n : Drawn(cols, hide)[r] = all[e[r]]
    <3>1. AreShown(shown, cols, hide)
      BY <1>3 DEF AreShown
    <3>2. n \in Nat
      BY <1>5
    <3>3. HasTheListed(Drawn(cols, hide), n, e, cols)
      BY <1>6, <3>1, <3>2, DrawnIs
    <3>4. QED
      BY <3>3 DEF HasTheListed
  <2>2. QED
    BY <1>0, <2>1
<1>8. \A r \in 1 .. n : e[r] \in 1 .. m + l
  BY <1>4, <1>6 DEF Lists
<1>9. i \in 1 .. n /\ j \in 1 .. n /\ Len(row) = n /\ row \in Seq(ColumnKey)
      /\ i # j
  BY <1>0, <1>5, <1>7
<1> HIDE DEF all
<1> DEFINE a == e[i]
           b == e[j]
<1>10. /\ a \in 1 .. m + l /\ b \in 1 .. m + l
       /\ all[a] = row[i] /\ all[b] = row[j]
  BY <1>7, <1>8, <1>9
<1>11. a = e[i] /\ b = e[j]
  OBVIOUS
<1> HIDE DEF a, b
<1>12. /\ a - m \in 1 .. l /\ cols[a - m] = row[i]
       /\ b - m \in 1 .. l /\ cols[b - m] = row[j]
  BY <1>0, <1>1, <1>2, <1>10
<1>13. \A k \in 1 .. l : IndexOf(cols[k], cols) = k
  <2> SUFFICES ASSUME NEW k \in 1 .. l PROVE IndexOf(cols[k], cols) = k
    OBVIOUS
  <2>1. Contains(cols, cols[k]) /\ k \in DOMAIN cols
    BY DEF Contains
  <2>2. \A x \in DOMAIN cols : cols[x] = cols[k] => x = k
    BY <1>0, <2>1 DEF IsInjective
  <2>3. QED
    BY <2>1, <2>2 DEF IndexOf
<1>14. from = a - m /\ to = b - m
  BY <1>0, <1>12, <1>13
<1> DEFINE moved == InsertAt(RemoveAt(cols, from), to, row[i])
           all2 == All(moved)
           shown2 == {k \in DOMAIN all2 : all2[k] \notin hide}
<1>15. /\ moved \in Seq(ParkedId) /\ Len(moved) = l
       /\ \A k \in 1 .. l : moved[k] = cols[Source(from, to, k)]
  <2>1. moved = Relocated(cols, from, to)
    BY <1>12, <1>14 DEF Relocated
  <2>2. from \in 1 .. Len(cols) /\ to \in 1 .. Len(cols)
    BY <1>12, <1>14
  <2>3. /\ Relocated(cols, from, to) \in Seq(ParkedId)
        /\ Len(Relocated(cols, from, to)) = Len(cols)
        /\ \A k \in 1 .. Len(cols) : Relocated(cols, from, to)[k] = cols[Source(from, to, k)]
    BY <2>2, MovedIs
  <2> HIDE DEF moved
  <2>4. QED
    BY <2>1, <2>3
<1> HIDE DEF moved
<1>16. /\ DOMAIN all2 = 1 .. m + l
       /\ \A k \in 1 .. m + l : all2[k] = IF k <= m THEN StatusOrder[k] ELSE moved[k - m]
  <2>1. StatusOrder \in Seq(ColumnKey) /\ moved \in Seq(ColumnKey)
    BY <1>1, <1>15 DEF ColumnKey
  <2>2. /\ StatusOrder \o moved \in Seq(ColumnKey) /\ Len(StatusOrder \o moved) = m + l
        /\ \A k \in 1 .. m + l :
             (StatusOrder \o moved)[k] = IF k <= m THEN StatusOrder[k] ELSE moved[k - m]
    BY <1>15, <2>1, ConcatenatedAre
  <2>3. all2 = StatusOrder \o moved
    BY DEF All
  <2> HIDE DEF all2, m
  <2>4. QED
    BY <1>1, <2>2, <2>3
<1>17. \A k : k \in shown2 <=> k \in DOMAIN all2 /\ all2[k] \notin hide
  OBVIOUS
<1> HIDE DEF shown2
<1>18. \A k \in 1 .. m + l : /\ Source(a, b, k) \in 1 .. m + l
                              /\ all2[k] = all[Source(a, b, k)]
  <2> SUFFICES ASSUME NEW k \in 1 .. m + l
               PROVE  Source(a, b, k) \in 1 .. m + l /\ all2[k] = all[Source(a, b, k)]
    OBVIOUS
  <2> HIDE DEF all2
  <2>1. CASE k <= m
    <3>1. Source(a, b, k) = k
      BY <1>1, <1>10, <1>12, <2>1 DEF Source
    <3>2. QED
      BY <1>2, <1>16, <2>1, <3>1
  <2>2. CASE ~(k <= m)
    <3>1. k - m \in 1 .. l
      BY <1>1, <2>2
    <3>2. /\ Source(a, b, k) \in 1 .. m + l /\ ~(Source(a, b, k) <= m)
          /\ Source(a, b, k) - m = Source(from, to, k - m)
      BY <1>1, <1>10, <1>12, <1>14, <2>2 DEF Source
    <3>3. all2[k] = cols[Source(from, to, k - m)]
      BY <1>15, <1>16, <2>2, <3>1
    <3>4. all[Source(a, b, k)] = cols[Source(a, b, k) - m]
      BY <1>2, <3>2
    <3>5. QED
      BY <3>2, <3>3, <3>4
  <2>3. QED
    BY <2>1, <2>2
<1>19. \A k : k \in shown2 <=> k \in 1 .. m + l /\ Source(a, b, k) \in shown
  <2> HIDE DEF all2
  <2>1. ASSUME NEW k \in 1 .. m + l PROVE all2[k] \notin hide <=> Source(a, b, k) \in shown
    BY <1>2, <1>3, <1>18
  <2>2. QED
    BY <1>16, <1>17, <2>1
<1> DEFINE f == [r \in 1 .. n |-> Source(b, a, e[Source(i, j, r)])]
<1>20. \A r \in 1 .. n : Source(i, j, r) \in 1 .. n
  BY <1>5, <1>9, SourcesArePlaces
<1>21. f \in [1 .. n -> Int] /\ \A r \in 1 .. n : f[r] = Source(b, a, e[Source(i, j, r)])
  <2>1. \A r \in 1 .. n : e[Source(i, j, r)] \in 1 .. m + l
    BY <1>8, <1>20
  <2>2. \A k \in 1 .. m + l : Source(b, a, k) \in Int
    BY <1>10 DEF Source
  <2>3. \A r \in 1 .. n : Source(b, a, e[Source(i, j, r)]) \in Int
    BY <2>1, <2>2
  <2>4. QED
    BY <2>3
<1> HIDE DEF f
<1>22. /\ Lists(f, n, shown2)
       /\ \A r \in 1 .. n : Source(a, b, f[r]) = e[Source(i, j, r)]
  <2> DEFINE places == m + l
  <2>1. places \in Nat /\ n \in Nat
    BY <1>1, <1>5
  <2>2. shown \subseteq 1 .. places
    BY <1>4
  <2>3. ComeFrom(shown2, shown, places, a, b)
    BY <1>19 DEF ComeFrom
  <2> HIDE DEF places
  <2>4. i \in 1 .. n /\ j \in 1 .. n /\ i # j
    BY <1>9
  <2>5. GoesBetween(f, e, n, i, j, a, b)
    BY <1>11, <1>21 DEF GoesBetween
  <2>6. Lists(e, n, shown)
    BY <1>6
  <2>7. /\ ComeFrom(shown2, shown, places, a, b) /\ GoesBetween(f, e, n, i, j, a, b)
        /\ Lists(e, n, shown)
        /\ places \in Nat /\ shown \subseteq 1 .. places /\ n \in Nat
        /\ i \in 1 .. n /\ j \in 1 .. n /\ i # j
        => Lists(f, n, shown2) /\ ComesBack(f, e, n, i, j, a, b)
    BY MovedAreListed
  <2>8. QED
    BY <2>1, <2>2, <2>3, <2>4, <2>5, <2>6, <2>7 DEF ComesBack
<1>23. /\ Drawn(moved, hide) \in [1 .. n -> ColumnKey]
       /\ \A r \in 1 .. n : Drawn(moved, hide)[r] = all2[f[r]]
  <2>1. AreShown(shown2, moved, hide)
    BY <1>17 DEF AreShown
  <2>2. n \in Nat /\ Lists(f, n, shown2) /\ moved \in Seq(ParkedId)
    BY <1>5, <1>15, <1>22
  <2>3. HasTheListed(Drawn(moved, hide), n, f, moved)
    BY <2>1, <2>2, DrawnIs
  <2>4. QED
    BY <2>3 DEF HasTheListed
<1>24. ASSUME NEW r \in 1 .. n PROVE Drawn(moved, hide)[r] = row[Source(i, j, r)]
  <2> HIDE DEF all2
  <2>1. f[r] \in 1 .. m + l
    BY <1>19, <1>22 DEF Lists
  <2>2. all2[f[r]] = all[e[Source(i, j, r)]]
    BY <1>18, <1>22, <2>1
  <2>3. row[Source(i, j, r)] = all[e[Source(i, j, r)]]
    BY <1>7, <1>20
  <2>4. QED
    BY <1>23, <2>2, <2>3
<1> DEFINE dropped == Relocated(row, i, j)
<1>25. /\ dropped \in Seq(ColumnKey) /\ Len(dropped) = n
       /\ \A r \in 1 .. n : dropped[r] = row[Source(i, j, r)]
  BY <1>9, MovedIs
<1> HIDE DEF dropped
<1>26. Drawn(moved, hide) = dropped
  <2>1. DOMAIN dropped = 1 .. n
    BY <1>5, <1>25
  <2>2. QED
    BY <1>23, <1>24, <1>25, <2>1
<1>27. QED
  BY <1>12, <1>14, <1>26 DEF moved, dropped, Relocated

\* What a move comes to: the column takes the neighbour's place, if there is one.
LEMMA MovingIsRelocating ==
  ASSUME NEW S, NEW order \in Seq(S), NEW key, NEW neighbour, Contains(order, key),
         NEW from, from = IndexOf(key, order),
         NEW to, to = from + reorderDelta(order, key, neighbour)
  PROVE  /\ from \in 1 .. Len(order) /\ to \in 1 .. Len(order) /\ order[from] = key
         /\ Moved(order, key, reorderDelta(order, key, neighbour)) = Relocated(order, from, to)
         /\ Contains(order, neighbour) => to = IndexOf(neighbour, order)
<1>1. \E k \in DOMAIN order : order[k] = key
  BY DEF Contains
<1>2. from \in DOMAIN order /\ order[from] = key
  BY <1>1 DEF IndexOf
<1>3. from \in 1 .. Len(order) /\ Len(order) \in Nat /\ Len(order) > 0
  BY <1>2
<1>4. IndexOf(neighbour, order) \in 1 .. Len(order)
  BY <1>3, IndicesOfSequences
<1>5. to = IF Contains(order, neighbour) THEN IndexOf(neighbour, order) ELSE from
  BY <1>3, <1>4 DEF reorderDelta
<1>6. Moved(order, key, reorderDelta(order, key, neighbour)) = Relocated(order, from, to)
  BY <1>2 DEF Moved, Relocated
<1>7. QED
  BY <1>2, <1>3, <1>4, <1>5, <1>6

\* No column is in the order twice, whatever is done to it.
LEMMA OrdersStayDistinct ==
  ASSUME NEW S, NEW s \in Seq(S), IsInjective(s)
  PROVE  /\ \A i, j \in 1 .. Len(s) : IsInjective(Relocated(s, i, j))
         /\ \A i \in 1 .. Len(s) : IsInjective(RemoveAt(s, i))
         /\ \A key \in S : key \notin Range(s) => IsInjective(Append(s, key))
<1>1. Len(s) \in Nat /\ \A r, q \in 1 .. Len(s) : s[r] = s[q] => r = q
  BY DEF IsInjective
<1>2. ASSUME NEW i \in 1 .. Len(s), NEW j \in 1 .. Len(s)
      PROVE  IsInjective(Relocated(s, i, j))
  <2> DEFINE n == Len(s)
             t == Relocated(s, i, j)
  <2>1. t \in Seq(S) /\ Len(t) = n /\ \A r \in 1 .. n : t[r] = s[Source(i, j, r)]
    BY MovedIs
  <2>2. /\ \A r \in 1 .. n : Source(i, j, r) \in 1 .. n
        /\ \A r, q \in 1 .. n : Source(i, j, q) = Source(i, j, r) => q = r
    <3>1. n \in Nat /\ i \in 1 .. n /\ j \in 1 .. n
      BY <1>1
    <3> HIDE DEF n
    <3>2. ASSUME NEW r \in 1 .. n PROVE Source(i, j, r) \in 1 .. n
      BY <3>1, SourcesArePlaces
    <3>3. ASSUME NEW r \in 1 .. n, NEW q \in 1 .. n, Source(i, j, q) = Source(i, j, r)
          PROVE  q = r
      BY <3>1, <3>3 DEF Source
    <3>4. QED
      BY <3>2, <3>3
  <2> HIDE DEF t
  <2>3. DOMAIN t = 1 .. n
    BY <2>1
  <2>4. \A r, q \in 1 .. n : t[r] = t[q] => r = q
    BY <1>1, <2>1, <2>2
  <2>5. IsInjective(t)
    BY <2>3, <2>4 DEF IsInjective
  <2>6. QED
    BY <2>5 DEF t
<1>3. ASSUME NEW i \in 1 .. Len(s) PROVE IsInjective(RemoveAt(s, i))
  <2> DEFINE n == Len(s)
             t == RemoveAt(s, i)
  <2>1. /\ t \in Seq(S) /\ Len(t) = n - 1
        /\ \A r \in 1 .. n - 1 : t[r] = IF r < i THEN s[r] ELSE s[r + 1]
    BY RemainingAre
  <2> HIDE DEF t
  <2>2. DOMAIN t = 1 .. n - 1
    BY <2>1
  <2>3. ASSUME NEW r \in 1 .. n - 1, NEW q \in 1 .. n - 1, t[r] = t[q] PROVE r = q
    <3> DEFINE at(k) == IF k < i THEN k ELSE k + 1
    <3>1. at(r) \in 1 .. n /\ at(q) \in 1 .. n /\ (at(r) = at(q) => r = q)
      BY <1>1
    <3>2. t[r] = s[at(r)] /\ t[q] = s[at(q)]
      BY <2>1
    <3> HIDE DEF at
    <3>3. QED
      BY <1>1, <2>3, <3>1, <3>2
  <2>4. IsInjective(t)
    BY <2>2, <2>3 DEF IsInjective
  <2>5. QED
    BY <2>4 DEF t
<1>4. ASSUME NEW key \in S, key \notin Range(s) PROVE IsInjective(Append(s, key))
  <2> DEFINE n == Len(s)
             t == Append(s, key)
  <2>1. DOMAIN t = 1 .. n + 1 /\ t[n + 1] = key /\ \A r \in 1 .. n : t[r] = s[r]
    OBVIOUS
  <2>2. \A r \in 1 .. n : s[r] # key
    BY <1>4 DEF Range
  <2> HIDE DEF t
  <2>3. ASSUME NEW r \in 1 .. n + 1, NEW q \in 1 .. n + 1, t[r] = t[q] PROVE r = q
    <3>1. (r \in 1 .. n \/ r = n + 1) /\ (q \in 1 .. n \/ q = n + 1)
      BY <1>1
    <3>2. QED
      BY <1>1, <2>1, <2>2, <2>3, <3>1
  <2>4. IsInjective(t)
    BY <2>1, <2>3 DEF IsInjective
  <2>5. QED
    BY <2>4 DEF t
<1>5. QED
  BY <1>2, <1>3, <1>4

ColumnsAreDistinct == columns \in Seq(ParkedId) /\ IsInjective(columns)

LEMMA MovesKeepTheOrder ==
  ASSUME ColumnsAreDistinct, NEW key, NEW neighbour, Contains(columns, key),
         columns' = Moved(columns, key, reorderDelta(columns, key, neighbour))
  PROVE  ColumnsAreDistinct'
<1> DEFINE from == IndexOf(key, columns)
           to == from + reorderDelta(columns, key, neighbour)
<1>1. columns \in Seq(ParkedId) /\ IsInjective(columns)
  BY DEF ColumnsAreDistinct
<1>2. /\ from \in 1 .. Len(columns) /\ to \in 1 .. Len(columns)
      /\ columns' = Relocated(columns, from, to)
  BY <1>1, MovingIsRelocating
<1> HIDE DEF from, to
<1>3. Relocated(columns, from, to) \in Seq(ParkedId)
  BY <1>1, <1>2, MovedIs
<1>4. IsInjective(Relocated(columns, from, to))
  BY <1>1, <1>2, OrdersStayDistinct
<1>5. QED
  BY <1>2, <1>3, <1>4 DEF ColumnsAreDistinct

\* A drop is a move to the place, in the order of all columns, of the one it
\* lands on; in the row it is a move to where that is drawn.
LEMMA DropsAreMoves ==
  ASSUME StripAssumption, ColumnsAreDistinct, NEW i, NEW j, ColumnDropped(i, j),
         NEW from, from = IndexOf(Visible[i], columns),
         NEW to, to = IndexOf(Visible[j], columns)
  PROVE  /\ Contains(columns, Visible[i])
         /\ from \in 1 .. Len(columns) /\ columns[from] = Visible[i]
         /\ to \in 1 .. Len(columns)
         /\ columns' = Relocated(columns, from, to)
         /\ Visible' = InsertAt(RemoveAt(Visible, i), j, Visible[i])
<1> DEFINE row == Visible
           key == row[i]
           delta == reorderDelta(columns, key, row[j])
<1>1. columns \in Seq(ParkedId) /\ IsInjective(columns)
  BY DEF ColumnsAreDistinct
<1>2. /\ i \in DOMAIN row /\ j \in DOMAIN row /\ i # j
      /\ row[i] \in ParkedId /\ row[j] \in ParkedId
  BY DEF ColumnDropped, columnSortPredicate
<1>3. columns' = Moved(columns, key, delta) /\ hidden' = hidden
  BY DEF ColumnDropped, SetRow
<1>4. row = Drawn(columns, hidden) /\ Visible' = Drawn(columns', hidden')
  BY DEF Visible
<1>5. /\ from \in 1 .. Len(columns) /\ columns[from] = key
      /\ to \in 1 .. Len(columns) /\ columns[to] = row[j]
      /\ Drawn(InsertAt(RemoveAt(columns, from), to, key), hidden)
           = InsertAt(RemoveAt(row, i), j, key)
  BY <1>1, <1>2, <1>4, DropsMoveTheRow
<1> HIDE DEF row
<1>6. Contains(columns, key) /\ Contains(columns, row[j])
  BY <1>1, <1>5 DEF Contains
<1>7. delta = to - from /\ from + delta = to
  <2>1. from = IndexOf(key, columns) /\ to = IndexOf(row[j], columns)
    BY DEF row
  <2>2. QED
    BY <1>1, <1>5, <1>6, <2>1 DEF reorderDelta
<1>8. Moved(columns, key, delta) = Relocated(columns, from, to)
  <2>1. from = IndexOf(key, columns)
    BY DEF row
  <2> HIDE DEF key, delta
  <2>2. Moved(columns, key, delta) = InsertAt(RemoveAt(columns, from), to, key)
    BY <1>7, <2>1 DEF Moved
  <2>3. QED
    BY <1>5, <2>2 DEF Relocated
<1>9. Relocated(columns, from, to) = InsertAt(RemoveAt(columns, from), to, key)
  BY <1>5 DEF Relocated
<1>10. Visible' = InsertAt(RemoveAt(row, i), j, key)
  BY <1>3, <1>4, <1>5, <1>8, <1>9
<1>11. QED
  BY <1>3, <1>5, <1>6, <1>8, <1>10 DEF row

LEMMA StepsKeepTheOrder ==
  ASSUME ColumnsAreDistinct, [StripNext]_stripVars
  PROVE  ColumnsAreDistinct'
<1>1. columns \in Seq(ParkedId) /\ IsInjective(columns)
  BY DEF ColumnsAreDistinct
<1>2. \A id : id \in Range(columns) => Contains(columns, id)
  BY <1>1 DEF Range, Contains
<1>3. columns' = columns => ColumnsAreDistinct'
  BY DEF ColumnsAreDistinct
<1>4. ASSUME NEW key, Toggle(key) PROVE ColumnsAreDistinct'
  BY <1>3, <1>4 DEF Toggle, SetRow
<1>5. ASSUME NEW id \in ParkedId, CreateColumn(id) PROVE ColumnsAreDistinct'
  <2>1. columns' = Append(columns, id) /\ id \notin Range(columns)
    BY <1>5 DEF CreateColumn, SetRow
  <2>2. Append(columns, id) \in Seq(ParkedId) /\ IsInjective(Append(columns, id))
    BY <1>1, <2>1, OrdersStayDistinct
  <2>3. QED
    BY <2>1, <2>2 DEF ColumnsAreDistinct
<1>6. ASSUME NEW id \in ParkedId, RemoveColumn(id) PROVE ColumnsAreDistinct'
  <2> DEFINE i == IndexOf(id, columns)
  <2>1. columns' = RemoveAt(columns, i) /\ id \in Range(columns)
    BY <1>6 DEF RemoveColumn, SetRow
  <2>2. Len(columns) > 0
    BY <1>1, <2>1 DEF Range
  <2>3. i \in 1 .. Len(columns)
    BY <1>1, <2>2, IndicesOfSequences
  <2> HIDE DEF i
  <2>4. RemoveAt(columns, i) \in Seq(ParkedId) /\ IsInjective(RemoveAt(columns, i))
    BY <1>1, <2>3, RemainingAre, OrdersStayDistinct
  <2>5. QED
    BY <2>1, <2>4 DEF ColumnsAreDistinct
<1>7. ASSUME NEW id \in ParkedId, NEW step \in {-1, 1}, MoveColumn(id, step)
      PROVE  ColumnsAreDistinct'
  <2>1. /\ columns' = Moved(columns, id, reorderDelta(columns, id, visibleNeighbour(id, step)))
        /\ id \in Range(columns)
    BY <1>7 DEF MoveColumn, SetRow
  <2>2. QED
    BY <1>2, <2>1, MovesKeepTheOrder
<1>8. ASSUME StripAssumption, NEW i, NEW j, ColumnDropped(i, j) PROVE ColumnsAreDistinct'
  <2>1. columns' = Moved(columns, Visible[i], reorderDelta(columns, Visible[i], Visible[j]))
    BY <1>8 DEF ColumnDropped, SetRow
  <2>2. Contains(columns, Visible[i])
    BY <1>8, DropsAreMoves
  <2>3. QED
    BY <2>1, <2>2, MovesKeepTheOrder
<1>9. ASSUME NEW i, selectStatus(i) PROVE ColumnsAreDistinct'
  BY <1>3, <1>9 DEF selectStatus
<1>10. ASSUME NEW b, NEW i, Swipe(b, i) PROVE ColumnsAreDistinct'
  BY <1>3, <1>10 DEF Swipe
<1>11. ASSUME NEW b, ScrollBegins(b) \/ Scrolls(b) PROVE ColumnsAreDistinct'
  BY <1>3, <1>11 DEF ScrollBegins, Scrolls
<1>12. CASE UNCHANGED stripVars
  BY <1>3, <1>12 DEF stripVars
<1>13. QED
  BY StripAssumption, <1>4, <1>5, <1>6, <1>7, <1>8, <1>9, <1>10, <1>11, <1>12 DEF StripNext

LEMMA DropsLand ==
  ASSUME StripAssumption, ColumnsAreDistinct, ColumnsAreDistinct',
         NEW i, NEW j, ColumnDropped(i, j)
  PROVE  /\ Visible' = InsertAt(RemoveAt(Visible, i), j, Visible[i])
         /\ OthersThan(Visible[i], columns') = OthersThan(Visible[i], columns)
<1> DEFINE key == Visible[i]
           from == IndexOf(key, columns)
           to == IndexOf(Visible[j], columns)
           order == Relocated(columns, from, to)
<1>1. /\ from \in 1 .. Len(columns) /\ columns[from] = key /\ to \in 1 .. Len(columns)
      /\ columns' = order
      /\ Visible' = InsertAt(RemoveAt(Visible, i), j, key)
  BY DropsAreMoves
<1>2. columns \in Seq(ParkedId) /\ order \in Seq(ParkedId) /\ IsInjective(order)
  BY <1>1 DEF ColumnsAreDistinct
<1> HIDE DEF to
<1>3. to \in DOMAIN order /\ order[to] = key
  <2>1. /\ Len(order) = Len(columns)
        /\ \A r \in 1 .. Len(columns) : order[r] = columns[Source(from, to, r)]
    BY <1>1, <1>2, MovedIs
  <2>2. Source(from, to, to) = from
    BY DEF Source
  <2> HIDE DEF order, from
  <2>3. QED
    BY <1>1, <1>2, <2>1, <2>2
<1>4. RemoveAt(order, to) = RemoveAt(columns, from)
  BY <1>1, <1>2, OthersStay
<1> HIDE DEF order
<1>5. IndexOf(key, order) = to
  <2>1. Contains(order, key)
    BY <1>2, <1>3 DEF Contains
  <2>2. \A x \in DOMAIN order : order[x] = key => x = to
    BY <1>2, <1>3 DEF IsInjective
  <2>3. QED
    BY <1>3, <2>1, <2>2 DEF IndexOf
<1>6. OthersThan(key, order) = OthersThan(key, columns)
  BY <1>4, <1>5 DEF OthersThan
<1>7. QED
  BY <1>1, <1>6 DEF key

\* A column that is dropped on another lies where that one was drawn, whatever is
\* hidden between them, and the rest of the order is as it was
\* (onColumnDropped of board.ts and columnReorderDelta of column.ts).
THEOREM DropsLandOnTheirPlace == StripSpec => DropsLandWhereDrawn
<1>1. StripInit => ColumnsAreDistinct
  <2>1. ASSUME StripInit PROVE columns \in Seq(ParkedId)
    BY <2>1, StripAssumption, StripsStartInTheRow DEF StripInv
  <2>2. QED
    BY <2>1 DEF StripInit, ColumnsAreDistinct
<1>2. ColumnsAreDistinct /\ [StripNext]_stripVars => ColumnsAreDistinct'
  BY StepsKeepTheOrder
<1>3. ColumnsAreDistinct /\ ColumnsAreDistinct' =>
        [\A i, j \in DOMAIN Visible :
           ColumnDropped(i, j) =>
             /\ Visible' = InsertAt(RemoveAt(Visible, i), j, Visible[i])
             /\ OthersThan(Visible[i], columns') = OthersThan(Visible[i], columns)]_stripVars
  BY StripAssumption, DropsLand
<1>4. QED
  BY <1>1, <1>2, <1>3, PTL DEF StripSpec, DropsLandWhereDrawn
-----------------------------------------------------------------------------
(* When nothing scrolls, all strips are at the page.                       *)

\* The places that are drawn can be listed, and the row is what is there.
LEMMA RowsAreListed ==
  ASSUME StripAssumption, NEW cols \in Seq(ParkedId), NEW hide
  PROVE  \E shown : \E n \in Nat : \E e :
           /\ Lists(e, n, shown) /\ AreShown(shown, cols, hide)
           /\ HasTheListed(Drawn(cols, hide), n, e, cols)
<1> DEFINE m == Len(StatusOrder) + Len(cols)
           all == All(cols)
           shown == {k \in DOMAIN all : all[k] \notin hide}
           n == Cardinality(shown)
<1>1. m \in Nat /\ DOMAIN all = 1 .. m
  <2>1. StatusOrder \in Seq(ColumnKey) /\ cols \in Seq(ColumnKey)
    BY DEF StripAssumption, StatusKey, ColumnKey
  <2>2. QED
    BY <2>1 DEF All
<1>2. AreShown(shown, cols, hide)
  BY DEF AreShown
<1>3. shown \in SUBSET (1 .. m)
  BY <1>1
<1> HIDE DEF shown, m
<1>4. n \in Nat /\ \E e : Lists(e, n, shown)
  BY <1>1, <1>3, PlacesAreListed
<1> HIDE DEF n
<1>5. PICK e : Lists(e, n, shown)
  BY <1>4
<1>6. HasTheListed(Drawn(cols, hide), n, e, cols)
  BY <1>2, <1>4, <1>5, DrawnIs
<1>7. QED
  BY <1>2, <1>4, <1>5, <1>6

\* No key is among all columns twice.
LEMMA AllAreDistinct ==
  ASSUME StripAssumption, NEW cols \in Seq(ParkedId), IsInjective(cols),
         NEW m, m = Len(StatusOrder), NEW l, l = Len(cols)
  PROVE  /\ m \in Nat /\ l \in Nat /\ DOMAIN All(cols) = 1 .. m + l
         /\ \A k \in 1 .. m : All(cols)[k] = StatusOrder[k]
         /\ \A k, q \in 1 .. m + l : All(cols)[k] = All(cols)[q] => k = q
<1> DEFINE all == All(cols)
<1>1. /\ m \in Nat /\ l \in Nat /\ StatusOrder \in Seq(StatusKey)
      /\ \A k \in 1 .. m : StatusOrder[k] \notin ParkedId
      /\ \A k \in 1 .. l : cols[k] \in ParkedId
  BY DEF StripAssumption, StatusKey, ParkedId, Range
<1>2. /\ DOMAIN all = 1 .. m + l
      /\ \A k \in 1 .. m + l : all[k] = IF k <= m THEN StatusOrder[k] ELSE cols[k - m]
  <2>1. StatusOrder \in Seq(ColumnKey) /\ cols \in Seq(ColumnKey)
    BY <1>1 DEF ColumnKey
  <2>2. QED
    BY <2>1, ConcatenatedAre DEF All
<1> HIDE DEF all
<1>3. /\ \A k, q \in 1 .. m : StatusOrder[k] = StatusOrder[q] => k = q
      /\ \A k, q \in 1 .. l : cols[k] = cols[q] => k = q
  BY DEF StripAssumption, IsInjective
<1>4. ASSUME NEW k \in 1 .. m + l, NEW q \in 1 .. m + l, all[k] = all[q] PROVE k = q
  <2>1. CASE k <= m /\ q <= m
    BY <1>1, <1>2, <1>3, <1>4, <2>1
  <2>2. CASE k <= m /\ ~(q <= m)
    <3>1. k \in 1 .. m /\ q - m \in 1 .. l
      BY <1>1, <2>2
    <3>2. all[k] = StatusOrder[k] /\ all[q] = cols[q - m]
      BY <1>2, <2>2
    <3>3. QED
      BY <1>1, <1>4, <3>1, <3>2
  <2>3. CASE ~(k <= m) /\ q <= m
    <3>1. q \in 1 .. m /\ k - m \in 1 .. l
      BY <1>1, <2>3
    <3>2. all[q] = StatusOrder[q] /\ all[k] = cols[k - m]
      BY <1>2, <2>3
    <3>3. QED
      BY <1>1, <1>4, <3>1, <3>2
  <2>4. CASE ~(k <= m) /\ ~(q <= m)
    <3>1. k - m \in 1 .. l /\ q - m \in 1 .. l
      BY <1>1, <2>4
    <3>2. all[k] = cols[k - m] /\ all[q] = cols[q - m]
      BY <1>2, <2>4
    <3>3. k - m = q - m
      BY <1>3, <1>4, <3>1, <3>2
    <3>4. QED
      BY <1>1, <3>3
  <2>5. QED
    BY <2>1, <2>2, <2>3, <2>4
<1>5. ASSUME NEW k \in 1 .. m PROVE all[k] = StatusOrder[k]
  BY <1>1, <1>2
<1>6. QED
  BY <1>1, <1>2, <1>4, <1>5 DEF all

\* A drawn column is found where it is, and the row keeps the order of all.
LEMMA RowsAreDistinct ==
  ASSUME StripAssumption, NEW cols \in Seq(ParkedId), IsInjective(cols), NEW hide,
         NEW row, row = Drawn(cols, hide)
  PROVE  /\ \A i \in DOMAIN row : IndexOf(row[i], row) = i
         /\ \A k \in DOMAIN StatusOrder :
              Contains(row, StatusOrder[k]) =>
                (IndexOf(StatusOrder[k], row) = 1
                  \/ \E q \in DOMAIN StatusOrder : q < k /\ Contains(row, StatusOrder[q]))
<1> DEFINE m == Len(StatusOrder)
           l == Len(cols)
           all == All(cols)
<1>1. /\ m \in Nat /\ l \in Nat /\ DOMAIN all = 1 .. m + l
      /\ \A k \in 1 .. m : all[k] = StatusOrder[k]
      /\ \A k, q \in 1 .. m + l : all[k] = all[q] => k = q
  BY AllAreDistinct
<1>2. PICK shown : \E n \in Nat : \E e :
           /\ Lists(e, n, shown) /\ AreShown(shown, cols, hide)
           /\ HasTheListed(row, n, e, cols)
  BY RowsAreListed
<1>3. PICK n \in Nat : \E e :
           /\ Lists(e, n, shown) /\ AreShown(shown, cols, hide)
           /\ HasTheListed(row, n, e, cols)
  BY <1>2
<1>4. PICK e : /\ Lists(e, n, shown) /\ AreShown(shown, cols, hide)
               /\ HasTheListed(row, n, e, cols)
  BY <1>3
<1>5. DOMAIN row = 1 .. n /\ Len(row) = n /\ \A r \in 1 .. n : row[r] = all[e[r]]
  BY <1>4 DEF HasTheListed
<1>6. /\ \A r \in 1 .. n : e[r] \in 1 .. m + l
      /\ \A r, q \in 1 .. n : r < q => e[r] < e[q]
  <2>1. \A k \in shown : k \in 1 .. m + l
    BY <1>1, <1>4 DEF AreShown
  <2>2. QED
    BY <1>4, <2>1 DEF Lists
<1> HIDE DEF all, m, l
<1>7. \A r, q \in 1 .. n : row[r] = row[q] => r = q
  <2> SUFFICES ASSUME NEW r \in 1 .. n, NEW q \in 1 .. n, r # q PROVE row[r] # row[q]
    OBVIOUS
  <2>1. e[r] \in 1 .. m + l /\ e[q] \in 1 .. m + l
    BY <1>6
  <2>2. e[r] < e[q] \/ e[q] < e[r]
    <3>1. r < q \/ q < r
      OBVIOUS
    <3>2. QED
      BY <1>6, <3>1
  <2>3. e[r] # e[q]
    BY <1>1, <2>1, <2>2
  <2>4. QED
    BY <1>1, <1>5, <2>1, <2>3
<1>8. ASSUME NEW i \in 1 .. n PROVE IndexOf(row[i], row) = i
  <2>1. Contains(row, row[i])
    BY <1>5 DEF Contains
  <2>2. \A x \in DOMAIN row : row[x] = row[i] => x = i
    BY <1>5, <1>7
  <2>3. QED
    BY <1>5, <2>1, <2>2 DEF IndexOf
<1>9. ASSUME NEW k \in 1 .. m, Contains(row, StatusOrder[k]),
             \A q \in 1 .. m : q < k => ~Contains(row, StatusOrder[q])
      PROVE  IndexOf(StatusOrder[k], row) = 1
  <2>1. PICK r \in 1 .. n : row[r] = StatusOrder[k]
    BY <1>5, <1>9 DEF Contains
  <2>2. 1 \in 1 .. n
    OBVIOUS
  <2>3. e[r] = k
    <3>1. all[e[r]] = all[k] /\ k \in 1 .. m + l /\ e[r] \in 1 .. m + l
      BY <1>1, <1>5, <1>6, <2>1
    <3>2. QED
      BY <1>1, <3>1
  <2>4. r = 1
    <3> SUFFICES ASSUME r # 1 PROVE FALSE
      OBVIOUS
    <3>1. e[1] < k /\ e[1] \in 1 .. m + l
      <4>1. 1 < r
        OBVIOUS
      <4>2. QED
        BY <1>6, <2>2, <2>3, <4>1
    <3>2. e[1] \in 1 .. m
      BY <1>1, <3>1
    <3>3. row[1] = StatusOrder[e[1]]
      BY <1>1, <1>5, <2>2, <3>2
    <3>4. Contains(row, StatusOrder[e[1]])
      BY <1>5, <2>2, <3>3 DEF Contains
    <3>5. QED
      BY <1>9, <3>1, <3>2, <3>4
  <2>5. QED
    BY <1>8, <2>1, <2>2, <2>4
<1>10. DOMAIN StatusOrder = 1 .. m
  BY DEF StripAssumption, m
<1>11. QED
  BY <1>5, <1>8, <1>9, <1>10

\* A strip is at the page, or on its way there.
AtThePage == \A b \in Band : pos[b] = currentIndex \/ target[b] = currentIndex
AgreeInv == StripInv /\ ColumnsAreDistinct /\ AtThePage

\* The effects see to that, if it holds of a page whose index does not change.
LEMMA FollowingLeadsToThePage ==
  ASSUME NEW key, NEW row, NEW at, NEW bound, Follow(key, row, at, bound), Visible' = row,
         NEW index, index = IndexOf(key, row),
         index = currentIndex /\ Visible # <<>> =>
           \A b \in Band : at[b] = index \/ bound[b] = index
  PROVE  AtThePage'
<1>1. page' = key /\ pos' = at /\ currentIndex' = index
  BY DEF Follow, currentIndex
<1>2. target' = [b \in Band |-> IF (index # currentIndex \/ Visible = <<>>) /\ at[b] # index
                                THEN index ELSE bound[b]]
  BY DEF Follow
<1>3. ASSUME NEW b \in Band PROVE at[b] = index \/ target'[b] = index
  BY <1>2
<1>4. QED
  BY <1>1, <1>3 DEF AtThePage

LEMMA SetRowLeadsToThePage ==
  ASSUME StripAssumption, AgreeInv, NEW cols \in Seq(ParkedId), NEW hide, SetRow(cols, hide)
  PROVE  AtThePage'
<1> DEFINE row == Drawn(cols, hide)
           key == Resting(page, row)
           index == IndexOf(key, row)
           gone == row = <<>> \/ Visible = <<>>
           at == IF gone THEN [b \in Band |-> 1] ELSE Within(pos, row)
           bound == IF gone THEN [b \in Band |-> 1] ELSE Within(target, row)
<1>1. /\ Visible' = row /\ Follow(key, row, at, bound)
  BY DEF SetRow, Visible
<1>2. IsRow(row)
  BY DrawnIsARow
<1>3. index \in PlacesIn(row)
  BY <1>2, IndicesArePlaces
<1>4. pos \in [Band -> Places] /\ target \in [Band -> Places] /\ AtThePage
  BY DEF AgreeInv, StripInv
<1> HIDE DEF row, key, index
<1>5. ASSUME index = currentIndex, Visible # <<>>, NEW b \in Band
      PROVE  at[b] = index \/ bound[b] = index
  <2>1. CASE row = <<>>
    BY <1>3, <2>1 DEF PlacesIn
  <2>2. CASE row # <<>>
    <3>1. index \in 1 .. Len(row) /\ Len(row) \in Nat
      BY <1>2, <1>3, <2>2 DEF IsRow, PlacesIn
    <3>2. pos[b] = index \/ target[b] = index
      BY <1>4, <1>5 DEF AtThePage
    <3>3. ~(index > Len(row))
      BY <3>1
    <3>4. at[b] = (IF pos[b] > Len(row) THEN Len(row) ELSE pos[b])
      BY <1>5, <2>2 DEF Within
    <3>5. bound[b] = (IF target[b] > Len(row) THEN Len(row) ELSE target[b])
      BY <1>5, <2>2 DEF Within
    <3> HIDE DEF at, bound
    <3>6. QED
      BY <3>2, <3>3, <3>4, <3>5
  <2>3. QED
    BY <2>1, <2>2
<1> HIDE DEF at, bound
<1>6. index = IndexOf(key, row)
  BY DEF index
<1>7. QED
  BY <1>1, <1>5, <1>6, FollowingLeadsToThePage

LEMMA TurningLeadsToThePage ==
  ASSUME StripAssumption, AgreeInv, NEW i \in DOMAIN Visible, NEW at, NEW bound,
         Follow(Visible[i], Visible, at, bound), UNCHANGED <<columns, hidden>>,
         i = currentIndex => \A b \in Band : at[b] = i \/ bound[b] = i
  PROVE  AtThePage'
<1>1. Visible' = Visible
  BY DEF Visible
<1>2. i = IndexOf(Visible[i], Visible)
  BY RowsAreDistinct DEF AgreeInv, ColumnsAreDistinct, Visible
<1> DEFINE row == Visible
           key == row[i]
<1>3. Follow(key, row, at, bound) /\ row' = row /\ i = IndexOf(key, row)
  BY <1>1, <1>2
<1>4. QED
  BY <1>1, <1>2, FollowingLeadsToThePage

LEMMA StripsStartAtThePage ==
  ASSUME StripAssumption, StripInit, StripInv, ColumnsAreDistinct
  PROVE  AtThePage
<1> DEFINE first == StatusOrder[1]
           row == Visible
           drawn(k) == Contains(row, StatusOrder[k])
           left == {k \in DOMAIN StatusOrder : k < IndexOf(first, StatusOrder) /\ drawn(k)}
           visible == {k \in DOMAIN StatusOrder : drawn(k)}
           least == CHOOSE k \in visible : \A q \in visible : k <= q
           m == Len(StatusOrder)
<1>1. /\ page = Resting(first, row) /\ pos = [b \in Band |-> 1]
  BY DEF StripInit
<1>2. SUFFICES currentIndex = 1
  BY <1>1 DEF AtThePage
<1>3. /\ m \in Nat /\ m > 0 /\ DOMAIN StatusOrder = 1 .. m
      /\ \A k, q \in 1 .. m : StatusOrder[k] = StatusOrder[q] => k = q
      /\ \A k \in 1 .. m : StatusOrder[k] \in StatusKey
  BY DEF StripAssumption, IsInjective, StatusKey, Range
<1>4. /\ \A i \in DOMAIN row : IndexOf(row[i], row) = i
      /\ \A k \in DOMAIN StatusOrder :
           Contains(row, StatusOrder[k]) =>
             (IndexOf(StatusOrder[k], row) = 1
               \/ \E q \in DOMAIN StatusOrder : q < k /\ Contains(row, StatusOrder[q]))
  BY RowsAreDistinct DEF ColumnsAreDistinct, Visible
<1>5. IsRow(row)
  BY DrawnIsARow DEF ColumnsAreDistinct, Visible
<1> HIDE DEF row
<1>6. currentIndex = IndexOf(page, row)
  BY DEF currentIndex, row
<1>7. CASE row = <<>>
  BY <1>6, <1>7 DEF IndexOf, Contains
<1>8. CASE row # <<>> /\ Contains(row, first)
  <2>1. page = first
    BY <1>1, <1>8 DEF Resting
  <2>2. 1 \in 1 .. m /\ ~\E q \in 1 .. m : q < 1
    BY <1>3
  <2>3. QED
    BY <1>3, <1>4, <1>6, <1>8, <2>1, <2>2
<1>9. CASE row # <<>> /\ ~Contains(row, first)
  <2>1. IndexOf(first, StatusOrder) = 1
    <3>1. 1 \in 1 .. m /\ Contains(StatusOrder, first)
      BY <1>3 DEF Contains
    <3>2. \A x \in DOMAIN StatusOrder : StatusOrder[x] = first => x = 1
      BY <1>3, <3>1
    <3>3. QED
      BY <1>3, <3>1, <3>2 DEF IndexOf
  <2>2. left = {}
    BY <1>3, <2>1
  <2>3. nearestVisibleStatus(first, row)
          = IF visible # {} THEN StatusOrder[least] ELSE Nothing
    BY <2>2 DEF nearestVisibleStatus
  <2>4. first \in StatusKey
    BY <1>3
  <2> HIDE DEF first, left
  <2>5. CASE visible = {}
    <3>1. page = row[1]
      BY <1>1, <1>9, <2>3, <2>4, <2>5 DEF Resting
    <3>2. 1 \in DOMAIN row
      BY <1>5, <1>9 DEF IsRow
    <3>3. QED
      BY <1>4, <1>6, <3>1, <3>2
  <2>6. CASE visible # {}
    <3>1. visible \subseteq Nat
      BY <1>3
    <3>2. least \in visible /\ \A q \in visible : least <= q
      BY <2>6, <3>1, LeastOfNat
    <3>3. least \in 1 .. m /\ Contains(row, StatusOrder[least])
      BY <1>3, <3>2
    <3>4. ~\E q \in 1 .. m : q < least /\ Contains(row, StatusOrder[q])
      <4> SUFFICES ASSUME NEW q \in 1 .. m, q < least, Contains(row, StatusOrder[q])
                   PROVE  FALSE
        OBVIOUS
      <4>1. q \in visible
        BY <1>3
      <4>2. QED
        BY <1>3, <3>2, <3>3, <4>1
    <3>5. IndexOf(StatusOrder[least], row) = 1
      BY <1>3, <1>4, <3>3, <3>4
    <3>6. StatusOrder[least] # Nothing
      BY <1>3, <3>3 DEF StripAssumption, StatusKey, Nothing
    <3>7. page = StatusOrder[least]
      BY <1>1, <1>9, <2>3, <2>4, <2>6, <3>6 DEF Resting
    <3>8. QED
      BY <1>6, <3>5, <3>7
  <2>7. QED
    BY <2>5, <2>6
<1>10. QED
  BY <1>7, <1>8, <1>9

LEMMA StepsLeadToThePage ==
  ASSUME StripAssumption, AgreeInv, ColumnsAreDistinct', [StripNext]_stripVars
  PROVE  AtThePage'
<1>1. ASSUME NEW cols, NEW hide, SetRow(cols, hide) PROVE AtThePage'
  <2>1. columns' = cols
    BY <1>1 DEF SetRow
  <2>2. cols \in Seq(ParkedId)
    BY <2>1 DEF ColumnsAreDistinct
  <2>3. QED
    BY <1>1, <2>2, SetRowLeadsToThePage
<1>2. /\ pos \in [Band -> Places] /\ target \in [Band -> Places]
      /\ \A b \in Band : pos[b] = currentIndex \/ target[b] = currentIndex
  BY DEF AgreeInv, StripInv, AtThePage
<1>3. IsRow(Visible)
  BY DrawnIsARow DEF AgreeInv, StripInv, Visible
<1>4. ASSUME NEW key, Toggle(key) PROVE AtThePage'
  BY <1>1, <1>4 DEF Toggle
<1>5. ASSUME NEW id, CreateColumn(id) PROVE AtThePage'
  BY <1>1, <1>5 DEF CreateColumn
<1>6. ASSUME NEW id, RemoveColumn(id) PROVE AtThePage'
  BY <1>1, <1>6 DEF RemoveColumn
<1>7. ASSUME NEW id, NEW step, MoveColumn(id, step) PROVE AtThePage'
  BY <1>1, <1>7 DEF MoveColumn
<1>8. ASSUME NEW i, NEW j, ColumnDropped(i, j) PROVE AtThePage'
  BY <1>1, <1>8 DEF ColumnDropped
<1>9. ASSUME NEW i, selectStatus(i) PROVE AtThePage'
  <2> DEFINE bound == IF Grouped THEN target ELSE [b \in Band |-> i]
  <2>1. /\ i \in DOMAIN Visible /\ UNCHANGED <<columns, hidden>>
        /\ Follow(Visible[i], Visible, pos, bound)
    BY <1>9 DEF selectStatus
  <2>2. i = currentIndex => \A b \in Band : pos[b] = i \/ bound[b] = i
    BY <1>2
  <2> HIDE DEF bound
  <2>3. QED
    BY <2>1, <2>2, TurningLeadsToThePage
<1>10. ASSUME NEW b \in Band, NEW i, Swipe(b, i) PROVE AtThePage'
  <2> DEFINE at == [pos EXCEPT ![b] = i]
             bound == [target EXCEPT ![b] = i]
  <2>1. at[b] = i /\ \A c \in Band \ {b} : at[c] = pos[c] /\ bound[c] = target[c]
    BY <1>2
  <2>2. /\ i \in DOMAIN Visible /\ UNCHANGED <<columns, hidden>>
        /\ Follow(Visible[at[b]], Visible, at, bound)
    BY <1>10 DEF Swipe, onStripScroll
  <2> HIDE DEF at, bound
  <2>3. Follow(Visible[i], Visible, at, bound)
    BY <2>1, <2>2
  <2>4. i = currentIndex => \A c \in Band : at[c] = i \/ bound[c] = i
    BY <1>2, <2>1
  <2>5. QED
    BY <2>2, <2>3, <2>4, TurningLeadsToThePage
<1>11. ASSUME NEW b \in Band, ScrollBegins(b) PROVE AtThePage'
  <2> DEFINE i == pos[b]
  <2>1. /\ Visible # <<>> /\ UNCHANGED <<columns, hidden>>
        /\ Follow(Visible[i], Visible, pos, target)
    BY <1>11 DEF ScrollBegins, onStripScroll
  <2>2. i \in DOMAIN Visible
    BY <1>2, <2>1 DEF Places
  <2>3. i = currentIndex => \A c \in Band : pos[c] = i \/ target[c] = i
    BY <1>2
  <2> HIDE DEF i
  <2>4. QED
    BY <2>1, <2>2, <2>3, TurningLeadsToThePage
<1>12. ASSUME NEW b \in Band, Scrolls(b) PROVE AtThePage'
  <2> DEFINE i == IF pos[b] < target[b] THEN pos[b] + 1 ELSE pos[b] - 1
             at == [pos EXCEPT ![b] = i]
  <2>1. /\ Visible # <<>> /\ UNCHANGED <<columns, hidden>> /\ pos[b] # target[b]
        /\ Follow(Visible[at[b]], Visible, at, target)
    BY <1>12 DEF Scrolls, onStripScroll
  <2>2. /\ pos[b] \in DOMAIN Visible /\ target[b] \in DOMAIN Visible
    BY <1>2, <2>1 DEF Places
  <2>3. i \in DOMAIN Visible
    BY <1>3, <2>1, <2>2 DEF IsRow
  <2> HIDE DEF i
  <2>4. at[b] = i /\ \A c \in Band \ {b} : at[c] = pos[c]
    BY <1>2
  <2> HIDE DEF at
  <2>5. Follow(Visible[i], Visible, at, target)
    BY <2>1, <2>4
  <2>6. i = currentIndex => \A c \in Band : at[c] = i \/ target[c] = i
    BY <1>2, <2>4
  <2>7. QED
    BY <2>1, <2>3, <2>5, <2>6, TurningLeadsToThePage
<1>13. CASE UNCHANGED stripVars
  BY <1>2, <1>13 DEF stripVars, AtThePage, currentIndex, Visible
<1>14. QED
  BY <1>4, <1>5, <1>6, <1>7, <1>8, <1>9, <1>10, <1>11, <1>12, <1>13 DEF StripNext

LEMMA StripsLeadToThePage == StripSpec => []AgreeInv
<1>1. StripInit => AgreeInv
  <2> SUFFICES ASSUME StripInit PROVE AgreeInv
    OBVIOUS
  <2>1. StripInv
    BY StripAssumption, StripsStartInTheRow
  <2>2. ColumnsAreDistinct
    BY <2>1 DEF StripInv, StripInit, ColumnsAreDistinct
  <2>3. QED
    BY StripAssumption, <2>1, <2>2, StripsStartAtThePage DEF AgreeInv
<1>2. AgreeInv /\ [StripNext]_stripVars => AgreeInv'
  <2> SUFFICES ASSUME AgreeInv, [StripNext]_stripVars PROVE AgreeInv'
    OBVIOUS
  <2>1. StripInv'
    BY StripAssumption, StepsKeepTheStrip DEF AgreeInv
  <2>2. ColumnsAreDistinct'
    BY StepsKeepTheOrder DEF AgreeInv
  <2>3. AtThePage'
    BY StripAssumption, <2>2, StepsLeadToThePage
  <2>4. QED
    BY <2>1, <2>2, <2>3 DEF AgreeInv
<1>3. QED
  BY <1>1, <1>2, PTL DEF StripSpec

LEMMA AtRestTheyAgree == ASSUME AgreeInv PROVE StripsAgreeAtRest
<1> SUFFICES ASSUME Visible # <<>>, pos = target, NEW b \in Band
             PROVE  Visible[pos[b]] = page
  BY DEF StripsAgreeAtRest
<1>1. pos[b] = currentIndex /\ Contains(Visible, page)
  BY DEF AgreeInv, AtThePage, StripInv, PageIsDrawn
<1>2. \E i \in DOMAIN Visible : Visible[i] = page
  BY <1>1 DEF Contains
<1>3. Visible[currentIndex] = page
  BY <1>1, <1>2 DEF currentIndex, IndexOf
<1>4. QED
  BY <1>1, <1>3

\* Once no strip scrolls, all of them show the column that the switcher names,
\* however many bands have chased one another (the effect on currentIndex, board.ts).
THEOREM StripsAgree == StripSpec => []StripsAgreeAtRest
<1>1. AgreeInv => StripsAgreeAtRest
  BY AtRestTheyAgree
<1>2. QED
  BY <1>1, StripsLeadToThePage, PTL

-----------------------------------------------------------------------------
(* What the liveness of BoardStrip rests on: the strip of a board without  *)
(* swimlanes.                                                              *)

\* What was chosen is drawn, and the strip is bound for it.
ChoiceIsAhead ==
  wanted # Nothing => Visible # <<>> /\ \A b \in Band : Visible[target[b]] = wanted

ChoiceIsShownAtRest ==
  wanted # Nothing /\ pos = target => page = wanted /\ \A b \in Band : Visible[pos[b]] = wanted

\* How many pages a strip has to go.
ToGo(b) == IF pos[b] < target[b] THEN target[b] - pos[b] ELSE pos[b] - target[b]

\* As long as the choice stands, no step leads away from it, and every event
\* that comes to the next page leads one page nearer.
Nears(b) ==
  wanted # Nothing /\ wanted' = wanted =>
    /\ target'[b] = target[b]
    /\ ToGo(b)' <= ToGo(b)
    /\ Scrolls(b) => ToGo(b)' = ToGo(b) - 1
Nearing == \A b \in Band : Nears(b)
ChoicesComeNearer == [][Nearing]_stripVars

Chosen == AgreeInv /\ ChoiceIsAhead

\* A scroll event of the only strip names the page it is at, so it sends the
\* strip nowhere (onStripScroll, the effect on currentIndex).
LEMMA OnlyStripKeepsItsWay ==
  ASSUME StripAssumption, AgreeInv, NEW b, Band = {b}, NEW at, NEW bound,
         at \in [Band -> DOMAIN Visible], bound \in [Band -> DOMAIN Visible],
         onStripScroll(b, at, bound)
  PROVE  pos' = at /\ target' = bound
<1>1. IndexOf(Visible[at[b]], Visible) = at[b]
  BY RowsAreDistinct DEF AgreeInv, ColumnsAreDistinct, Visible
<1>2. pos' = at /\ target' = [c \in Band |-> bound[c]]
  BY <1>1 DEF onStripScroll, Follow
<1>3. QED
  BY <1>2

LEMMA StepsFollowTheChoice ==
  ASSUME StripAssumption, Chosen, NEW b, Band = {b}, ~Grouped, [StripNext]_stripVars
  PROVE  ChoiceIsAhead' /\ Nears(b)
<1> DEFINE Goal == ChoiceIsAhead' /\ Nears(b)
<1>0. SUFFICES Goal
  OBVIOUS
<1>1. /\ pos \in [Band -> Places] /\ target \in [Band -> Places]
      /\ IsRow(Visible)
      /\ \A i \in DOMAIN Visible : IndexOf(Visible[i], Visible) = i
  BY DrawnIsARow, RowsAreDistinct DEF Chosen, AgreeInv, StripInv, ColumnsAreDistinct, Visible
<1>2. pos[b] \in Int /\ target[b] \in Int
  BY <1>1 DEF Places, IsRow
\* Two columns of the row are the same only in the same place.
<1>3. \A i, j \in DOMAIN Visible : Visible[i] = Visible[j] => i = j
  BY <1>1
\* What a scroll event, a swipe and a tap have in common.
<1>4. ASSUME NEW i \in DOMAIN Visible, target' = [c \in Band |-> i], wanted' = Visible[i],
             UNCHANGED <<columns, hidden>>, pos' = pos \/ pos' = target', ~Scrolls(b)
      PROVE  Goal
  <2>1. Visible' = Visible /\ target'[b] = i /\ i \in Int
    BY <1>1, <1>4 DEF Visible, IsRow
  <2>2. ChoiceIsAhead'
    BY <1>4, <2>1 DEF ChoiceIsAhead
  <2>3. ASSUME wanted # Nothing, wanted' = wanted
        PROVE  target[b] = i /\ ToGo(b)' <= ToGo(b)
    <3>1. Visible # <<>> /\ Visible[target[b]] = Visible[i]
      BY <1>4, <2>3 DEF Chosen, ChoiceIsAhead
    <3>2. target[b] = i
      BY <1>1, <1>3, <3>1 DEF Places
    <3>3. pos'[b] = pos[b] \/ pos'[b] = i
      BY <1>4
    <3>4. QED
      BY <1>2, <2>1, <3>2, <3>3 DEF ToGo
  <2>4. QED
    BY <1>4, <2>1, <2>2, <2>3 DEF Nears
<1>5. ASSUME wanted' = Nothing PROVE Goal
  BY <1>5 DEF ChoiceIsAhead, Nears
<1>6. ASSUME NEW i, selectStatus(i) PROVE Goal
  <2>1. /\ i \in DOMAIN Visible /\ wanted' = Visible[i] /\ pos' = pos
        /\ UNCHANGED <<columns, hidden>>
    BY <1>6 DEF selectStatus, Follow
  <2>2. target' = [c \in Band |-> i]
    <3>1. IndexOf(Visible[i], Visible) = i
      BY <1>1, <2>1
    <3>2. QED
      BY <1>6, <3>1 DEF selectStatus, Follow
  <2>3. CASE ~Scrolls(b)
    BY <1>4, <2>1, <2>2, <2>3
  <2>4. CASE Scrolls(b)
    <3>1. pos[b] # target[b] /\ pos'[b] # pos[b]
      <4> DEFINE at == [pos EXCEPT ![b] = IF pos[b] < target[b] THEN pos[b] + 1 ELSE pos[b] - 1]
      <4>1. pos' = at
        BY <2>4 DEF Scrolls, onStripScroll, Follow
      <4>2. pos[b] # target[b]
        BY <2>4 DEF Scrolls
      <4>3. pos'[b] = IF pos[b] < target[b] THEN pos[b] + 1 ELSE pos[b] - 1
        BY <1>1, <4>1
      <4>4. QED
        BY <1>2, <4>2, <4>3
    <3>2. QED
      BY <2>1, <3>1
  <2>5. QED
    BY <2>3, <2>4
<1>7. ASSUME NEW i, Swipe(b, i) PROVE Goal
  <2> DEFINE at == [pos EXCEPT ![b] = i]
             bound == [target EXCEPT ![b] = i]
  <2>1. /\ i \in DOMAIN Visible /\ wanted' = Visible[i] /\ UNCHANGED <<columns, hidden>>
        /\ onStripScroll(b, at, bound)
    BY <1>7 DEF Swipe
  <2>2. Visible # <<>>
    BY <1>1, <2>1 DEF IsRow
  <2>3. at \in [Band -> DOMAIN Visible] /\ bound \in [Band -> DOMAIN Visible]
    BY <1>1, <2>1, <2>2 DEF Places
  <2>4. pos' = at /\ target' = bound
    BY <2>1, <2>3, OnlyStripKeepsItsWay DEF Chosen
  <2>5. target' = [c \in Band |-> i] /\ pos' = target'
    BY <1>1, <2>4
  <2>6. CASE ~Scrolls(b)
    BY <1>4, <2>1, <2>5, <2>6
  <2>7. CASE Scrolls(b)
    <3>1. Visible' = Visible /\ target'[b] = i
      BY <2>1, <2>5 DEF Visible
    <3>2. UNCHANGED wanted
      BY <2>7 DEF Scrolls
    <3>3. ChoiceIsAhead'
      BY <2>1, <2>2, <2>5, <3>1 DEF ChoiceIsAhead
    <3>4. ASSUME wanted # Nothing PROVE i = target[b] /\ ToGo(b)' <= ToGo(b) /\ ToGo(b)' = ToGo(b) - 1
      <4>1. Visible[target[b]] = Visible[i]
        BY <2>1, <3>2, <3>4 DEF Chosen, ChoiceIsAhead
      <4>2. i = target[b] /\ pos'[b] = i
        BY <1>1, <1>3, <2>1, <2>2, <2>5, <3>1, <4>1 DEF Places
      <4>3. pos[b] # target[b]
        BY <2>7 DEF Scrolls
      <4>4. i = pos[b] - 1 \/ i = pos[b] + 1
        BY <1>7 DEF Swipe
      <4>5. QED
        BY <1>2, <3>1, <4>2, <4>3, <4>4 DEF ToGo
    <3>5. QED
      BY <3>1, <3>3, <3>4 DEF Nears
  <2>8. QED
    BY <2>6, <2>7
<1>8. ASSUME ScrollBegins(b), ~Scrolls(b) PROVE Goal
  <2>1. Visible # <<>> /\ onStripScroll(b, pos, target) /\ UNCHANGED <<columns, hidden, wanted>>
    BY <1>8 DEF ScrollBegins
  <2>2. pos' = pos /\ target' = target /\ Visible' = Visible
    BY <1>1, <2>1, OnlyStripKeepsItsWay DEF Chosen, Places, Visible
  <2>3. QED
    BY <1>2, <1>8, <2>1, <2>2 DEF Chosen, ChoiceIsAhead, Nears, ToGo
<1>9. ASSUME Scrolls(b) PROVE Goal
  <2> DEFINE i == IF pos[b] < target[b] THEN pos[b] + 1 ELSE pos[b] - 1
             at == [pos EXCEPT ![b] = i]
  <2>1. /\ Visible # <<>> /\ pos[b] # target[b] /\ UNCHANGED <<columns, hidden, wanted>>
        /\ onStripScroll(b, at, target)
    BY <1>9 DEF Scrolls
  <2>2. pos[b] \in DOMAIN Visible /\ target[b] \in DOMAIN Visible
    BY <1>1, <2>1 DEF Places
  <2>3. i \in DOMAIN Visible
    BY <1>1, <2>1, <2>2 DEF IsRow
  <2>4. at \in [Band -> DOMAIN Visible] /\ target \in [Band -> DOMAIN Visible]
    BY <1>1, <2>1, <2>3 DEF Places
  <2>5. pos' = at /\ target' = target /\ Visible' = Visible
    BY <2>1, <2>4, OnlyStripKeepsItsWay DEF Chosen, Visible
  <2>6. pos'[b] = i /\ target'[b] = target[b]
    BY <1>1, <2>5
  <2>7. ToGo(b)' = ToGo(b) - 1 /\ ToGo(b)' <= ToGo(b)
    BY <1>2, <2>1, <2>6 DEF ToGo
  <2>8. QED
    BY <2>1, <2>5, <2>6, <2>7 DEF Chosen, ChoiceIsAhead, Nears
<1>10. ASSUME NEW cols, NEW hide, SetRow(cols, hide) PROVE Goal
  BY <1>5, <1>10 DEF SetRow
<1>11. CASE UNCHANGED stripVars
  <2>1. ~Scrolls(b)
    <3> SUFFICES ASSUME Scrolls(b) PROVE FALSE
      OBVIOUS
    <3>1. pos' = [pos EXCEPT ![b] = IF pos[b] < target[b] THEN pos[b] + 1 ELSE pos[b] - 1]
      BY DEF Scrolls, onStripScroll, Follow
    <3>2. pos'[b] # pos[b]
      BY <1>1, <1>2, <3>1
    <3>3. QED
      BY <1>11, <3>2 DEF stripVars
  <2>2. QED
    BY <1>2, <1>11, <2>1 DEF stripVars, Chosen, ChoiceIsAhead, Nears, ToGo, Visible
<1>12. QED
  <2> HIDE DEF Goal
  <2>1. (\E key : Toggle(key)) \/ (\E id : CreateColumn(id) \/ RemoveColumn(id))
          \/ (\E id, step : MoveColumn(id, step)) \/ (\E i, j : ColumnDropped(i, j)) => Goal
    BY <1>10 DEF Toggle, CreateColumn, RemoveColumn, MoveColumn, ColumnDropped
  <2>2. QED
    BY <1>6, <1>7, <1>8, <1>9, <1>11, <2>1 DEF StripNext

\* On a board without swimlanes, the strip is bound for the column that was
\* tapped or swiped to until the row changes or another is chosen, comes
\* nearer by each page it passes, and shows it when it rests: the safety half
\* of ChoiceIsReached (selectStatus, onStripScroll of board.ts).
THEOREM ChoicesAreAhead ==
  ASSUME NEW b, Band = {b}, ~Grouped
  PROVE  StripSpec => []ChoiceIsShownAtRest /\ ChoicesComeNearer
<1>1. StripSpec => []AgreeInv
  BY StripsLeadToThePage
<1>2. StripInit => ChoiceIsAhead
  BY DEF StripInit, ChoiceIsAhead
<1>3. AgreeInv /\ ChoiceIsAhead /\ [StripNext]_stripVars => ChoiceIsAhead'
  BY StripAssumption, StepsFollowTheChoice DEF Chosen
<1>4. AgreeInv /\ ChoiceIsAhead /\ [StripNext]_stripVars => Nearing
  BY StripAssumption, StepsFollowTheChoice DEF Chosen, Nearing
<1>5. AgreeInv /\ ChoiceIsAhead => ChoiceIsShownAtRest
  BY AtRestTheyAgree DEF ChoiceIsAhead, ChoiceIsShownAtRest, StripsAgreeAtRest
<1>6. QED
  BY <1>1, <1>2, <1>3, <1>4, <1>5, PTL DEF StripSpec, ChoicesComeNearer
=============================================================================
