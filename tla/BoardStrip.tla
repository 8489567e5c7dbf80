----------------------------- MODULE BoardStrip -----------------------------
(***************************************************************************)
(* The row of columns the board draws, and its pager on a narrow screen:   *)
(* Board (apps/web/src/app/board/board.ts), Swimlane (swimlane.ts), the    *)
(* status switcher, the header menu and the column drag of Column          *)
(* (column.ts).                                                            *)
(*                                                                         *)
(* Each strip shows one column at a time.  Its position is what scrollLeft *)
(* rounds to; a smooth scroll takes it there page by page and fires scroll *)
(* events on the way.  currentKey follows the events, and the strips       *)
(* follow currentKey: an effect compares the two when the current index    *)
(* changes, and the browser runs it before the next frame.  The board has  *)
(* one strip, or with swimlanes one in each band.                          *)
(*                                                                         *)
(* Indices start at 1 here, at 0 in the code.  A column is dragged on a    *)
(* wide screen only; what it does to the strips is seen when the screen is *)
(* narrow again.                                                           *)
(***************************************************************************)
EXTENDS Integers, Sequences, SequencesExt

CONSTANTS
  StatusOrder,  \* STATUS_COLUMN_ORDER
  MaxParked,   \* bound: parked columns
  Band,         \* the strips: one, or one for each swimlane
  Grouped       \* whether there are swimlanes

ASSUME StripAssumption ==
  /\ MaxParked \in Nat /\ Grouped \in BOOLEAN
  /\ StatusOrder \in Seq(Range(StatusOrder)) /\ Len(StatusOrder) > 0
  /\ IsInjective(StatusOrder) /\ Range(StatusOrder) \cap Nat = {}

VARIABLES
  columns,  \* ids of the parked columns, left to right
  hidden,   \* hiddenColumns of the filters
  page,     \* currentKey
  pos,      \* where each strip is
  target,   \* where its smooth scroll is bound for
  wanted    \* the column tapped or swiped to, until the row changes

stripVars == <<columns, hidden, page, pos, target, wanted>>

ParkedId == 1 .. MaxParked
StatusKey == Range(StatusOrder)
ColumnKey == StatusKey \cup ParkedId
Nothing == 0

\* The columns that are drawn: statuses first, then the operator's own.
Drawn(cols, hide) ==
  LET all   == StatusOrder \o cols
      shown == {i \in DOMAIN all : all[i] \notin hide}
  IN [n \in 1 .. Cardinality(shown) |->
        all[CHOOSE i \in shown : Cardinality(shown \cap (1 .. i)) = n]]
Visible == Drawn(columns, hidden)

IndexOf(key, row) == IF Contains(row, key) THEN CHOOSE i \in DOMAIN row : row[i] = key ELSE 1
currentIndex == IndexOf(page, Visible)

StripTypeOK ==
  /\ columns \in Seq(ParkedId) /\ IsInjective(columns)
  /\ hidden \subseteq ColumnKey
  /\ page \in ColumnKey
  /\ pos \in [Band -> 1 .. Len(StatusOrder) + MaxParked]
  /\ target \in [Band -> 1 .. Len(StatusOrder) + MaxParked]
  /\ wanted \in ColumnKey \cup {Nothing}

(* Where the pager rests when the row changes: where it is, if that column *)
(* is drawn; else at the nearest status to the left; else at the first.    *)
nearestVisibleStatus(status, row) ==
  LET left == {i \in DOMAIN StatusOrder : /\ i < IndexOf(status, StatusOrder)
                                          /\ Contains(row, StatusOrder[i])}
      visible == {i \in DOMAIN StatusOrder : Contains(row, StatusOrder[i])}
  IN IF left # {} THEN StatusOrder[CHOOSE i \in left : \A j \in left : j <= i]
     ELSE IF visible # {} THEN StatusOrder[CHOOSE i \in visible : \A j \in visible : i <= j]
     ELSE Nothing

\* Mutant: a status that is hidden keeps the page.
RestingOnHidden(key, row) ==
  IF row = <<>> \/ Contains(row, key) \/ key \in StatusKey THEN key ELSE row[1]

Resting(key, row) ==
  IF row = <<>> \/ Contains(row, key) THEN key
  ELSE LET status == IF key \in StatusKey THEN nearestVisibleStatus(key, row) ELSE Nothing
       IN IF status # Nothing THEN status ELSE row[1]

StripInit ==
  /\ columns \in {cols \in UNION {[1 .. n -> ParkedId] : n \in 0 .. MaxParked} : IsInjective(cols)}
  /\ hidden \in SUBSET ColumnKey
  /\ page = Resting(StatusOrder[1], Visible)
  /\ pos = [b \in Band |-> 1] /\ target = [b \in Band |-> 1]
  /\ wanted = Nothing

-----------------------------------------------------------------------------

\* Mutant: the effect does not ask where a strip is.
FollowBlindly(key, row, at, bound) ==
  LET index == IndexOf(key, row)
  IN /\ page' = key
     /\ pos' = at
     /\ target' = [b \in Band |-> IF index # currentIndex THEN index ELSE bound[b]]

(* What the effects make of a new page or a new row: a strip that is not   *)
(* at the current index scrolls there, if the index is another than before *)
(* or the strip is new.                                                    *)
Follow(key, row, at, bound) ==
  LET index == IndexOf(key, row)
      runs == index # currentIndex \/ Visible = <<>>
  IN /\ page' = key
     /\ pos' = at
     /\ target' = [b \in Band |-> IF runs /\ at[b] # index THEN index ELSE bound[b]]

\* The browser keeps a strip within the columns it has.
Within(at, row) == [b \in Band |-> IF row = <<>> THEN 1
                                   ELSE IF at[b] > Len(row) THEN Len(row) ELSE at[b]]

\* Mutant: the pager keeps its index, not its column.
SetRowByIndex(cols, hide) ==
  LET row == Drawn(cols, hide)
      key == IF currentIndex \in DOMAIN row THEN row[currentIndex] ELSE Resting(page, row)
  IN /\ columns' = cols /\ hidden' = hide /\ wanted' = Nothing
     /\ Follow(key, row, Within(pos, row), Within(target, row))

SetRow(cols, hide) ==
  LET row == Drawn(cols, hide)
      gone == row = <<>> \/ Visible = <<>>
  IN /\ columns' = cols /\ hidden' = hide /\ wanted' = Nothing
     /\ Follow(Resting(page, row), row,
               IF gone THEN [b \in Band |-> 1] ELSE Within(pos, row),
               IF gone THEN [b \in Band |-> 1] ELSE Within(target, row))

Toggle(key) ==
  /\ key \in StatusKey \cup Range(columns)
  /\ SetRow(columns, IF key \in hidden THEN hidden \ {key} ELSE hidden \cup {key})

CreateColumn(id) ==
  /\ id \notin Range(columns)
  /\ SetRow(Append(columns, id), hidden \ {id})

\* The menu of a column is in its header.
RemoveColumn(id) ==
  /\ id \in Range(columns) \ hidden
  /\ SetRow(RemoveAt(columns, IndexOf(id, columns)), hidden)

\* Mutant: the distance in the drawn row, without what is hidden between.
reorderDeltaDrawn(order, id, neighbour) == IndexOf(neighbour, Visible) - IndexOf(id, Visible)

reorderDelta(order, id, neighbour) ==
  IF Contains(order, id) /\ Contains(order, neighbour)
  THEN IndexOf(neighbour, order) - IndexOf(id, order) ELSE 0

Moved(order, id, delta) ==
  LET from == IndexOf(id, order)
  IN InsertAt(RemoveAt(order, from), from + delta, id)

\* The next column in a direction that is not hidden, Nothing if there is none.
visibleNeighbour(id, step) ==
  LET from == IndexOf(id, columns)
      beyond == {i \in DOMAIN columns : columns[i] \notin hidden /\ (i - from) * step > 0}
  IN IF beyond = {} THEN Nothing
     ELSE columns[CHOOSE i \in beyond : \A j \in beyond : (i - from) * step <= (j - from) * step]

\* `move column left' and `move column right' of the header menu.
MoveColumn(id, step) ==
  /\ id \in Range(columns) \ hidden
  /\ visibleNeighbour(id, step) # Nothing
  /\ SetRow(Moved(columns, id, reorderDelta(columns, id, visibleNeighbour(id, step))), hidden)

(* A column dragged from one place of the drawn row to another: it takes   *)
(* the place of the one it is dropped on, in the order of all of them.     *)
\* Never left of the first parked column.
columnSortPredicate(to) == Visible[to] \in ParkedId

ColumnDropped(from, to) ==
  /\ Len(columns) > 1
  /\ from \in DOMAIN Visible /\ to \in DOMAIN Visible /\ from # to
  /\ Visible[from] \in ParkedId /\ columnSortPredicate(to)
  /\ SetRow(Moved(columns, Visible[from], reorderDelta(columns, Visible[from], Visible[to])), hidden)

-----------------------------------------------------------------------------
(* The pager.                                                              *)

(* A segment of the switcher: by a tap, or with the arrow keys.  The       *)
(* board's own strip is sent there in any case; the bands follow the page. *)
selectStatus(i) ==
  /\ i \in DOMAIN Visible
  /\ wanted' = Visible[i]
  /\ Follow(Visible[i], Visible, pos, IF Grouped THEN target ELSE [b \in Band |-> i])
  /\ UNCHANGED <<columns, hidden>>

\* A scroll event of a strip, at `at': the page follows it, the others follow the page.
onStripScroll(b, at, bound) == Follow(Visible[at[b]], Visible, at, bound)

\* A finger takes the strip to the next column; it stops a scroll under way.
Swipe(b, i) ==
  /\ i \in DOMAIN Visible /\ i \in {pos[b] - 1, pos[b] + 1}
  /\ onStripScroll(b, [pos EXCEPT ![b] = i], [target EXCEPT ![b] = i])
  /\ wanted' = Visible[i]
  /\ UNCHANGED <<columns, hidden>>

\* An event of a smooth scroll that has not come half a page far.
ScrollBegins(b) ==
  /\ Visible # <<>> /\ pos[b] # target[b] /\ page # Visible[pos[b]]
  /\ onStripScroll(b, pos, target)
  /\ UNCHANGED <<columns, hidden, wanted>>

\* An event of one that has come to the next page.
Scrolls(b) ==
  /\ Visible # <<>> /\ pos[b] # target[b]
  /\ LET i == IF pos[b] < target[b] THEN pos[b] + 1 ELSE pos[b] - 1
     IN onStripScroll(b, [pos EXCEPT ![b] = i], target)
  /\ UNCHANGED <<columns, hidden, wanted>>

StripNext ==
  \/ \E key \in ColumnKey : Toggle(key)
  \/ \E id \in ParkedId : CreateColumn(id) \/ RemoveColumn(id)
  \/ \E id \in ParkedId, step \in {-1, 1} : MoveColumn(id, step)
  \/ \E i, j \in 1 .. Len(StatusOrder) + MaxParked : ColumnDropped(i, j)
  \/ \E i \in 1 .. Len(StatusOrder) + MaxParked : selectStatus(i)
  \/ \E b \in Band, i \in 1 .. Len(StatusOrder) + MaxParked : Swipe(b, i)
  \/ \E b \in Band : ScrollBegins(b)
  \/ \E b \in Band : Scrolls(b)

\* A smooth scroll that is under way goes on.
Fairness == \A b \in Band : WF_stripVars(Scrolls(b))

StripSpec == StripInit /\ [][StripNext]_stripVars /\ Fairness

-----------------------------------------------------------------------------
(* The pager rests on a column that is drawn, if any is.                   *)
PageIsDrawn == Visible # <<>> => Contains(Visible, page)

\* What that rests on: a strip is at one of the columns that are drawn, and
\* bound for one.
Places == IF Visible = <<>> THEN {1} ELSE DOMAIN Visible
StripInv ==
  /\ columns \in Seq(ParkedId)
  /\ pos \in [Band -> Places] /\ target \in [Band -> Places]
  /\ PageIsDrawn

(* When nothing scrolls, every strip shows the column that the switcher    *)
(* names: "one state, two views" (board.ts, the pager).                    *)
StripsAgreeAtRest ==
  (Visible # <<>> /\ pos = target) => \A b \in Band : Visible[pos[b]] = page

(* A column that is hidden, shown, moved, added or removed elsewhere does  *)
(* not turn the page: only where the page itself is gone is another shown. *)
RowChangesKeepThePage ==
  [][<<columns, hidden>>' # <<columns, hidden>> /\ Contains(Visible', page) => page' = page]_stripVars

(* A column that is dropped comes to lie where it was dropped, among those *)
(* that are drawn, and all others, the hidden ones too, keep their order.  *)
OthersThan(key, order) == RemoveAt(order, IndexOf(key, order))
DropsLandWhereDrawn ==
  [][\A i, j \in DOMAIN Visible :
       ColumnDropped(i, j) =>
         /\ Visible' = InsertAt(RemoveAt(Visible, i), j, Visible[i])
         /\ OthersThan(Visible[i], columns') = OthersThan(Visible[i], columns)]_stripVars

(* The column that is tapped in the switcher, or swiped to, is the one     *)
(* that every strip comes to show, though the scroll events on the way     *)
(* name others, unless the operator does something else first.             *)
ChoiceIsReached ==
  \A key \in ColumnKey :
    wanted = key ~> (wanted # key \/ (page = key /\ \A b \in Band : Visible[pos[b]] = key))

(* Once the operator lets go, the strips come to rest: "every band pages   *)
(* together, so scrolling down the board never lands on a band showing a   *)
(* different column" (swimlane.ts, selectedIndex).                         *)
(* Not so in the code; the README says where (Disagreements).              *)
StripsComeToRest ==
  <>[][\E b \in Band : ScrollBegins(b) \/ Scrolls(b)]_stripVars => <>[](pos = target)
=============================================================================
