---------------------------- MODULE ParkedColumns ----------------------------
(***************************************************************************)
(* The operator's own columns: ParkedStore (state/parked.store.ts) with    *)
(* the filters of PanesStore (state/panes.store.ts) that hide columns, in  *)
(* windows of one browser that share its localStorage.                     *)
(*                                                                         *)
(* Each store is a signal and effects that save it; PanesStore has one     *)
(* more, which prunes the filter keys of columns that are gone.  An        *)
(* effect runs some time after the change that scheduled it, and the page  *)
(* may be reloaded, or die, between two effects.  The operator acts on a   *)
(* page whose effects have run: they take no more than a frame.  Events    *)
(* of the bridge are not so patient.                                       *)
(*                                                                         *)
(* Names are left out.  The filter key `parked:pn' is the number n.        *)
(***************************************************************************)
EXTENDS BoardColumns, Integers, FiniteSetsExt

CONSTANTS
  Window,
  Active,       \* the statuses an agent is active in: working, blocked
  MaxColumns,   \* bound: parked columns of a board
  MaxStored,    \* bound: columns of the document that is stored at first
  MaxBorn       \* bound: columns created in a behaviour

ASSUME ColumnsAssumption ==
  Active \subseteq Status /\ {MaxColumns, MaxStored, MaxBorn} \subseteq Nat

VARIABLES
  card,      \* panesSignal: the status each window shows of a pane
  parked,    \* ParkedStore.state: the columns, and membership
  filters,   \* filtersSignal
  dirty,     \* the effects that are scheduled
  disk,      \* localStorage: kanhrd.parked-columns and kanhrd.filters
  born,      \* columns created so far
  chosen,    \* the columns that the operator has hidden at some time
  excused    \* cards that became active unseen by the exit rule

vars == <<card, parked, filters, dirty, disk, born, chosen, excused>>

Id == 1 .. MaxColumns
Key == Status \cup Id
ExitRule == {"never", "agent-activity"}
Effect == {"saveParked", "saveFilters", "prune"}

\* Where a column is in the document's array matters, but only relative to the
\* others: columns of one order are drawn as they are in the array.  Those of
\* the document that is stored at first are `born' 0.
Column == [id : Id, rule : ExitRule, order : Nat, index : Nat, born : 0 .. MaxBorn]
StoredColumn == [id : Id, rule : ExitRule \cup {"malformed"}, order : Nat, index : Nat,
                 born : 0 .. MaxBorn]
ParkedState == [columns : SUBSET Column, member : [Pane -> Id \cup {None}]]
Filters == [hosts : SUBSET Host, hidden : SUBSET Key]

TypeOK ==
  /\ card \in [Window -> [Pane -> Status \cup {Gone}]]
  /\ parked \in [Window -> ParkedState]
  /\ filters \in [Window -> Filters]
  /\ dirty \in [Window -> SUBSET Effect]
  /\ disk \in [parked : [columns : SUBSET StoredColumn, member : [Pane -> Id \cup {None}]],
               filters : Filters]
  /\ born \in 0 .. MaxBorn
  /\ chosen \subseteq 0 .. MaxBorn
  /\ excused \in [Window -> SUBSET Pane]

(* What loadParked makes of the stored document: a malformed column, one   *)
(* whose id an earlier one has, and the membership of a column that is not *)
(* defined, are dropped.  Orders are taken as they are.                    *)
loadParked(doc) ==
  LET sound == {c \in doc.columns : c.rule \in ExitRule}
      columns == {c \in sound : \A d \in sound : d.id = c.id => c.index <= d.index}
  IN [columns |-> columns,
      member |-> [p \in Pane |-> IF doc.member[p] \in Ids(columns) THEN doc.member[p] ELSE None]]

(* The stored documents at first: written by this build, by an older one,  *)
(* or by a hand, which may have spoiled a column, given two of them one id *)
(* or one order (parked.store.ts:289-292), or parked a card nowhere; and   *)
(* filters that may hide a column's key.                                   *)
StoredRow == [id : Id, rule : ExitRule \cup {"malformed"}, order : 0 .. 1]
StoredAtFirst ==
  [columns : {{[id |-> row[i].id, rule |-> row[i].rule, order |-> row[i].order,
                index |-> i, born |-> 0] : i \in DOMAIN row} :
                row \in UNION {[1 .. n -> StoredRow] : n \in 0 .. MaxStored}},
   member : [Pane -> Id \cup {None}]]

Init ==
  /\ \E doc \in StoredAtFirst, stored \in Filters :
       /\ disk = [parked |-> doc, filters |-> stored]
       /\ parked = [w \in Window |-> loadParked(doc)]
       /\ filters = [w \in Window |-> stored]
  /\ card = [w \in Window |-> [p \in Pane |-> Gone]]
  /\ dirty = [w \in Window |-> Effect]
  /\ born = 0 /\ chosen = {0}
  /\ excused = [w \in Window |-> {}]

NoDocument == [columns |-> {}, member |-> [p \in Pane |-> None]]
NoFilters == [hosts |-> {}, hidden |-> {}]

-----------------------------------------------------------------------------
(* ParkedStore: each operator is the state an operation leaves.            *)

Live(w) == Ids(parked[w].columns)
RuleOf(w, id) == (CHOOSE c \in parked[w].columns : c.id = id).rule

\* Mutant: ids are counted, so one is given out twice after a removal.
nextColumnIdCounted(columns) == Cardinality(columns) + 1

\* The lowest free one.
nextColumnId(columns) == CHOOSE n \in Id : n \notin Ids(columns) /\ \A m \in Id : m < n => m \in Ids(columns)

\* At the right-hand end, of the order as of the array.
Beyond(places) == IF places = {} THEN 0 ELSE Max(places) + 1
nextOrder(columns) == Beyond({c.order : c \in columns})
nextIndex(columns) == Beyond({c.index : c \in columns})

\* Mutant: the effect that prunes the filters does not read the columns.
SetParkedUnpruned(w, state) ==
  /\ parked' = [parked EXCEPT ![w] = state]
  /\ dirty' = [dirty EXCEPT ![w] = @ \cup {"saveParked"}]

\* The state changes and the effects that read it are scheduled: both read the columns.
SetParked(w, state) ==
  /\ parked' = [parked EXCEPT ![w] = state]
  /\ dirty' = [dirty EXCEPT ![w] = @ \cup {"saveParked", "prune"}]

Ready(w) == dirty[w] = {}

createColumn(w, rule) ==
  /\ Ready(w)
  /\ Live(w) # Id /\ born < MaxBorn
  /\ born' = born + 1
  /\ SetParked(w, [parked[w] EXCEPT !.columns =
                     @ \cup {[id |-> nextColumnId(@), rule |-> rule,
                              order |-> nextOrder(@), index |-> nextIndex(@),
                              born |-> born + 1]}])
  /\ UNCHANGED <<card, filters, disk, chosen, excused>>

renameColumn(w) ==
  /\ Ready(w)
  /\ SetParked(w, parked[w])
  /\ UNCHANGED <<card, filters, disk, born, chosen, excused>>

ActiveIn(w, id) == {p \in Pane : parked[w].member[p] = id /\ card[w][p] \in Active}

\* A rule applies from the next event on: it does not reach back.
setExitRule(w, id, rule) ==
  /\ Ready(w) /\ id \in Live(w)
  /\ SetParked(w, [parked[w] EXCEPT !.columns =
                     {IF c.id = id THEN [c EXCEPT !.rule = rule] ELSE c : c \in @}])
  /\ excused' = [excused EXCEPT ![w] = @ \cup ActiveIn(w, id)]
  /\ UNCHANGED <<card, filters, disk, born, chosen>>

\* The columns are sorted by their order, and the sort is stable.
Before(d, c) == d.order < c.order \/ (d.order = c.order /\ d.index < c.index)

\* How many columns are to the left of c.
Place(c, columns) == Cardinality({d \in columns : Before(d, c)})

Clamped(to, columns) == IF to < 0 THEN 0 ELSE IF to >= Cardinality(columns) THEN Cardinality(columns) - 1 ELSE to

(* The order is written afresh as 0, 1, ..., and the array with it: c goes *)
(* to its new place, and those between move up by one.                     *)
Reordered(columns, c, to) ==
  LET from == Place(c, columns)
      after(d) == LET at == Place(d, columns)
                  IN IF d = c THEN to
                     ELSE IF from < at /\ at <= to THEN at - 1
                     ELSE IF to <= at /\ at < from THEN at + 1
                     ELSE at
  IN {[d EXCEPT !.order = after(d), !.index = after(d)] : d \in columns}

moveColumn(w, c, delta) ==
  /\ Ready(w)
  /\ LET columns == parked[w].columns
         to == Clamped(Place(c, columns) + delta, columns)
     IN /\ to # Place(c, columns)
        /\ SetParked(w, [parked[w] EXCEPT !.columns = Reordered(columns, c, to)])
  /\ UNCHANGED <<card, filters, disk, born, chosen, excused>>

\* Of a column that is drawn: its header holds the menu.
removeColumn(w, id) ==
  /\ Ready(w) /\ id \in Live(w) \ filters[w].hidden
  /\ SetParked(w, [columns |-> {c \in parked[w].columns : c.id # id},
                   member |-> [p \in Pane |-> IF parked[w].member[p] = id THEN None
                                              ELSE parked[w].member[p]]])
  /\ UNCHANGED <<card, filters, disk, born, chosen, excused>>

park(w, p, id) ==
  /\ Ready(w) /\ card[w][p] # Gone /\ id \in Live(w)
  /\ SetParked(w, [parked[w] EXCEPT !.member[p] = id])
  /\ excused' = [excused EXCEPT ![w] = IF card[w][p] \in Active THEN @ \cup {p} ELSE @]
  /\ UNCHANGED <<card, filters, disk, born, chosen>>

releasePanes(w, S) == [parked[w] EXCEPT !.member = [p \in Pane |-> IF p \in S THEN None ELSE @[p]]]

unpark(w, p) ==
  /\ Ready(w) /\ card[w][p] # Gone /\ parked[w].member[p] # None
  /\ SetParked(w, releasePanes(w, {p}))
  /\ UNCHANGED <<card, filters, disk, born, chosen, excused>>

\* Settings' `clear parked columns'.
clear(w) ==
  /\ Ready(w)
  /\ SetParked(w, NoDocument)
  /\ UNCHANGED <<card, filters, disk, born, chosen, excused>>

-----------------------------------------------------------------------------
(* PanesStore: the filters, and the events of the bridge.                  *)

SetFilters(w, f) ==
  /\ filters' = [filters EXCEPT ![w] = f]
  /\ dirty' = [dirty EXCEPT ![w] = @ \cup {"saveFilters"}]

Toggled(S, x) == IF x \in S THEN S \ {x} ELSE S \cup {x}

toggleHost(w, h) ==
  /\ Ready(w)
  /\ SetFilters(w, [filters[w] EXCEPT !.hosts = Toggled(@, h)])
  /\ UNCHANGED <<card, parked, disk, born, chosen, excused>>

\* A chip of the filter bar: every status has one, and every live column.
toggleColumn(w, key) ==
  /\ Ready(w) /\ key \in Status \cup Live(w)
  /\ SetFilters(w, [filters[w] EXCEPT !.hidden = Toggled(@, key)])
  /\ chosen' = chosen \cup {c.born : c \in {d \in parked[w].columns : d.id = key}}
  /\ UNCHANGED <<card, parked, disk, born, excused>>

clearFilters(w) ==
  /\ Ready(w)
  /\ SetFilters(w, NoFilters)
  /\ UNCHANGED <<card, parked, disk, born, chosen, excused>>

\* Mutant: the rule is asked after the event is applied.
shouldExitAfter(rule, previous, next) ==
  rule = "agent-activity" /\ next # next /\ next \in Active

\* Mutant: any change of status is activity.
shouldExitOnChange(rule, previous, next) == rule = "agent-activity" /\ next # previous

shouldExit(rule, previous, next) ==
  rule = "agent-activity" /\ next # previous /\ next \in Active

(* pane.agent_status_changed: the exit rule is asked first, with the       *)
(* status the card is leaving, and then the card changes.                  *)
StatusChanged(w, p, next) ==
  /\ card[w][p] # Gone
  /\ LET id == parked[w].member[p]
     IN IF id \in Live(w) /\ shouldExit(RuleOf(w, id), card[w][p], next)
        THEN SetParked(w, releasePanes(w, {p}))
        ELSE UNCHANGED <<parked, dirty>>
  /\ card' = [card EXCEPT ![w][p] = next]
  /\ excused' = [excused EXCEPT ![w] = IF next \in Active THEN @ ELSE @ \ {p}]
  /\ UNCHANGED <<filters, disk, born, chosen>>

(* The other events, lists and answers that show the whole pane: they say  *)
(* what its status is, and no exit rule is asked.                          *)
Shown(w, p, status) ==
  /\ card' = [card EXCEPT ![w][p] = status]
  /\ excused' = [excused EXCEPT ![w] = IF status \in Active THEN @ \cup {p} ELSE @ \ {p}]
  /\ UNCHANGED <<parked, filters, dirty, disk, born, chosen>>

(* pane.closed, tab.closed, workspace.closed, and the board's own closes:  *)
(* releaseDroppedPanes compares the maps before and after.                 *)
Dropped(w, S) ==
  /\ card' = [card EXCEPT ![w] = [p \in Pane |-> IF p \in S THEN Gone ELSE @[p]]]
  /\ IF \E p \in S : parked[w].member[p] # None
     THEN SetParked(w, releasePanes(w, S)) ELSE UNCHANGED <<parked, dirty>>
  /\ UNCHANGED <<filters, disk, born, chosen, excused>>

-----------------------------------------------------------------------------
(* The effects.                                                            *)

SaveParked(w) ==
  /\ "saveParked" \in dirty[w]
  /\ disk' = [disk EXCEPT !.parked = parked[w]]
  /\ dirty' = [dirty EXCEPT ![w] = @ \ {"saveParked"}]
  /\ UNCHANGED <<card, parked, filters, born, chosen, excused>>

SaveFilters(w) ==
  /\ "saveFilters" \in dirty[w]
  /\ disk' = [disk EXCEPT !.filters = filters[w]]
  /\ dirty' = [dirty EXCEPT ![w] = @ \ {"saveFilters"}]
  /\ UNCHANGED <<card, parked, filters, born, chosen, excused>>

\* Keys of columns that are gone leave the filters; statuses stay.
Pruned(hidden, live) == {key \in hidden : key \in Status \/ key \in live}

Prune(w) ==
  /\ "prune" \in dirty[w]
  /\ LET kept == Pruned(filters[w].hidden, Live(w))
     IN IF kept = filters[w].hidden
        THEN filters' = filters /\ dirty' = [dirty EXCEPT ![w] = @ \ {"prune"}]
        ELSE /\ filters' = [filters EXCEPT ![w].hidden = kept]
             /\ dirty' = [dirty EXCEPT ![w] = (@ \ {"prune"}) \cup {"saveFilters"}]
  /\ UNCHANGED <<card, parked, disk, born, chosen, excused>>

\* The page is loaded anew, between any two steps; what was not saved is lost.
LoadFrom(w, stored) ==
  /\ parked' = [parked EXCEPT ![w] = loadParked(stored.parked)]
  /\ filters' = [filters EXCEPT ![w] = stored.filters]
  /\ card' = [card EXCEPT ![w] = [p \in Pane |-> Gone]]
  /\ dirty' = [dirty EXCEPT ![w] = Effect]
  /\ excused' = [excused EXCEPT ![w] = {}]
  /\ UNCHANGED <<born, chosen>>

Reload(w) == LoadFrom(w, disk) /\ disk' = disk

\* Settings' `clear local data', which reloads the page.
clearLocalData(w) ==
  /\ Ready(w)
  /\ disk' = [parked |-> NoDocument, filters |-> NoFilters]
  /\ LoadFrom(w, disk')

Next == \E w \in Window :
  \/ \E rule \in ExitRule : createColumn(w, rule)
  \/ renameColumn(w)
  \/ \E id \in Id, rule \in ExitRule : setExitRule(w, id, rule)
  \/ \E c \in parked[w].columns, delta \in -MaxColumns .. MaxColumns : moveColumn(w, c, delta)
  \/ \E id \in Id : removeColumn(w, id)
  \/ \E p \in Pane, id \in Id : park(w, p, id)
  \/ \E p \in Pane : unpark(w, p)
  \/ clear(w)
  \/ \E h \in Host : toggleHost(w, h)
  \/ \E key \in Key : toggleColumn(w, key)
  \/ clearFilters(w)
  \/ \E p \in Pane, s \in Status : StatusChanged(w, p, s)
  \/ \E p \in Pane, s \in Status : Shown(w, p, s)
  \/ \E S \in SUBSET {p \in Pane : card[w][p] # Gone} \ {{}} : Dropped(w, S)
  \/ SaveParked(w)
  \/ SaveFilters(w)
  \/ Prune(w)
  \/ Reload(w)
  \/ clearLocalData(w)

Spec == Init /\ [][Next]_vars

-----------------------------------------------------------------------------
(* In every window, and on disk, no two columns have one id, no two have   *)
(* one place in the order unless the document that was stored at first     *)
(* gave it to both, and a card is parked only in a column there is; the    *)
(* disk may be worse only until the page that read it has written it back  *)
(* (loadParked and the saving effect, parked.store.ts:147-189, 252-256).   *)
TiesAreStored(columns) ==
  \A c, d \in columns : c # d /\ c.order = d.order => c.born = 0 /\ d.born = 0

WellFormed(doc) ==
  /\ \A c, d \in doc.columns : c.id = d.id => c = d
  /\ TiesAreStored(doc.columns)
  /\ \A p \in Pane : doc.member[p] \in Ids(doc.columns) \cup {None}

DocumentsAreConsistent ==
  /\ \A w \in Window : WellFormed(parked[w])
  /\ WellFormed(disk.parked) \/ \A w \in Window : "saveParked" \in dirty[w]

(* A document that arrives with duplicated orders "comes out of the first  *)
(* move canonical" (parked.store.ts:289-292): a move leaves no two columns *)
(* one place, also when it came to some of them with one.                  *)
MovesUntie ==
  [][\A w \in Window : \A c \in parked[w].columns, delta \in -MaxColumns .. MaxColumns :
       moveColumn(w, c, delta) =>
         \A d, e \in parked'[w].columns : d.order = e.order => d = e]_vars

(* Once the effects have run, the filters hide no column that is gone, so  *)
(* no key waits for a column that is yet to be created.                    *)
NoStrandedKeys ==
  \A w \in Window : "prune" \notin dirty[w] => filters[w].hidden \subseteq Status \cup Live(w)

(* A parked column is hidden only if the operator has hidden that very     *)
(* column: not because an earlier one had its id (panes.store.ts, the      *)
(* pruning effect: "a later column could be created under it and load      *)
(* hidden with nothing to say why").                                       *)
HiddenByChoice ==
  \A w \in Window : \A c \in parked[w].columns : c.id \in filters[w].hidden => c.born \in chosen

(* A card that shows an active agent is in an `agent-activity' column only *)
(* if it was active when it was put there, when the rule was set, or when  *)
(* something other than a status event first showed it so.                 *)
StaysOnlyIfExcused ==
  \A w \in Window, p \in Pane :
    /\ card[w][p] \in Active
    /\ parked[w].member[p] # None
    /\ RuleOf(w, parked[w].member[p]) = "agent-activity"
    => p \in excused[w]

(* A step that changes a card's status takes it out of its column only if  *)
(* the agent became active, under the rule that says so.                   *)
LeavesOnlyOnActivation ==
  [][\A w \in Window, p \in Pane :
       LET id == parked[w].member[p]
       IN ( /\ id # None /\ parked'[w].member[p] = None
            /\ card'[w][p] # card[w][p] /\ card'[w][p] # Gone )
          => ( /\ RuleOf(w, id) = "agent-activity"
               /\ card'[w][p] \in Active )]_vars

=============================================================================
