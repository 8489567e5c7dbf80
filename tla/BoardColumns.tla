---------------------------- MODULE BoardColumns ----------------------------
(***************************************************************************)
(* How the board sorts cards into columns and bands: columnKeyOf,          *)
(* groupIntoColumns, groupIntoSwimlanes and columnCountsSignal             *)
(* (apps/web/src/app/state/panes.store.ts).  Pure: every operator is a     *)
(* function of the shown cards, the filters, the parked columns and the    *)
(* scope.  Cards within a column are a set, for the board keeps no order.  *)
(* A column's key is its status or the number n of the parked column pn.   *)
(***************************************************************************)
EXTENDS Naturals, FiniteSets

CONSTANTS
  Pane, Host, Status, Gone,
  HostOf, SpaceOf, TabOf,   \* where each pane lives
  Repo, Checkout,           \* its project's, NoProject when it has none
  NoProject, NoScope

ASSUME PaneAssumption ==
  /\ IsFiniteSet(Pane)
  /\ HostOf \in [Pane -> Host]
  /\ Gone \notin Status
  /\ Status \cap (Nat \ {0}) = {}

None == 0               \* parked in no column: column numbers start at 1

Ids(columns) == {c.id : c \in columns}

\* The key of the column a pane is rendered in.
columnKeyOf(p, card, member, live) == IF member[p] \in live THEN member[p] ELSE card[p]

isFilteredOut(p, card, filters, member, live) ==
  \/ HostOf[p] \in filters.hosts
  \/ columnKeyOf(p, card, member, live) \in filters.hidden

(* A status has the keys of Status for its buckets, a parked column its    *)
(* number; a member of a column that is not live falls to its status.      *)
groupIntoColumns(panes, card, filters, member, live) ==
  LET kept == {p \in panes : ~isFilteredOut(p, card, filters, member, live)}
  IN [key \in Status \cup live |->
        IF key \in live THEN {p \in kept : member[p] = key}
        ELSE {p \in kept : member[p] \notin live /\ card[p] = key}]

InScope(p, scope) ==
  \/ scope = NoScope
  \/ /\ HostOf[p] = scope.host /\ SpaceOf[p] = scope.space
     /\ scope.tab = NoScope \/ TabOf[p] = scope.tab

scopedPanes(card, scope) == {p \in Pane : card[p] # Gone /\ InScope(p, scope)}

Dimension == {"none", "host", "repository", "checkout", "tab"}

bandOf(p, dimension) ==
  CASE dimension = "none"       -> <<"all">>
    [] dimension = "host"       -> <<HostOf[p]>>
    [] dimension = "repository" -> <<Repo[p]>>
    [] dimension = "checkout"   -> <<Checkout[p]>>
    [] dimension = "tab"        -> <<HostOf[p], TabOf[p]>>

\* Filters first, so that a card that is filtered out keeps no band alive; but
\* an ungrouped board is one band, whatever it holds.
groupIntoSwimlanes(panes, card, filters, dimension, member, live) ==
  LET kept == {p \in panes : ~isFilteredOut(p, card, filters, member, live)}
  IN [band \in {bandOf(p, dimension) : p \in kept}
                   \cup (IF dimension = "none" THEN {<<"all">>} ELSE {}) |->
        groupIntoColumns({p \in kept : bandOf(p, dimension) = band}, card, filters, member, live)]

(* The chips' counts: of every column, the hidden ones too.                *)
columnCounts(card, filters, member, live, scope) ==
  [key \in Status \cup live |->
     Cardinality({p \in scopedPanes(card, scope) :
                    HostOf[p] \notin filters.hosts /\ columnKeyOf(p, card, member, live) = key})]
=============================================================================
