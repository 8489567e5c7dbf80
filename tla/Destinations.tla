---------------------------- MODULE Destinations ----------------------------
(***************************************************************************)
(* Where a new pane, tab or workspace may go, and the tab level of a       *)
(* terminal: destinationsFor() of apps/web/src/app/shared/                 *)
(* destination-picker.ts, the capability lookups of state/panes.store.ts   *)
(* and board/board.ts, tabEntries() and stepTab() of                       *)
(* pane-detail/tab-strip.ts, and nextSiblingCard() of pane-detail.ts.      *)
(* The store's panes C and workspaces W are sets, its tabs T a sequence in *)
(* the order they came.                                                    *)
(***************************************************************************)
EXTENDS Integers, Sequences, SequencesExt, FiniteSets

CONSTANTS
  Workspace, Tab, Card, HostOf, WorkspaceOf, TabOf,
  HostOrder,  \* the configured hosts, in order
  Caps,       \* the capabilities each host advertises
  CardOrder,  \* bound: the order in which the store holds the panes
  None

ASSUME PlaceAssumption ==
  /\ HostOf \in [Workspace -> Range(HostOrder)]
  /\ WorkspaceOf \in [Tab -> Workspace] /\ TabOf \in [Card -> Tab]
  /\ Caps \in [Range(HostOrder) -> SUBSET {"paneCreate", "tabCrud", "workspaceCrud"}]
  /\ CardOrder \in Seq(Card) /\ Range(CardOrder) = Card /\ Len(CardOrder) = Cardinality(Card)
  /\ None \notin Workspace \cup Tab \cup Card \cup Range(HostOrder)

HostOfTab(t) == HostOf[WorkspaceOf[t]]
CardsOf(t, C) == SelectSeq(CardOrder, LAMBDA c : c \in C /\ TabOf[c] = t)
firstPaneIn(t, C) ==
  LET here == {i \in DOMAIN CardOrder : CardOrder[i] \in C /\ TabOf[CardOrder[i]] = t}
  IN IF here = {} THEN None ELSE CardOrder[Min(here)]

Place(h, w, t, c) == [host |-> h, ws |-> w, tab |-> t, pane |-> c]
Capable(cap) == {h \in Range(HostOrder) : cap \in Caps[h]}

\* Board.CREATE_DESTINATION.
Kind == {"pane", "tab", "workspace"}
CREATE_DESTINATION ==
  [pane      |-> [level |-> "tab",       cap |-> "paneCreate"],
   tab       |-> [level |-> "workspace", cap |-> "tabCrud"],
   workspace |-> [level |-> "host",      cap |-> "workspaceCrud"]]

destinationsFor(W, T, C, query) ==
  CASE query.level = "host" -> {Place(h, None, None, None) : h \in Capable(query.cap)}
    [] query.level = "workspace" ->
         {Place(HostOf[w], w, None, None) : w \in {x \in W : HostOf[x] \in Capable(query.cap)}}
    [] query.level = "tab" ->
         {Place(HostOfTab(t), WorkspaceOf[t], t, firstPaneIn(t, C)) :
            t \in {x \in Range(T) : /\ WorkspaceOf[x] \in W
                                    /\ HostOfTab(x) \in Capable(query.cap)}}

\* The first configured host that can create anything.
unscopedHost ==
  LET able == SelectSeq(HostOrder, LAMBDA h : Caps[h] # {})
  IN IF able = <<>> THEN None ELSE Head(able)

----
\* The strip of a workspace: its tabs that have a pane to open.
tabEntries(w, T, C) ==
  SelectSeq(T, LAMBDA t : WorkspaceOf[t] = w /\ CardsOf(t, C) # <<>>)
Wrapped(i, n) == ((i % n) + n) % n
\* The entry one step away, <<>> where there is none to step to.
Stepped(s, x, d) ==
  IF x \notin Range(s) \/ Len(s) < 2 THEN <<>>
  ELSE LET i == CHOOSE k \in DOMAIN s : s[k] = x IN <<s[1 + Wrapped(i - 1 + d, Len(s))]>>
stepTab(t, T, C, d) == Stepped(tabEntries(WorkspaceOf[t], T, C), t, d)
siblings(c, C) == IF c \in C THEN CardsOf(TabOf[c], C) ELSE <<>>
nextSiblingCard(c, C) == Stepped(siblings(c, C), c, 1)
=============================================================================
