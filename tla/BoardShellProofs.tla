-------------------------- MODULE BoardShellProofs --------------------------
(***************************************************************************)
(* Proofs about BoardShell, for any workspaces, tabs, panes, hosts and     *)
(* keystrokes.                                                             *)
(*                                                                         *)
(* Both invariants are inductive, because every action but GraceEnds ends  *)
(* in Settle: it is enough that the effects of the board and of the rail   *)
(* keep them, whatever a handler has written (Handled), and that only the  *)
(* keyboard's tab keys write a scope (Strays).                             *)
(*                                                                         *)
(* At the end, the way back to the board (BoardReturn), for any addresses, *)
(* routes, statuses and cards; the two share no variable.                  *)
(***************************************************************************)
EXTENDS BoardShell, BoardReturn, WellFoundedInduction, TLAPS

\* What a handler leaves of the scope: all of it, or a tab key's mark on it.
Strays(n) == (n.scope = scope /\ n.strayed = strayed) \/ n.strayed = TRUE

\* A step is a handler and the effects that follow it.
Handled == \E n : Strays(n) /\ Settle(n)

-----------------------------------------------------------------------------

\* What the route reads is all that its scope depends on.
LEMMA ReadsDecideTheScope ==
  ASSUME NEW p, NEW W, NEW T, NEW q, NEW V, NEW U,
         RouteReads(p, W, T) = RouteReads(q, V, U)
  PROVE  RouteScope(p, W, T) = RouteScope(q, V, U)
  BY DEF RouteReads, RouteScope

\* The board's route effect runs whenever the scope it gave would be another:
\* on a new board, and when what it reads has changed.
LEMMA EffectsKeepTheScope ==
  ASSUME NEW n, ScopeIsTheRoutes, Strays(n), Settle(n)
  PROVE  ScopeIsTheRoutes'
<1>1. page' = n.page /\ workspaces' = n.workspaces /\ tabs' = n.tabs /\ RouteEffect(n)
  BY DEF Settle
<1>2. SUFFICES ASSUME OnBoard(n.page), ~strayed'
               PROVE  scope' = RouteScope(n.page, n.workspaces, n.tabs)
  BY <1>1 DEF ScopeIsTheRoutes, OnBoard, RouteScope, resolvedTab, resolvedWorkspace, routeTabId,
              routeWorkspaceId
<1>3. CASE RouteEffectRuns(n)
  BY <1>1, <1>3 DEF RouteEffect
<1>4. CASE ~RouteEffectRuns(n)
  <2>1. scope' = n.scope /\ strayed' = n.strayed
    BY <1>1, <1>4 DEF RouteEffect
  <2>2. scope' = scope /\ ~strayed
    BY <1>2, <2>1 DEF Strays
  <2>3. ~Rebuilt(n.page)
        /\ RouteReads(n.page, n.workspaces, n.tabs) = RouteReads(page, workspaces, tabs)
    BY <1>2, <1>4 DEF RouteEffectRuns
  <2>4. OnBoard(page)
    BY <1>2, <2>3 DEF Rebuilt
  <2>5. scope = RouteScope(page, workspaces, tabs)
    BY <2>2, <2>4 DEF ScopeIsTheRoutes
  <2>6. QED
    BY <2>2, <2>3, <2>5, ReadsDecideTheScope
<1>5. QED
  BY <1>3, <1>4

\* The rail takes the page and gives it back with its drawer, and with itself.
LEMMA EffectsKeepThePage ==
  ASSUME NEW n, InertOnlyUnderADrawer, Settle(n)
  PROVE  InertOnlyUnderADrawer'
<1>1. page' = n.page /\ workspaces' = n.workspaces /\ standIn' = n.standIn /\ DrawerEffect(n)
  BY DEF Settle
<1>2. RailDrawn(page, workspaces, standIn)' = RailDrawn(n.page, n.workspaces, n.standIn)
  BY <1>1 DEF RailDrawn, OnBoard, scopePending, resolvedWorkspace, routeWorkspaceId
<1>3. CASE RailStays(n)
  <2>1. RailDrawn(page, workspaces, standIn) /\ RailDrawn(n.page, n.workspaces, n.standIn)
    BY <1>3 DEF RailStays
  <2>2. inert <=> "rail" \in layers
    BY <2>1 DEF InertOnlyUnderADrawer
  <2>3. inert' <=> "rail" \in layers'
    <3>1. CASE "rail" \in n.layers /\ "rail" \notin layers
      BY <1>1, <1>3, <2>1, <3>1 DEF DrawerEffect
    <3>2. CASE "rail" \notin n.layers /\ "rail" \in layers
      BY <1>1, <1>3, <2>1, <3>2 DEF DrawerEffect
    <3>3. CASE "rail" \in n.layers <=> "rail" \in layers
      <4>1. layers' = n.layers
        BY <1>1, <1>3, <2>1 DEF DrawerEffect
      <4>2. \/ ("rail" \in n.layers /\ "rail" \notin layers) /\ inert' = TRUE
            \/ ("rail" \notin n.layers /\ "rail" \in layers) /\ inert' = FALSE
            \/ inert' = inert
        BY <1>1, <1>3, <2>1, Zenon DEF DrawerEffect
      <4>3. QED
        BY <2>2, <3>3, <4>1, <4>2
    <3>4. QED
      BY <3>1, <3>2, <3>3
  <2>4. QED
    BY <1>2, <2>1, <2>3 DEF InertOnlyUnderADrawer
<1>4. CASE RailDrawn(page, workspaces, standIn) /\ ~RailStays(n)
  <2>1. layers' = n.layers \ {"rail"} /\ inert' = FALSE
    BY <1>1, <1>4 DEF DrawerEffect, onDestroy
  <2>2. QED
    BY <2>1 DEF InertOnlyUnderADrawer
<1>5. CASE ~RailDrawn(page, workspaces, standIn) /\ RailDrawn(n.page, n.workspaces, n.standIn)
  <2>1. layers' = n.layers /\ inert' = ("rail" \in n.layers)
    BY <1>1, <1>5 DEF DrawerEffect, RailStays
  <2>2. QED
    BY <1>2, <1>5, <2>1 DEF InertOnlyUnderADrawer
<1>6. CASE ~RailDrawn(page, workspaces, standIn) /\ ~RailDrawn(n.page, n.workspaces, n.standIn)
  <2>1. inert' = inert
    BY <1>1, <1>6 DEF DrawerEffect, RailStays
  <2>2. ~inert
    BY <1>6 DEF InertOnlyUnderADrawer
  <2>3. QED
    BY <1>2, <1>6, <2>1, <2>2 DEF InertOnlyUnderADrawer
<1>7. QED
  BY <1>3, <1>4, <1>5, <1>6

-----------------------------------------------------------------------------
(* Every step but GraceEnds is a handler and the effects that follow it.   *)

LEMMA HandledAs == ASSUME NEW n, Strays(n), Settle(n) PROVE Handled
  BY DEF Handled

LEMMA NowStrays == Strays(Now)
  BY DEF Strays, Now

\* The store's events write no scope.
LEMMA StoreIsHandled == ASSUME Store PROVE Handled
<1>1. ASSUME NEW w, WorkspaceTold(w) PROVE Handled
  <2> DEFINE n == [Now EXCEPT !.workspaces = @ \cup {w}, !.touched = {w}]
  <2>1. Strays(n)
    BY DEF Strays, Now
  <2>2. QED
    BY <1>1, <2>1, HandledAs DEF WorkspaceTold
<1>2. ASSUME NEW w, WorkspaceClosed(w) PROVE Handled
  <2> DEFINE n == [Now EXCEPT !.workspaces = @ \ {w}, !.tabs = SelectSeq(@, LAMBDA t : WorkspaceOf[t] # w)]
  <2>1. Strays(n)
    BY DEF Strays, Now
  <2>2. QED
    BY <1>2, <2>1, HandledAs DEF WorkspaceClosed
<1>3. ASSUME NEW t, TabTold(t) PROVE Handled
  <2> DEFINE n == [Now EXCEPT !.tabs = WithTab(@, t), !.touched = {t}]
  <2>1. Strays(n)
    BY DEF Strays, Now
  <2>2. QED
    BY <1>3, <2>1, HandledAs DEF TabTold
<1>4. ASSUME NEW t, TabClosed(t) PROVE Handled
  <2> DEFINE n == [Now EXCEPT !.tabs = SelectSeq(@, LAMBDA x : x # t)]
  <2>1. Strays(n)
    BY DEF Strays, Now
  <2>2. QED
    BY <1>4, <2>1, HandledAs DEF TabClosed
<1>5. ASSUME NEW c, CardTold(c) PROVE Handled
  BY <1>5, NowStrays, HandledAs DEF CardTold
<1>6. ASSUME NEW c, CardClosed(c) PROVE Handled
  BY <1>6, NowStrays, HandledAs DEF CardClosed
<1>7. ASSUME StandInChanges PROVE Handled
  <2> DEFINE n == [Now EXCEPT !.standIn = ~@]
  <2>1. Strays(n)
    BY DEF Strays, Now
  <2>2. QED
    BY <1>7, <2>1, HandledAs DEF StandInChanges
<1>8. QED
  BY <1>1, <1>2, <1>3, <1>4, <1>5, <1>6, <1>7 DEF Store

\* Nor do the links, the rail and the menus.
LEMMA PointerIsHandled == ASSUME Pointer, ~GraceEnds PROVE Handled
<1>1. ASSUME NEW p, Navigate(p) PROVE Handled
  <2> DEFINE n == [Now EXCEPT !.page = p]
  <2>1. Strays(n)
    BY DEF Strays, Now
  <2>2. QED
    BY <1>1, <2>1, HandledAs DEF Navigate
<1>2. ASSUME NEW w, NEW t, RailClick(w, t) PROVE Handled
  <2> DEFINE n == [Now EXCEPT !.layers = @ \ {"rail"},
                         !.page = IF scope = [ws |-> w, tab |-> t] THEN <<"board">>
                                  ELSE IF t = None THEN <<"board", w>> ELSE <<"board", w, t>>]
  <2>1. Strays(n)
    BY DEF Strays, Now
  <2>2. QED
    BY <1>2, <2>1, HandledAs DEF RailClick
<1>3. ASSUME NEW x, Toggle(x) PROVE Handled
  <2> DEFINE n == [Now EXCEPT !.layers = Toggled(x)]
  <2>1. Strays(n)
    BY DEF Strays, Now
  <2>2. QED
    BY <1>3, <2>1, HandledAs DEF Toggle, Layers
<1>4. ASSUME closeRail PROVE Handled
  <2> DEFINE n == [Now EXCEPT !.layers = layers \ {"rail"}]
  <2>1. Strays(n)
    BY DEF Strays, Now
  <2>2. QED
    BY <1>4, <2>1, HandledAs DEF closeRail, Layers
<1>5. ASSUME togglePlusMenu PROVE Handled
  <2> DEFINE n == [Now EXCEPT !.layers = Toggled("plus"), !.ask = None]
  <2>1. Strays(n)
    BY DEF Strays, Now
  <2>2. QED
    BY <1>5, <2>1, HandledAs DEF togglePlusMenu
<1>6. ASSUME NEW k, AskWhere(k) PROVE Handled
  <2> DEFINE n == [Now EXCEPT !.ask = k]
  <2>1. Strays(n)
    BY DEF Strays, Now
  <2>2. QED
    BY <1>6, <2>1, HandledAs DEF AskWhere
<1>7. ASSUME NEW k, Create(k) PROVE Handled
  <2> DEFINE n == [Now EXCEPT !.layers = @ \ {"plus"}]
  <2>1. Strays(n)
    BY DEF Strays, Now
  <2>2. QED
    BY <1>7, <2>1, HandledAs DEF Create, Sends
<1>8. ASSUME NEW d, onDestinationChosen(d) PROVE Handled
  <2> DEFINE n == [Now EXCEPT !.layers = @ \ {"plus"}, !.ask = None]
  <2>1. Strays(n)
    BY DEF Strays, Now
  <2>2. QED
    BY <1>8, <2>1, HandledAs DEF onDestinationChosen, Sends
<1>9. ASSUME NEW t, newPaneInTab(t) PROVE Handled
  BY <1>9, NowStrays, HandledAs DEF newPaneInTab, Sends
<1>10. QED
  BY <1>1, <1>2, <1>3, <1>4, <1>5, <1>6, <1>7, <1>8, <1>9 DEF Pointer

\* The tab keys do, and mark it.
LEMMA KeysStray ==
  /\ \A t : Strays(ToTab(t))
  /\ \A s : Strays(ToPane(s))
  /\ Strays(closeTopOverlay)
  /\ \A e, f, n : Strays(n) => Strays(Bubbled(n, e, f))
<1>1. \A t : Strays(ToTab(t))
  BY DEF Strays, Now, ToTab
<1>2. \A s : Strays(ToPane(s))
  BY DEF Strays, Now, ToPane
<1>3. Strays(closeTopOverlay)
  BY DEF Strays, Now, closeTopOverlay
<1>4. \A e, f, n : Strays(n) => Strays(Bubbled(n, e, f))
  BY DEF Strays, Bubbled
<1>5. QED
  BY <1>1, <1>2, <1>3, <1>4

LEMMA ChordsAreHandled == ASSUME NEW key, Chorded(key) PROVE Handled
<1>1. ASSUME NEW d, cycleTab(d) PROVE Handled
  BY <1>1, NowStrays, KeysStray, HandledAs DEF cycleTab, setCurrentTab, Same
<1>2. ASSUME NEW i, jumpTabByIndex(i) PROVE Handled
  BY <1>2, NowStrays, KeysStray, HandledAs DEF jumpTabByIndex, setCurrentTab, Same
<1>3. ASSUME lastTab PROVE Handled
  BY <1>3, NowStrays, KeysStray, HandledAs DEF lastTab, Same
<1>4. ASSUME NEW x, Same([Now EXCEPT !.layers = @ \cup x]) PROVE Handled
  <2> DEFINE n == [Now EXCEPT !.layers = @ \cup x]
  <2>1. Strays(n)
    BY DEF Strays, Now
  <2>2. QED
    BY <1>4, <2>1, HandledAs DEF Same
<1>5. ASSUME NEW s, Same(IF cardSwitcherAvailable THEN ToPane(s) ELSE Now) PROVE Handled
  BY <1>5, NowStrays, KeysStray, HandledAs DEF Same
<1>6. ASSUME Same(Now) PROVE Handled
  BY <1>6, NowStrays, HandledAs DEF Same
<1>7. QED
  BY <1>1, <1>2, <1>3, <1>4, <1>5, <1>6 DEF Chorded

LEMMA KeyboardIsHandled == ASSUME Keyboard PROVE Handled
<1>1. ASSUME Same(Now) PROVE Handled
  BY <1>1, NowStrays, HandledAs DEF Same
<1>2. ASSUME NEW e, PressHelp(e) PROVE Handled
  <2> DEFINE n == [Now EXCEPT !.layers = layers \cup ({"help"} \cap Layer)]
  <2>1. Strays(n)
    BY DEF Strays, Now
  <2>2. QED
    BY <1>2, <2>1, HandledAs DEF PressHelp, Layers
<1>3. ASSUME NEW e, NEW f, PressEscape(e, f) PROVE Handled
  <2>1. Strays(IF armed THEN Now ELSE closeTopOverlay)
    BY NowStrays, KeysStray
  <2>2. Strays(Bubbled(IF armed THEN Now ELSE closeTopOverlay, e, f))
    BY <2>1, KeysStray
  <2>3. QED
    BY <1>3, <2>2, HandledAs DEF PressEscape, Same
<1>4. ASSUME NEW e, PressInText(e) \/ PressPrefix(e) \/ PressChorded(e) PROVE Handled
  BY <1>1, <1>4, ChordsAreHandled DEF PressInText, PressPrefix, PressChorded
<1>5. ASSUME ChordTimeout PROVE Handled
  BY <1>1, <1>5 DEF ChordTimeout
<1>6. QED
  BY <1>2, <1>3, <1>4, <1>5 DEF Keyboard

LEMMA StepsAreHandled == ASSUME Next PROVE Handled \/ GraceEnds
  BY StoreIsHandled, PointerIsHandled, KeyboardIsHandled DEF Next

-----------------------------------------------------------------------------
(* The theorems.                                                           *)

\* A board shows what its address names, and only the keyboard's tab keys
\* show another tab (Board's route effect, PanesStore.scopeSignal).
THEOREM ScopeFollowsTheRoute == Spec => []ScopeIsTheRoutes
<1>1. Init => ScopeIsTheRoutes
  BY DEF Init, ScopeIsTheRoutes
<1>2. ScopeIsTheRoutes /\ [Next]_vars => ScopeIsTheRoutes'
  <2> SUFFICES ASSUME ScopeIsTheRoutes, [Next]_vars PROVE ScopeIsTheRoutes'
    OBVIOUS
  <2>1. CASE Handled
    BY <2>1, EffectsKeepTheScope DEF Handled
  <2>2. CASE GraceEnds \/ UNCHANGED vars
    BY <2>2 DEF GraceEnds, vars, places, ScopeIsTheRoutes, OnBoard, RouteScope, resolvedTab,
                resolvedWorkspace, routeTabId, routeWorkspaceId
  <2>3. QED
    BY <2>1, <2>2, StepsAreHandled
<1>3. QED
  BY <1>1, <1>2, PTL DEF Spec

\* Whatever closes the drawer, or takes the rail away while it is open, gives
\* the page back (Rail.applyInert, clearInert, ngOnDestroy).
THEOREM PageIsGivenBack == Spec => []InertOnlyUnderADrawer
<1>1. Init => InertOnlyUnderADrawer
  BY DEF Init, InertOnlyUnderADrawer
<1>2. InertOnlyUnderADrawer /\ [Next]_vars => InertOnlyUnderADrawer'
  <2> SUFFICES ASSUME InertOnlyUnderADrawer, [Next]_vars PROVE InertOnlyUnderADrawer'
    OBVIOUS
  <2>1. CASE Handled
    BY <2>1, EffectsKeepThePage DEF Handled
  <2>2. CASE GraceEnds \/ UNCHANGED vars
    <3>1. /\ UNCHANGED <<page, workspaces, standIn, layers>>
          /\ inert' = inert
      BY <2>2 DEF GraceEnds, vars, places
    <3>2. RailDrawn(page, workspaces, standIn)' = RailDrawn(page, workspaces, standIn)
      BY <3>1 DEF RailDrawn, OnBoard, scopePending, resolvedWorkspace, routeWorkspaceId
    <3>3. QED
      BY <3>1, <3>2, Zenon DEF InertOnlyUnderADrawer
  <2>3. QED
    BY <2>1, <2>2, StepsAreHandled
<1>3. QED
  BY <1>1, <1>2, PTL DEF Spec

\* A bare Escape closes layers and never leaves the page: App.onKeydown() lets
\* it through only where a layer is open, and then closeTopOverlay() does not
\* come to the scope.
THEOREM BareEscapeClosesLayersOnly == Spec => BareEscapeStays
<1>1. ASSUME NEW e, NEW f, isUnmodified(e, "Escape"), PressEscape(e, f)
      PROVE  page' = page /\ layers' \subseteq layers
  <2> DEFINE m == IF armed THEN Now ELSE closeTopOverlay
  <2>1. Settle(Bubbled(m, e, f)) /\ layers # {}
    BY <1>1 DEF PressEscape, Same, Heard, Forwarded, isUnmodified
  <2>2. m.page = page /\ m.layers \subseteq layers
    BY <2>1 DEF Now, closeTopOverlay
  <2>3. Bubbled(m, e, f).page = page /\ Bubbled(m, e, f).layers \subseteq layers
    BY <2>2 DEF Bubbled
  <2>4. QED
    BY <2>1, <2>3 DEF Settle, DrawerEffect, onDestroy
<1>2. [Next]_vars =>
        [\A e \in {x \in Keystroke : isUnmodified(x, "Escape")}, f \in Focus :
           PressEscape(e, f) => page' = page /\ layers' \subseteq layers]_vars
  BY <1>1
<1>3. QED
  BY <1>2, PTL DEF Spec, BareEscapeStays

-----------------------------------------------------------------------------
(* The `+' menu.                                                           *)

\* The store holds the panes of the model, whatever comes and goes.
LEMMA StepsKeepThePanes ==
  ASSUME cards \subseteq Card, [Next]_vars PROVE cards' \subseteq Card
<1>1. CASE Store
  BY <1>1 DEF Store, WorkspaceTold, WorkspaceClosed, TabTold, TabClosed, CardTold, CardClosed,
              StandInChanges
<1>2. CASE Pointer
  BY <1>2 DEF Pointer, Navigate, RailClick, Toggle, closeRail, GraceEnds, togglePlusMenu,
              AskWhere, Create, onDestinationChosen, newPaneInTab, Sends, Layers
<1>3. CASE Keyboard
  BY <1>3 DEF Keyboard, ChordTimeout, PressInText, PressPrefix, PressChorded, PressHelp,
              PressEscape, Layers
<1>4. CASE UNCHANGED vars
  BY <1>4 DEF vars, places
<1>5. QED
  BY <1>1, <1>2, <1>3, <1>4 DEF Next

LEMMA SomePlaceIsFirst ==
  ASSUME NEW S, S \subseteq Nat, S # {}
  PROVE  Min(S) \in S /\ \A m \in S : Min(S) =< m
<1>1. PICK n \in S : \A m \in S : <<m, n>> \notin OpToRel(<, Nat)
  BY WFMin, NatLessThanWellFounded, Zenon
<1>2. \A m \in S : ~(m < n)
  BY <1>1 DEF OpToRel
<1>3. \A m \in S : n =< m
  BY <1>2
<1>4. QED
  BY <1>3 DEF Min

\* A tab that has a pane has a first one, and that is a pane of the tab.
LEMMA FirstPaneIsOfItsTab ==
  ASSUME NEW t, NEW C \in SUBSET Card, NEW c \in C, TabOf[c] = t
  PROVE  firstPaneIn(t, C) \in C /\ TabOf[firstPaneIn(t, C)] = t
<1> DEFINE here == {i \in DOMAIN CardOrder : CardOrder[i] \in C /\ TabOf[CardOrder[i]] = t}
<1>1. \E i \in DOMAIN CardOrder : CardOrder[i] = c
  BY PlaceAssumption DEF PlaceAssumption, Range
<1>2. here # {}
  BY <1>1
<1>3. here \subseteq Nat
  BY PlaceAssumption DEF PlaceAssumption
<1>4. Min(here) \in here
  BY <1>2, <1>3, SomePlaceIsFirst
<1>5. firstPaneIn(t, C) = CardOrder[Min(here)]
  BY <1>2 DEF firstPaneIn
<1>6. QED
  BY <1>4, <1>5

\* A place of the list names the first pane of its tab, where it has a pane.
LEMMA ChosenPlacesLand ==
  ASSUME cards \subseteq Card, NEW kind \in Kind, pendingCreate = kind,
         NEW d \in Choosable(kind), d.ws # None
  PROVE  Lands(PickRequest(d), d.ws, d.tab)
<1>1. CASE kind = "pane"
  <2>1. Choosable(kind) = {Place(HostOfTab(t), WorkspaceOf[t], t, firstPaneIn(t, cards)) :
                             t \in {x \in Range(tabs) : /\ WorkspaceOf[x] \in workspaces
                                                        /\ HostOfTab(x) \in Capable("paneCreate")}}
    BY <1>1 DEF Choosable, CREATE_DESTINATION, destinationsFor
  <2>2. PICK t : d = Place(HostOfTab(t), WorkspaceOf[t], t, firstPaneIn(t, cards))
    BY <2>1
  <2>3. d.host = HostOf[WorkspaceOf[t]] /\ d.ws = WorkspaceOf[t] /\ d.tab = t
        /\ d.pane = firstPaneIn(t, cards)
    BY <2>2 DEF Place, HostOfTab
  <2>4. PickRequest(d).host = d.host /\ PickRequest(d).ws = d.ws /\ PickRequest(d).pane = d.pane
    BY <1>1 DEF PickRequest, Request
  <2>5. ASSUME NEW c \in cards, TabOf[c] = t
        PROVE  firstPaneIn(t, cards) \in cards /\ TabOf[firstPaneIn(t, cards)] = t
    BY <2>5, FirstPaneIsOfItsTab
  <2>6. QED
    BY <2>3, <2>4, <2>5, Zenon DEF Lands
<1>2. CASE kind = "tab"
  <2>1. Choosable(kind) = {Place(HostOf[w], w, None, None) :
                             w \in {x \in workspaces : HostOf[x] \in Capable("tabCrud")}}
    BY <1>2 DEF Choosable, CREATE_DESTINATION, destinationsFor
  <2>2. PICK w : d = Place(HostOf[w], w, None, None)
    BY <2>1
  <2>3. d.host = HostOf[d.ws]
    BY <2>2 DEF Place
  <2>4. PickRequest(d).host = d.host /\ PickRequest(d).ws = d.ws /\ PickRequest(d).kind = "tab"
    BY <1>2 DEF PickRequest, Request
  <2>5. QED
    BY <2>3, <2>4 DEF Lands
<1>3. CASE kind = "workspace"
  <2>1. Choosable(kind) = {Place(h, None, None, None) : h \in Capable("workspaceCrud")}
    BY <1>3 DEF Choosable, CREATE_DESTINATION, destinationsFor
  <2>2. d.ws = None
    BY <2>1 DEF Place
  <2>3. QED
    BY <2>2
<1>4. QED
  BY <1>1, <1>2, <1>3 DEF Kind

\* What a board that has a scope sends is for its scope.
LEMMA ScopedRequestsLand ==
  ASSUME cards \subseteq Card, NEW kind \in Kind, resolvedWorkspace(page, workspaces) # None
  PROVE  Lands(MenuRequest(kind), resolvedWorkspace(page, workspaces),
               resolvedTab(page, workspaces, tabs))
<1> DEFINE w == resolvedWorkspace(page, workspaces)
           t == resolvedTab(page, workspaces, tabs)
           r == MenuRequest(kind)
<1>1. r.host = HostOf[w] /\ (kind # "workspace" => r.ws = w) /\ r.kind = kind
  BY DEF MenuRequest, Request, createHost
<1>2. ASSUME kind = "pane", NEW c \in cards, TabOf[c] = t
      PROVE  r.pane \in cards /\ TabOf[r.pane] = t
  <2>1. firstPaneIn(t, cards) \in cards /\ TabOf[firstPaneIn(t, cards)] = t
    BY <1>2, FirstPaneIsOfItsTab
  <2>2. t # None
    BY <1>2, PlaceAssumption DEF PlaceAssumption
  <2>3. r.pane = firstPaneIn(t, cards)
    BY <1>2, <2>2 DEF MenuRequest, Request, scopedTargetPane
  <2>4. QED
    BY <2>1, <2>3
<1> HIDE DEF w, t, r
<1>3. Lands(r, w, t)
  BY <1>1, <1>2, Zenon DEF Lands
<1>4. QED
  BY <1>3 DEF w, t, r

\* A creation of the `+' menu goes to the host and the workspace of the board,
\* to a pane of its tab where there is one; one that was asked about goes to the
\* place that was chosen (Board.newPane, scopedTargetPane, onDestinationChosen).
THEOREM TheMenuAimsItsCreations == Spec => []CreationsAreAimed
<1>1. Init => cards \subseteq Card
  BY DEF Init
<1>2. cards \subseteq Card => CreationsAreAimed
  BY ChosenPlacesLand, ScopedRequestsLand DEF CreationsAreAimed
<1>3. cards \subseteq Card /\ [Next]_vars => (cards \subseteq Card)'
  BY StepsKeepThePanes
<1>4. QED
  BY <1>1, <1>2, <1>3, PTL DEF Spec

-----------------------------------------------------------------------------
(* The way back to the board, the other half of what a board gives up when it *)
(* is left: BoardReturn.                                                      *)

\* The card a restore aims at is one of the column of its record, and it is
\* the card that was opened as long as that is in it.
LEMMA TargetsAreInTheColumn ==
  ASSUME NEW keys \in Seq(CardId), NEW c, NEW index \in Nat, Nothing \notin CardId
  PROVE  LET t == returnFocusTarget(c, index, keys)
         IN /\ t = Nothing => Range(keys) = {}
            /\ t # Nothing => t \in Range(keys) \cap CardId
            /\ c \in Range(keys) => t = c
<1>1. ASSUME NEW i \in 1..Len(keys) PROVE keys[i] \in Range(keys) \cap CardId
  BY <1>1 DEF Range
<1>2. Range(keys) \subseteq CardId
  BY DEF Range
<1>3. CASE c \in Range(keys)
  BY <1>2, <1>3 DEF returnFocusTarget
<1>4. CASE c \notin Range(keys) /\ keys = <<>>
  BY <1>4 DEF returnFocusTarget, Range
<1>5. CASE c \notin Range(keys) /\ keys # <<>>
  <2> DEFINE i == 1 + (IF index < Len(keys) THEN index ELSE Len(keys) - 1)
  <2>1. i \in 1..Len(keys)
    BY <1>5
  <2>2. returnFocusTarget(c, index, keys) = keys[i]
    BY <1>5 DEF returnFocusTarget
  <2>3. QED
    BY <1>1, <1>5, <2>1, <2>2
<1>6. QED
  BY <1>3, <1>4, <1>5

\* A column without a card is a column of the others.
LEMMA RemovalKeepsTheType ==
  ASSUME NEW keys \in Seq(CardId), NEW c
  PROVE  Without(keys, c) \in Seq(CardId)
<1>1. CASE c \in Range(keys)
  <2>1. PlaceOf(c, keys) \in 1..Len(keys)
    BY <1>1 DEF Range, PlaceOf
  <2>2. RemoveAt(keys, PlaceOf(c, keys)) \in Seq(CardId)
    BY <2>1 DEF RemoveAt
  <2>3. QED
    BY <1>1, <2>2 DEF Without
<1>2. CASE c \notin Range(keys)
  BY <1>2 DEF Without
<1>3. QED
  BY <1>1, <1>2

\* A card leaves every column and enters one: columns stay sequences of cards.
LEMMA FiledColumns ==
  ASSUME columns \in [Column -> Seq(CardId)], NEW c \in CardId, NEW k \in Column \cup {Nothing}
  PROVE  Filed(c, k) \in [Column -> Seq(CardId)]
<1> DEFINE without == [x \in Column |-> Without(columns[x], c)]
<1>1. without \in [Column -> Seq(CardId)]
  BY RemovalKeepsTheType
<1> HIDE DEF without
<1>2. CASE k = Nothing
  BY <1>1, <1>2 DEF Filed, without
<1>3. CASE k # Nothing
  <2>1. Append(without[k], c) \in Seq(CardId)
    BY <1>1, <1>3
  <2>2. [without EXCEPT ![k] = Append(@, c)] \in [Column -> Seq(CardId)]
    BY <1>1, <2>1
  <2>3. QED
    BY <1>3, <2>2 DEF Filed, without
<1>4. QED
  BY <1>2, <1>3

\* A look at the board leaves the focus alone or gives it to a card it draws.
LEMMA LooksKeepTheTypes ==
  ASSUME NEW n, retryRestore(n), n.restoring \in Record \cup {Nothing},
         n.late \in BOOLEAN
  PROVE  /\ restoring' \in Record \cup {Nothing} /\ late' \in BOOLEAN
         /\ focus' = n.focus \/ focus' \in n.rendered
<1>1. restoring' \in {n.restoring, Nothing} /\ late' \in BOOLEAN
  BY DEF retryRestore
<1>2. CASE Reaches(n)
  BY <1>1, <1>2 DEF retryRestore, Reaches, focusCard
<1>3. CASE ~Reaches(n)
  BY <1>1, <1>3 DEF retryRestore
<1>4. QED
  BY <1>2, <1>3

\* A navigation carries the record from the board it leaves to whatever it
\* opens, and hands it to the board it enters.
LEMMA NavigationKeepsTheRecord ==
  ASSUME ReturnAssumption, ReturnInv, NEW p \in Board \cup Away,
         RouterNavigates(p)
  PROVE  /\ Remembered(p) \in Record \cup {Nothing}
         /\ pending' \in Record \cup {Nothing} /\ clickedCard' \in Click
         /\ backUrl' \in Board \cup {Nothing} /\ lastBoardUrl' \in Board
         /\ BackLeadsToTheBoardLeft' /\ RecordsTheBoardLeft'
<1> USE DEF ReturnAssumption, ReturnInv, ReturnTypeOK, BoardIsOpen
<1>1. NoCard \in Click
  BY DEF NoCard, Click
<1>2. RecordFor(p) \in Record /\ RecordFor(p).url = lastBoardUrl
  BY DEF RecordFor, RecordOf, Record, Click
<1>3. Remembered(p) \in Record \cup {Nothing}
  BY <1>2 DEF Remembered
<1>4. Remembered(p) # Nothing => Remembered(p).url = lastBoardUrl
  BY <1>2 DEF Remembered, RecordsTheBoardLeft
<1>5. p \notin Board /\ Remembered(p) = Nothing => lastBoardUrl = Home
  BY <1>2 DEF Remembered, Leaves, RecordsTheBoardLeft
<1>6. p \in Board /\ ~Enters(p) => Remembered(p) = Nothing
  BY DEF Remembered, Enters, Leaves, BackLeadsToTheBoardLeft
<1>7. address' = p /\ lastBoardUrl' = IF p \in Board THEN p ELSE lastBoardUrl
  BY DEF RouterNavigates
<1>8. pending' = IF p \in Board THEN Nothing ELSE Remembered(p)
  BY <1>6 DEF RouterNavigates, Enters
<1>9. backUrl' = IF p # "pane" THEN Nothing
                 ELSE IF Remembered(p) = Nothing THEN Home ELSE Remembered(p).url
  BY DEF RouterNavigates
<1>10. clickedCard' \in Click
  BY <1>1 DEF RouterNavigates
<1>11. p = "pane" => p \notin Board
  BY DEF Away
<1>12. BackLeadsToTheBoardLeft'
  BY <1>4, <1>5, <1>7, <1>8, <1>9, <1>11 DEF BackLeadsToTheBoardLeft
<1>13. RecordsTheBoardLeft'
  BY <1>4, <1>5, <1>7, <1>8 DEF RecordsTheBoardLeft
<1>14. backUrl' \in Board \cup {Nothing}
  BY <1>3, <1>9 DEF Record, Board
<1>15. QED
  BY <1>3, <1>7, <1>8, <1>10, <1>12, <1>13, <1>14

\* The record of a click, and where it leads back, are disturbed by nothing
\* but a click and a navigation.
LEMMA TripsKeepTheInvariant ==
  ASSUME ReturnInv, address' \in Board \cup Away,
         UNCHANGED <<address, backUrl, lastBoardUrl, pending>>, clickedCard' \in Click,
         restoring' \in Record \cup {Nothing}, {late', fresh', ready'} \subseteq BOOLEAN,
         columns' \in [Column -> Seq(CardId)], rendered' \subseteq CardId,
         focus' \in CardId \cup {"body", "elsewhere"}, FocusIsDrawn'
  PROVE  ReturnInv'
  BY DEF ReturnInv, ReturnTypeOK, BackLeadsToTheBoardLeft, BoardIsOpen,
         RecordsTheBoardLeft

LEMMA ReturnStep ==
  ASSUME ReturnAssumption, ReturnInv, [ReturnNext]_returnVars
  PROVE  ReturnInv'
<1> USE DEF ReturnInv, ReturnTypeOK
<1>1. ASSUME NEW c \in CardId, NEW k \in Column, NEW s \in Status, rememberReturn(c, k, s)
      PROVE  ReturnInv'
  <2>1. PlaceOf(c, columns[k]) \in Nat \ {0}
    <3>1. columns[k] \in Seq(CardId) /\ c \in Range(columns[k])
      BY <1>1 DEF rememberReturn
    <3>2. QED
      BY <3>1 DEF Range, PlaceOf
  <2>2. clickedCard' \in Click
    BY <1>1, <2>1 DEF rememberReturn, Click
  <2>3. UNCHANGED <<address, backUrl, lastBoardUrl, pending, restoring, late, fresh, ready,
                    columns, rendered, focus>>
    BY <1>1 DEF rememberReturn
  <2>4. FocusIsDrawn'
    BY <2>3 DEF FocusIsDrawn
  <2>5. QED
    BY <2>2, <2>3, <2>4, TripsKeepTheInvariant
<1>2. ASSUME NEW p \in Board \cup Away, RouterNavigates(p) PROVE ReturnInv'
  <2>1. /\ address' = p /\ columns' = columns /\ Remembered(p) \in Record \cup {Nothing}
        /\ pending' \in Record \cup {Nothing} /\ clickedCard' \in Click
        /\ backUrl' \in Board \cup {Nothing} /\ lastBoardUrl' \in Board
        /\ BackLeadsToTheBoardLeft' /\ RecordsTheBoardLeft'
    BY <1>2, NavigationKeepsTheRecord DEF RouterNavigates
  <2>2. /\ restoring' \in Record \cup {Nothing} /\ {late', fresh', ready'} \subseteq BOOLEAN
        /\ rendered' \subseteq CardId /\ focus' \in CardId \cup {"body", "elsewhere"}
        /\ FocusIsDrawn'
    <3>1. CASE Enters(p)
      <4> DEFINE n == [Seen EXCEPT !.page = p, !.restoring = Remembered(p),
                         !.late = FALSE, !.ready = FALSE, !.rendered = {}, !.focus = "body"]
      <4>1. /\ fresh' = TRUE /\ ready' = FALSE /\ rendered' = {} /\ retryRestore(n)
        BY <1>2, <3>1 DEF RouterNavigates
      <4>2. /\ n.restoring = Remembered(p) /\ n.late = FALSE /\ n.focus = "body"
            /\ n.rendered = {}
        BY DEF Seen
      <4> HIDE DEF n
      <4>3. /\ restoring' \in Record \cup {Nothing} /\ late' \in BOOLEAN
            /\ focus' = "body"
        BY <2>1, <4>1, <4>2, LooksKeepTheTypes
      <4>4. QED
        BY <4>1, <4>3 DEF FocusIsDrawn, ReturnAssumption
    <3>2. CASE ~Enters(p) /\ Leaves(p)
      <4>1. /\ fresh' = FALSE /\ ready' = FALSE /\ rendered' = {} /\ restoring' = Nothing
            /\ late' = FALSE /\ focus' = "body"
        BY <1>2, <3>2 DEF RouterNavigates
      <4>2. QED
        BY <4>1 DEF FocusIsDrawn, ReturnAssumption
    <3>3. CASE ~Enters(p) /\ ~Leaves(p)
      <4>1. UNCHANGED <<restoring, late, fresh, ready, rendered, focus>>
        BY <1>2, <3>3 DEF RouterNavigates
      <4>2. QED
        BY <4>1 DEF FocusIsDrawn
    <3>4. QED
      BY <3>1, <3>2, <3>3
  <2>3. QED
    BY <2>1, <2>2
<1>3. ASSUME NEW shown \in SUBSET CardId, NEW past \in BOOLEAN, Render(shown, past)
      PROVE  ReturnInv'
  <2> DEFINE f == IF focus \in CardId \ rendered' THEN "body" ELSE focus
             n == [Seen EXCEPT !.ready = past, !.rendered = rendered', !.focus = f]
  <2>1. /\ ready' = past /\ rendered' \subseteq CardId /\ fresh' = FALSE
        /\ IF fresh THEN retryRestore(n) ELSE focus' = f /\ UNCHANGED <<restoring, late>>
        /\ UNCHANGED <<address, backUrl, lastBoardUrl, pending, clickedCard, columns>>
    BY <1>3 DEF Render
  <2>2. n.restoring = restoring /\ n.late = late /\ n.focus = f /\ n.rendered = rendered'
    BY DEF Seen
  <2>3. f \in {"body", "elsewhere"} \cup rendered'
    OBVIOUS
  <2> HIDE DEF n, f
  <2>4. /\ restoring' \in Record \cup {Nothing} /\ late' \in BOOLEAN
        /\ focus' \in {"body", "elsewhere"} \cup rendered'
    BY <2>1, <2>2, <2>3, LooksKeepTheTypes
  <2>5. FocusIsDrawn'
    BY <2>1, <2>4 DEF FocusIsDrawn, ReturnAssumption
  <2>6. QED
    BY <2>1, <2>4, <2>5, TripsKeepTheInvariant
<1>4. ASSUME NEW c \in CardId, NEW k \in Column \cup {Nothing}, ColumnsChange(c, k)
      PROVE  ReturnInv'
  <2> DEFINE n == [Seen EXCEPT !.columns = columns']
  <2>1. columns' \in [Column -> Seq(CardId)]
    BY <1>4, FiledColumns DEF ColumnsChange
  <2>2. /\ retryRestore(n) \/ UNCHANGED <<restoring, late, focus>>
        /\ UNCHANGED <<address, backUrl, lastBoardUrl, pending, clickedCard, fresh, ready, rendered>>
    BY <1>4 DEF ColumnsChange
  <2>3. n.restoring = restoring /\ n.late = late /\ n.focus = focus /\ n.rendered = rendered
    BY DEF Seen
  <2> HIDE DEF n
  <2>4. /\ restoring' \in Record \cup {Nothing} /\ late' \in BOOLEAN
        /\ focus' = focus \/ focus' \in rendered
    BY <2>2, <2>3, LooksKeepTheTypes
  <2>5. FocusIsDrawn'
    BY <2>2, <2>4 DEF FocusIsDrawn
  <2>6. QED
    BY <2>1, <2>2, <2>4, <2>5, TripsKeepTheInvariant
<1>5. CASE Pump
  <2>1. /\ retryRestore(Seen)
        /\ UNCHANGED <<address, backUrl, lastBoardUrl, pending, clickedCard, fresh, ready, columns,
                       rendered>>
    BY <1>5 DEF Pump
  <2>2. /\ Seen.restoring = restoring /\ Seen.late = late
        /\ Seen.focus = focus /\ Seen.rendered = rendered
    BY DEF Seen
  <2>3. /\ restoring' \in Record \cup {Nothing} /\ late' \in BOOLEAN
        /\ focus' = focus \/ focus' \in rendered
    BY <2>1, <2>2, LooksKeepTheTypes
  <2>4. FocusIsDrawn'
    BY <2>1, <2>3 DEF FocusIsDrawn
  <2>5. QED
    BY <2>1, <2>3, <2>4, TripsKeepTheInvariant
<1>6. CASE RestoreGraceEnds
  <2>1. /\ late' = TRUE
        /\ UNCHANGED <<address, backUrl, lastBoardUrl, pending, clickedCard, restoring, fresh, ready,
                       columns, rendered, focus>>
    BY <1>6 DEF RestoreGraceEnds
  <2>2. FocusIsDrawn'
    BY <2>1 DEF FocusIsDrawn
  <2>3. QED
    BY <2>1, <2>2, TripsKeepTheInvariant
<1>7. ASSUME NEW f, UserFocuses(f) PROVE ReturnInv'
  <2>1. /\ focus' \in rendered \cup {"body", "elsewhere"}
        /\ UNCHANGED <<address, backUrl, lastBoardUrl, pending, clickedCard, restoring, late, fresh,
                       ready, columns, rendered>>
    BY <1>7 DEF UserFocuses
  <2>2. FocusIsDrawn'
    BY <2>1 DEF FocusIsDrawn, ReturnAssumption
  <2>3. QED
    BY <2>1, <2>2, TripsKeepTheInvariant
<1>8. CASE UNCHANGED returnVars
  <2>1. UNCHANGED <<address, backUrl, lastBoardUrl, pending, clickedCard, restoring, late, fresh,
                    ready, columns, rendered, focus>>
    BY <1>8 DEF returnVars
  <2>2. FocusIsDrawn'
    BY <2>1 DEF FocusIsDrawn
  <2>3. QED
    BY <2>1, <2>2, TripsKeepTheInvariant
<1>9. QED
  BY <1>1, <1>2, <1>3, <1>4, <1>5, <1>6, <1>7, <1>8 DEF ReturnNext

LEMMA ReturnInvariance == ReturnSpec => []ReturnInv
<1>1. ReturnInit => ReturnInv
  <2> SUFFICES ASSUME ReturnInit PROVE ReturnInv
    OBVIOUS
  <2> USE ReturnAssumption DEF ReturnInit
  <2>1. clickedCard \in Click
    BY DEF NoCard, Click
  <2>2. "pane" \notin Board /\ Home \in Board
    BY DEF Away, Board
  <2>3. ReturnTypeOK
    <3>1. fresh \in BOOLEAN /\ late = FALSE /\ ready = FALSE
      <4>1. fresh = (address \in Board) /\ late = FALSE /\ ready = FALSE
        BY DEF BoardIsOpen
      <4>2. CASE address \in Board
        BY <4>1, <4>2
      <4>3. CASE address \notin Board
        BY <4>1, <4>3
      <4>4. QED
        BY <4>1, <4>2, <4>3
    <3>2. columns \in [Column -> Seq(CardId)]
      OBVIOUS
    <3>3. address \in Board \cup Away /\ lastBoardUrl \in Board
      BY <2>2 DEF BoardIsOpen
    <3>4. QED
      BY <2>1, <2>2, <3>1, <3>2, <3>3 DEF ReturnTypeOK
  <2>4. BackLeadsToTheBoardLeft /\ RecordsTheBoardLeft
    BY <2>2 DEF BackLeadsToTheBoardLeft, RecordsTheBoardLeft, BoardIsOpen
  <2>5. FocusIsDrawn
    BY DEF FocusIsDrawn
  <2>6. QED
    BY <2>3, <2>4, <2>5 DEF ReturnInv
<1>2. ReturnInv /\ [ReturnNext]_returnVars => ReturnInv'
  BY ReturnAssumption, ReturnStep
<1>3. QED
  BY <1>1, <1>2, PTL DEF ReturnSpec

\* A pane's control back leads to the board that was left last, with its
\* scope, whatever was opened in between, for any boards and any cards: every
\* record names the board that was left, and a pane opened without a record is
\* one no board was left for (BoardReturnService.rememberBoard and lastBoardUrl).
THEOREM BackLeadsBack == ReturnSpec => []BackLeadsToTheBoardLeft
<1>1. ReturnInv => BackLeadsToTheBoardLeft
  BY DEF ReturnInv
<1>2. QED
  BY <1>1, ReturnInvariance, PTL

\* What FocusIsReturned asks of a step that ends a restore.
EndsWell ==
  IF address = restoring.url /\ ~late /\ restoring.status # Nothing
  THEN LET keys == Range(columns'[restoring.status])
       IN /\ ready' /\ (keys = {} \/ focus' # "body")
          /\ focus' # focus /\ focus' \in CardId =>
               /\ focus = "body" /\ focus' \in keys
               /\ restoring.card \in keys => focus' = restoring.card
  ELSE focus' \in {focus, "body"}

\* A look that ends the restore ends it well, if what it sees is what the step
\* leaves.
LEMMA LastLooksEndWell ==
  ASSUME ReturnAssumption, restoring \in Record, NEW n, retryRestore(n),
         restoring' = Nothing, n.restoring = restoring, n.page = address, n.late = late,
         n.ready = ready', ready' \in BOOLEAN, n.columns = columns',
         columns' \in [Column -> Seq(CardId)], n.focus = focus
  PROVE  EndsWell
<1> USE DEF ReturnAssumption
<1>1. restoring # Nothing /\ ~Waits(n)
  BY DEF retryRestore, Waiting
<1>2. focus' = IF Reaches(n) THEN focusCard(Target(n), n.focus) ELSE n.focus
  BY DEF retryRestore
<1>3. CASE Dropped(n) \/ restoring.status = Nothing
  <2>1. ~Reaches(n)
    BY <1>3 DEF Reaches, Target
  <2>2. address # restoring.url \/ late \/ restoring.status = Nothing
    BY <1>3 DEF Dropped
  <2>3. QED
    BY <1>2, <2>1, <2>2 DEF EndsWell
<1>4. CASE ~Dropped(n) /\ restoring.status # Nothing
  <2> DEFINE keys == columns'[restoring.status]
             t == Target(n)
  <2>1. restoring.status \in Status /\ restoring.index \in Nat
    BY <1>4 DEF Record
  <2>2. keys \in Seq(CardId)
    BY <2>1 DEF Column
  <2>3. t = returnFocusTarget(restoring.card, restoring.index, keys)
    BY <1>4 DEF Target
  <2>4. /\ t = Nothing => Range(keys) = {}
        /\ t # Nothing => t \in Range(keys) \cap CardId
        /\ restoring.card \in Range(keys) => t = restoring.card
    BY <2>1, <2>2, <2>3, TargetsAreInTheColumn
  <2>5. address = restoring.url /\ ~late
    BY <1>4 DEF Dropped
  <2>6. ready' /\ (t = Nothing \/ t \in n.rendered)
    BY <1>1, <1>4 DEF Waits
  <2>7. t # Nothing => focus' = focusCard(t, n.focus)
    BY <1>1, <1>2, <1>4, <2>6 DEF Reaches
  <2>8. t = Nothing => focus' = n.focus
    BY <1>2 DEF Reaches
  <2> HIDE DEF t, keys
  <2>9. Range(keys) = {} \/ focus' # "body"
    BY <2>4, <2>7 DEF focusCard
  <2>10. ASSUME focus' # focus, focus' \in CardId
         PROVE  focus = "body" /\ t # Nothing /\ focus' = t
    BY <2>4, <2>7, <2>8, <2>10 DEF focusCard
  <2>11. QED
    BY <1>4, <2>4, <2>5, <2>6, <2>9, <2>10 DEF EndsWell, keys
<1>5. QED
  BY <1>3, <1>4

\* On its own board and in time, a restore ends only when nothing is left to
\* do, and it gives the focus to the card that was opened, or to one of the
\* column of its status if that is not in it; it takes it from nobody.  A board's first look finds
\* no card drawn, so that none has the focus (tryRestore, focusCard).
THEOREM FocusComesBack == ReturnSpec => FocusIsReturned
<1>1. ASSUME ReturnInv, [ReturnNext]_returnVars, restoring # Nothing, restoring' = Nothing,
             address' = address
      PROVE  EndsWell
  <2> USE DEF ReturnInv, ReturnTypeOK
  <2>0. ReturnInv' /\ restoring \in Record
    BY <1>1, ReturnAssumption, ReturnStep
  <2>1. ready' \in BOOLEAN /\ columns' \in [Column -> Seq(CardId)]
    BY <2>0
  <2>2. ASSUME NEW c \in CardId, NEW k \in Column, NEW s \in Status, rememberReturn(c, k, s)
        PROVE  FALSE
    BY <1>1, <2>2 DEF rememberReturn
  <2>3. ASSUME NEW p, RouterNavigates(p) PROVE FALSE
    BY <1>1, <2>3 DEF RouterNavigates
  <2>4. ASSUME NEW shown, NEW past, Render(shown, past) PROVE EndsWell
    <3> DEFINE f == IF focus \in CardId \ rendered' THEN "body" ELSE focus
               n == [Seen EXCEPT !.ready = past, !.rendered = rendered', !.focus = f]
    <3>1. fresh /\ retryRestore(n) /\ ready' = past /\ columns' = columns
      BY <1>1, <2>4 DEF Render
    <3>2. focus \notin CardId
      BY <1>1, <3>1 DEF FocusIsDrawn
    <3>3. /\ n.restoring = restoring /\ n.page = address /\ n.late = late /\ n.ready = ready'
          /\ n.columns = columns' /\ n.focus = focus
      BY <3>1, <3>2 DEF Seen
    <3> HIDE DEF n
    <3>4. QED
      BY <1>1, <2>0, <2>1, <3>1, <3>3, ReturnAssumption, LastLooksEndWell
  <2>5. ASSUME NEW c, NEW k, ColumnsChange(c, k) PROVE EndsWell
    <3> DEFINE n == [Seen EXCEPT !.columns = columns']
    <3>1. retryRestore(n) /\ ready' = ready
      BY <1>1, <2>5 DEF ColumnsChange
    <3>2. /\ n.restoring = restoring /\ n.page = address /\ n.late = late /\ n.ready = ready'
          /\ n.columns = columns' /\ n.focus = focus
      BY <3>1 DEF Seen
    <3> HIDE DEF n
    <3>3. QED
      BY <1>1, <2>0, <2>1, <3>1, <3>2, ReturnAssumption, LastLooksEndWell
  <2>6. CASE Pump
    <3> DEFINE n == Seen
    <3>1. retryRestore(n) /\ UNCHANGED <<ready, columns>>
      BY <2>6 DEF Pump
    <3>2. /\ n.restoring = restoring /\ n.page = address /\ n.late = late /\ n.ready = ready'
          /\ n.columns = columns' /\ n.focus = focus
      BY <3>1 DEF Seen
    <3> HIDE DEF n
    <3>3. QED
      BY <1>1, <2>0, <2>1, <3>1, <3>2, ReturnAssumption, LastLooksEndWell
  <2>7. CASE RestoreGraceEnds
    BY <1>1, <2>7 DEF RestoreGraceEnds
  <2>8. ASSUME NEW f, UserFocuses(f) PROVE FALSE
    BY <1>1, <2>8 DEF UserFocuses
  <2>9. CASE UNCHANGED returnVars
    BY <1>1, <2>9 DEF returnVars
  <2>10. QED
    BY <1>1, <2>2, <2>3, <2>4, <2>5, <2>6, <2>7, <2>8, <2>9 DEF ReturnNext
<1>2. ReturnInv /\ [ReturnNext]_returnVars =>
        [restoring # Nothing /\ restoring' = Nothing /\ address' = address =>
           EndsWell]_returnVars
  BY <1>1
<1>3. QED
  BY <1>2, ReturnInvariance, PTL DEF ReturnSpec, FocusIsReturned, EndsWell

\* Whatever comes and goes, the service, the board and the focus keep their
\* types; a record is of an address of the board (BoardReturnService).
THEOREM ReturnTypeCorrect == ReturnSpec => []ReturnTypeOK
<1>1. ReturnInv => ReturnTypeOK
  BY DEF ReturnInv
<1>2. QED
  BY <1>1, ReturnInvariance, PTL

-----------------------------------------------------------------------------
(* What the liveness of BoardReturn rests on.                              *)

\* On a board, a restore in flight gives way to none but its end; once its
\* deadline has passed nothing brings the deadline back, and the next look, by
\* whoever looks, ends it; and the timer of the deadline makes it pass.
RestoresNearTheirEnd ==
  [][restoring # Nothing /\ address' = address =>
       /\ restoring' \in {restoring, Nothing}
       /\ late => restoring' = Nothing \/ late'
       /\ late /\ Pump => restoring' = Nothing
       /\ RestoreGraceEnds => late' /\ restoring' = restoring]_returnVars

\* A look at a restore that is late ends it, whatever it looks at; another
\* leaves it, or ends it (tryRestore, retryRestore).
LEMMA LooksEndOrWait ==
  ASSUME NEW n, n.restoring = restoring, n.late = late, retryRestore(n)
  PROVE  restoring' \in {restoring, Nothing} /\ (late => restoring' = Nothing)
  BY DEF retryRestore, Waiting, Waits, Dropped

\* A restore never outlasts its grace by more than one look: the safety half
\* of RestoreEnds (retryRestore, RESTORE_GRACE_MS in board-return.service.ts).
THEOREM RestoresEndOnTime == ReturnSpec => RestoresNearTheirEnd
<1>1. ASSUME [ReturnNext]_returnVars, restoring # Nothing, address' = address
      PROVE  /\ restoring' \in {restoring, Nothing}
             /\ late => restoring' = Nothing \/ late'
             /\ late /\ Pump => restoring' = Nothing
             /\ RestoreGraceEnds => late' /\ restoring' = restoring
  <2>1. ASSUME Pump PROVE restoring' \in {restoring, Nothing} /\ (late => restoring' = Nothing)
    <3>1. retryRestore(Seen) /\ Seen.restoring = restoring /\ Seen.late = late
      BY <2>1 DEF Pump, Seen
    <3>2. QED
      BY <3>1, LooksEndOrWait
  <2>2. RestoreGraceEnds => late' /\ restoring' = restoring
    BY DEF RestoreGraceEnds
  <2> DEFINE Kept == restoring' \in {restoring, Nothing} /\ (late => restoring' = Nothing \/ late')
  <2>3. Kept
    <3>1. ASSUME NEW c, NEW k, NEW s, rememberReturn(c, k, s) PROVE Kept
      BY <3>1 DEF rememberReturn
    <3>2. ASSUME NEW p, RouterNavigates(p) PROVE Kept
      BY <1>1, <3>2 DEF RouterNavigates
    <3>3. ASSUME NEW shown, NEW past \in BOOLEAN, Render(shown, past) PROVE Kept
      <4> DEFINE n == [Seen EXCEPT !.ready = past, !.rendered = rendered',
                                   !.focus = IF focus \in CardId \ rendered' THEN "body" ELSE focus]
      <4>1. n.restoring = restoring /\ n.late = late
        BY DEF Seen
      <4>2. retryRestore(n) \/ UNCHANGED <<restoring, late>>
        BY <3>3 DEF Render
      <4> HIDE DEF n
      <4>3. QED
        BY <4>1, <4>2, LooksEndOrWait
    <3>4. ASSUME NEW c, NEW k, ColumnsChange(c, k) PROVE Kept
      <4> DEFINE n == [Seen EXCEPT !.columns = columns']
      <4>1. n.restoring = restoring /\ n.late = late
        BY DEF Seen
      <4>2. retryRestore(n) \/ UNCHANGED <<restoring, late>>
        BY <3>4 DEF ColumnsChange
      <4> HIDE DEF n
      <4>3. QED
        BY <4>1, <4>2, LooksEndOrWait
    <3>5. ASSUME RestoreGraceEnds PROVE Kept
      BY <3>5 DEF RestoreGraceEnds
    <3>6. ASSUME NEW f, UserFocuses(f) PROVE Kept
      BY <3>6 DEF UserFocuses
    <3>7. ASSUME UNCHANGED returnVars PROVE Kept
      BY <3>7 DEF returnVars
    <3>8. QED
      BY <1>1, <2>1, <3>1, <3>2, <3>3, <3>4, <3>5, <3>6, <3>7 DEF ReturnNext
  <2>4. QED
    BY <2>1, <2>2, <2>3
<1>2. [ReturnNext]_returnVars =>
        (restoring # Nothing /\ address' = address =>
           /\ restoring' \in {restoring, Nothing}
           /\ late => restoring' = Nothing \/ late'
           /\ late /\ Pump => restoring' = Nothing
           /\ RestoreGraceEnds => late' /\ restoring' = restoring)
  BY <1>1
<1>3. QED
  BY <1>2, PTL DEF ReturnSpec, RestoresNearTheirEnd
=============================================================================
