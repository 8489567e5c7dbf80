----------------------------- MODULE BoardShell -----------------------------
(***************************************************************************)
(* The shell around the board: its pages and the scope they give it        *)
(* (apps/web/src/app/board/board.ts, state/panes.store.ts), the layers     *)
(* over it (state/layout.service.ts, shared/), the rail and its drawer     *)
(* (rail/rail.ts), the `+' menu, and the keyboard that drives all of them  *)
(* (state/keyboard.service.ts, app.ts).                                    *)
(*                                                                         *)
(* A page is a tuple: <<"board">>, <<"board", w>>, <<"board", w, t>>,      *)
(* <<"pane", c>> or <<"settings">>.  An Angular effect runs before the     *)
(* next event, so every action ends in Settle, which applies the effects   *)
(* of the board and the rail to what the handler has written.  The board's *)
(* route effect runs when a signal it reads has changed, and only then.    *)
(***************************************************************************)
EXTENDS Destinations, Chords

CONSTANTS
  Keystroke,  \* bound: the keystrokes explored
  Override,   \* the prefix the user has chosen in the settings, or None
  HostPrefix, \* herdr's own prefix, None where no host reports keybinds
  Layer,      \* bound: the layers that may open
  Fleeting    \* bound: the workspaces, tabs and panes that close

\* KeyboardService.closeTopOverlay(): the top layer first.
Ladder == <<"help", "toast", "plus", "theme", "rail">>

ASSUME ShellAssumption == Layer \subseteq Range(Ladder)

VARIABLES
  page, workspaces, tabs, cards,
  scope,          \* PanesStore.scopeSignal: None, or [ws, tab]
  strayed,        \* whether the keyboard wrote the scope after the route did
  unresolved,     \* Board.unresolvedSince: "no", "waiting", or "over" the grace
  armed, chordTimer, previousTab,
  layers,         \* the layers that are open
  standIn,        \* whether a skeleton, a failed load or the empty state is drawn instead
  inert,          \* whether the page around the rail is inert
  pendingCreate   \* Board.pendingCreate

places   == <<page, workspaces, tabs, cards, scope, strayed, unresolved, inert, standIn>>
keyboard == <<armed, chordTimer, previousTab>>
vars == <<places, keyboard, layers, pendingCreate>>

Page == {<<"board">>, <<"settings">>} \cup {<<"board", w>> : w \in Workspace}
        \cup {<<"board", WorkspaceOf[t], t>> : t \in Tab} \cup {<<"pane", c>> : c \in Card}
Scopes == {None} \cup [ws : Workspace, tab : Tab \cup {None}]

OnBoard(p) == p[1] = "board"
routeWorkspaceId(p) == IF OnBoard(p) /\ Len(p) > 1 THEN p[2] ELSE None
routeTabId(p)       == IF OnBoard(p) /\ Len(p) > 2 THEN p[3] ELSE None
resolvedWorkspace(p, W) == IF routeWorkspaceId(p) \in W THEN routeWorkspaceId(p) ELSE None
resolvedTab(p, W, T) ==
  IF /\ resolvedWorkspace(p, W) # None /\ routeTabId(p) \in Range(T)
     /\ WorkspaceOf[routeTabId(p)] = resolvedWorkspace(p, W)
  THEN routeTabId(p) ELSE None
scopePending(p, W) == routeWorkspaceId(p) # None /\ resolvedWorkspace(p, W) = None
RouteScope(p, W, T) ==
  IF resolvedWorkspace(p, W) = None THEN None
  ELSE [ws |-> resolvedWorkspace(p, W), tab |-> resolvedTab(p, W, T)]

tabFilter == IF scope = None THEN None ELSE scope.tab
RailDrawn(p, W, instead) == OnBoard(p) /\ ~scopePending(p, W) /\ ~instead

----
(* What a handler leaves behind, and the effects that follow. *)

Now == [page |-> page, workspaces |-> workspaces, tabs |-> tabs, scope |-> scope,
        strayed |-> strayed, layers |-> layers, standIn |-> standIn, ask |-> pendingCreate,
        touched |-> {}]

\* The router builds a new Board unless the route has the same shape.
Rebuilt(p)  == OnBoard(p) /\ ~(OnBoard(page) /\ Len(p) = Len(page))
RailStays(n) ==
  /\ RailDrawn(page, workspaces, standIn) /\ RailDrawn(n.page, n.workspaces, n.standIn)
  /\ ~Rebuilt(n.page)

RouteReads(p, W, T) == <<routeWorkspaceId(p), routeTabId(p), resolvedWorkspace(p, W),
                         resolvedTab(p, W, T)>>
\* Mutant: a scope that only a navigation resolves.
RouteEffectRunsOnNavigation(n) == OnBoard(n.page) /\ (Rebuilt(n.page) \/ n.page # page)
RouteEffectRuns(n) ==
  /\ OnBoard(n.page)
  /\ \/ Rebuilt(n.page)
     \/ RouteReads(n.page, n.workspaces, n.tabs) # RouteReads(page, workspaces, tabs)
     \/ n.touched \cap Range(RouteReads(page, workspaces, tabs)) # {}

RouteEffect(n) ==
  IF RouteEffectRuns(n)
  THEN /\ scope' = RouteScope(n.page, n.workspaces, n.tabs) /\ strayed' = FALSE
       /\ unresolved' = IF ~scopePending(n.page, n.workspaces) THEN "no"
                        ELSE IF unresolved = "no" \/ Rebuilt(n.page) THEN "waiting"
                        ELSE unresolved
  ELSE scope' = n.scope /\ strayed' = n.strayed /\ unresolved' = unresolved

\* Rail.ngOnDestroy() closes the drawer; a rail that is drawn finds it open or not.
onDestroy(n) == n.layers \ {"rail"}
\* Mutant: a rail that goes away without giving the page back.
DrawerEffectNoDestroy(n) ==
  /\ layers' = n.layers
  /\ inert' = IF RailDrawn(n.page, n.workspaces, n.standIn) THEN "rail" \in n.layers ELSE inert
DrawerEffect(n) ==
  LET opened == "rail" \in n.layers /\ "rail" \notin layers
      closed == "rail" \notin n.layers /\ "rail" \in layers
  IN \/ /\ RailStays(n) /\ layers' = n.layers
        /\ \/ opened /\ inert' = TRUE
           \/ closed /\ inert' = FALSE
           \/ ~(opened \/ closed) /\ inert' = inert
     \/ /\ RailDrawn(page, workspaces, standIn) /\ ~RailStays(n)
        /\ layers' = onDestroy(n) /\ inert' = FALSE
     \/ /\ ~RailDrawn(page, workspaces, standIn) /\ RailDrawn(n.page, n.workspaces, n.standIn)
        /\ layers' = n.layers /\ inert' = ("rail" \in n.layers)
     \/ /\ ~RailDrawn(page, workspaces, standIn) /\ ~RailDrawn(n.page, n.workspaces, n.standIn)
        /\ layers' = n.layers /\ inert' = inert

Settle(n) ==
  /\ page' = n.page /\ workspaces' = n.workspaces /\ tabs' = n.tabs /\ standIn' = n.standIn
  /\ RouteEffect(n) /\ DrawerEffect(n)
  /\ pendingCreate' = IF Rebuilt(n.page) \/ ~OnBoard(n.page) THEN None ELSE n.ask

Init ==
  /\ page \in {<<"board">>} \cup {<<"board", w>> : w \in Workspace}
  /\ workspaces = Workspace /\ cards = Card /\ tabs = SetToSeq(Tab)
  /\ scope = RouteScope(page, workspaces, tabs) /\ strayed = FALSE
  /\ unresolved = IF scopePending(page, workspaces) THEN "waiting" ELSE "no"
  /\ armed = FALSE /\ chordTimer = FALSE /\ previousTab = None
  /\ layers = {} /\ inert = FALSE /\ standIn = TRUE /\ pendingCreate = None

----
(* The store and the pages. *)

\* A workspace, a tab or a pane is told of: new, or with a new name.
WorkspaceTold(w) ==
  /\ Settle([Now EXCEPT !.workspaces = @ \cup {w}, !.touched = {w}])
  /\ UNCHANGED <<cards, keyboard>>
WorkspaceClosed(w) ==
  /\ w \in workspaces \cap Fleeting
  /\ Settle([Now EXCEPT !.workspaces = @ \ {w}, !.tabs = SelectSeq(@, LAMBDA t : WorkspaceOf[t] # w)])
  /\ cards' = {c \in cards : WorkspaceOf[TabOf[c]] # w}
  /\ UNCHANGED keyboard
WithTab(T, t) == IF t \in Range(T) THEN T ELSE Append(T, t)
TabTold(t) ==
  /\ Settle([Now EXCEPT !.tabs = WithTab(@, t), !.touched = {t}])
  /\ UNCHANGED <<cards, keyboard>>
TabClosed(t) ==
  /\ t \in Range(tabs) \cap Fleeting
  /\ Settle([Now EXCEPT !.tabs = SelectSeq(@, LAMBDA x : x # t)])
  /\ cards' = {c \in cards : TabOf[c] # t}
  /\ UNCHANGED keyboard
CardTold(c) ==
  /\ c \notin cards /\ TabOf[c] \in Range(tabs) /\ cards' = cards \cup {c}
  /\ Settle(Now) /\ UNCHANGED keyboard
CardClosed(c) ==
  /\ c \in cards \cap Fleeting /\ cards' = cards \ {c}
  /\ Settle(Now) /\ UNCHANGED keyboard

\* A load begins, fails or ends, or the last host goes: the layout of the board
\* gives way to what stands in for it, or comes back.
StandInChanges ==
  Settle([Now EXCEPT !.standIn = ~@]) /\ UNCHANGED <<cards, keyboard>>

\* A link, the browser's own buttons, or the scope pill.
Navigate(p) ==
  /\ p \in Page /\ p # page
  /\ Settle([Now EXCEPT !.page = p]) /\ UNCHANGED <<cards, keyboard>>

\* Rail.onTabClick() and onWorkspaceClick(): the active row leads home.
RailClick(w, t) ==
  /\ RailDrawn(page, workspaces, standIn) /\ w \in workspaces
  /\ t # None => t \in Range(tabs) /\ WorkspaceOf[t] = w
  /\ Settle([Now EXCEPT !.layers = @ \ {"rail"},
                        !.page = IF scope = [ws |-> w, tab |-> t] THEN <<"board">>
                                 ELSE IF t = None THEN <<"board", w>> ELSE <<"board", w, t>>])
  /\ UNCHANGED <<cards, keyboard>>

\* SCOPE_RESOLVE_GRACE_MS have passed: the board says so.
GraceEnds ==
  /\ OnBoard(page) /\ unresolved = "waiting" /\ unresolved' = "over"
  /\ UNCHANGED <<page, workspaces, tabs, cards, scope, strayed, inert, standIn, keyboard,
                 layers, pendingCreate>>

----
(* The layers, by the pointer.  What is inert takes no click. *)

Layers(o) == Settle([Now EXCEPT !.layers = o]) /\ UNCHANGED <<cards, keyboard>>
Toggled(x) == IF x \in layers THEN layers \ {x} ELSE layers \cup {x}

\* A button, or what rises and ends by itself; help is opened by a key.
Toggle(x) ==
  /\ x \in Layer \ {"plus"} /\ (x = "help" => x \in layers)
  /\ x \in {"rail", "theme"} => ~inert
  /\ Layers(Toggled(x))
\* A tap on the backdrop, or a window that grows past 900 pixels: the drawer
\* is the inline rail now.
closeRail ==
  RailDrawn(page, workspaces, standIn) /\ "rail" \in layers /\ Layers(layers \ {"rail"})

----
(* The `+' menu of the board. *)

createHost ==
  IF resolvedWorkspace(page, workspaces) # None
  THEN HostOf[resolvedWorkspace(page, workspaces)] ELSE unscopedHost
available(kind) ==
  createHost # None /\ CREATE_DESTINATION[kind].cap \in Caps[createHost]
Choosable(kind) == destinationsFor(workspaces, tabs, cards, CREATE_DESTINATION[kind])
ambiguous(kind) ==
  resolvedWorkspace(page, workspaces) = None /\ \E d, e \in Choosable(kind) : d # e
\* Mutant: the tab the board is filtered to, not the one its address names.
scopedTargetPaneFiltered ==
  IF tabFilter = None THEN None ELSE firstPaneIn(tabFilter, cards)
scopedTargetPane ==
  LET t == resolvedTab(page, workspaces, tabs) IN IF t = None THEN None ELSE firstPaneIn(t, cards)

\* What is sent of a destination: a pane names its workspace and a pane of its
\* tab, a tab its workspace, a workspace its host alone.  What comes of it is
\* told like anything else, a failure by a toast.
Request(kind, host, w, c) ==
  [kind |-> kind, host |-> host, ws |-> IF kind = "workspace" THEN None ELSE w,
   pane |-> IF kind = "pane" THEN c ELSE None]
Sends(r, n) == r.host # None /\ Settle(n) /\ UNCHANGED <<cards, keyboard>>

MenuOpen == OnBoard(page) /\ ~inert /\ "plus" \in layers /\ \E k \in Kind : available(k)
togglePlusMenu ==
  /\ OnBoard(page) /\ ~inert /\ "plus" \in Layer /\ \E k \in Kind : available(k)
  /\ Settle([Now EXCEPT !.layers = Toggled("plus"), !.ask = None])
  /\ UNCHANGED <<cards, keyboard>>

\* newPane(), newTab() and newWorkspace().
AskWhere(kind) ==
  /\ MenuOpen /\ pendingCreate = None /\ available(kind) /\ ambiguous(kind)
  /\ Settle([Now EXCEPT !.ask = kind]) /\ UNCHANGED <<cards, keyboard>>
MayCreate(kind) == MenuOpen /\ pendingCreate = None /\ available(kind) /\ ~ambiguous(kind)
MenuRequest(kind) ==
  Request(kind, createHost, resolvedWorkspace(page, workspaces), scopedTargetPane)
Create(kind) ==
  MayCreate(kind) /\ Sends(MenuRequest(kind), [Now EXCEPT !.layers = @ \ {"plus"}])
PickRequest(d) == Request(pendingCreate, d.host, d.ws, d.pane)
onDestinationChosen(d) ==
  /\ MenuOpen /\ pendingCreate # None /\ d \in Choosable(pendingCreate)
  /\ Sends(PickRequest(d), [Now EXCEPT !.layers = @ \ {"plus"}, !.ask = None])
\* Rail.newPaneInTab(): the row is the destination.
newPaneInTab(t) ==
  /\ RailDrawn(page, workspaces, standIn)
  /\ t \in Range(tabs) /\ "paneCreate" \in Caps[HostOfTab(t)]
  /\ Sends(Request("pane", HostOfTab(t), WorkspaceOf[t], firstPaneIn(t, cards)), Now)

----
(* The keyboard.  A key goes to App.onKeydown() first, wherever the focus is, *)
(* and what is left of it to the menu or the rail the focus is in.            *)

prefix == prefixOf(Override, HostPrefix, None)
cardSwitcherAvailable == page[1] = "pane" /\ Len(siblings(page[2], cards)) > 1
\* A direct chord moves the focus, and nothing else that is modelled.
RunsDirect(e) == directActions(e, prefix) # {} /\ cardSwitcherAvailable
Heard(e) == Forwarded(e, layers # {}) /\ ~RunsDirect(e)

disarmChord == armed' = FALSE /\ chordTimer' = FALSE
ToTab(t)    == [Now EXCEPT !.scope = [ws |-> WorkspaceOf[t], tab |-> t], !.strayed = TRUE]
ToPane(s)   == IF s = <<>> THEN Now ELSE [Now EXCEPT !.page = <<"pane", Head(s)>>]
Same(n)     == Settle(n) /\ UNCHANGED previousTab

setCurrentTab(t) == previousTab' = tabFilter /\ Settle(ToTab(t))
tabNavigatorAvailable ==
  /\ page[1] = "pane" /\ page[2] \in cards
  /\ Len(tabEntries(WorkspaceOf[TabOf[page[2]]], tabs, cards)) > 1
currentIndex ==
  IF tabFilter \in Range(tabs) THEN (CHOOSE i \in DOMAIN tabs : tabs[i] = tabFilter) - 1 ELSE -1
nextIndex(d) == Wrapped(currentIndex + d, Len(tabs))
cycleTab(d) ==
  \/ /\ tabNavigatorAvailable
     /\ LET s == stepTab(TabOf[page[2]], tabs, cards, d)
        IN Same(ToPane(IF s = <<>> THEN s ELSE <<firstPaneIn(Head(s), cards)>>))
  \/ ~tabNavigatorAvailable /\ tabs # <<>> /\ setCurrentTab(tabs[nextIndex(d) + 1])
  \/ ~tabNavigatorAvailable /\ tabs = <<>> /\ Same(Now)
jumpTabByIndex(n) == IF n < Len(tabs) THEN setCurrentTab(tabs[n + 1]) ELSE Same(Now)
lastTab ==
  \/ previousTab = None /\ Same(Now)
  \/ /\ previousTab # None /\ previousTab' = tabFilter
     /\ Settle(IF previousTab \in Range(tabs) THEN ToTab(previousTab) ELSE Now)

\* KeyboardService.closeTopOverlay(); without a layer it leaves the scope.
TopLayer == Head(SelectSeq(Ladder, LAMBDA x : x \in layers))
closeTopOverlay ==
  IF layers # {} THEN [Now EXCEPT !.layers = @ \ {TopLayer}]
  ELSE IF scope # None THEN [Now EXCEPT !.page = <<"board">>] ELSE Now

Digit == <<"0", "1", "2", "3", "4", "5", "6", "7", "8", "9">>
\* KeyboardService.dispatchChordAction().
Chorded(key) ==
  \/ \E i \in DOMAIN Digit : key = Digit[i] /\ jumpTabByIndex(i - 1)
  \/ key = "n" /\ cycleTab(1)
  \/ key = "p" /\ cycleTab(-1)
  \/ key = "l" /\ lastTab
  \/ key = "w" /\ Same([Now EXCEPT !.layers = @ \cup ({"rail"} \cap Layer)])
  \/ key = "o" /\ Same(IF cardSwitcherAvailable THEN ToPane(nextSiblingCard(page[2], cards)) ELSE Now)
  \/ key = "?" /\ Same([Now EXCEPT !.layers = @ \cup ({"help"} \cap Layer)])
  \* Nothing of the shell: a prompt for the rail, and a pane for herdr's focus.
  \/ key \in {"&", ",", "c", "b", "i", "x", "t", "/"} /\ Same(Now)

Focus == {"page", "text", "rail", "menu"}
At(f) ==
  /\ f = "rail" => RailDrawn(page, workspaces, standIn) /\ "help" \notin layers
  /\ f = "menu" => MenuOpen /\ "help" \notin layers

PressInText(e) ==
  /\ armed /\ Heard(e) /\ disarmChord /\ Same(Now) /\ UNCHANGED cards
PressPrefix(e) ==
  /\ ~armed /\ matchesPrefix(prefix, e) /\ Heard(e) /\ armed' = TRUE /\ chordTimer' = TRUE
  /\ Same(Now) /\ UNCHANGED cards
ChordTimeout ==
  chordTimer /\ disarmChord /\ Same(Now) /\ UNCHANGED cards
PressChorded(e) ==
  armed /\ Heard(e) /\ disarmChord /\ Chorded(e.key) /\ UNCHANGED cards
PressHelp(e) ==
  /\ ~armed /\ e.key = "?" /\ Heard(e) /\ ~matchesPrefix(prefix, e)
  /\ Layers(layers \cup ({"help"} \cap Layer))

\* Escape closes a layer; the menu or the drawer the focus is in hears it too.
Bubbled(n, e, f) ==
  IF f = "menu" /\ "plus" \in n.layers THEN [n EXCEPT !.layers = @ \ {"plus"}, !.ask = None]
  ELSE IF f = "rail" /\ "rail" \in n.layers /\ e.mods = {} THEN [n EXCEPT !.layers = @ \ {"rail"}]
  ELSE n
PressEscape(e, f) ==
  /\ e.key = "Escape" /\ Heard(e) /\ f # "text" /\ At(f) /\ disarmChord
  /\ Same(Bubbled(IF armed THEN Now ELSE closeTopOverlay, e, f))
  /\ UNCHANGED cards

----
Store ==
  \/ \E w \in Workspace : WorkspaceTold(w) \/ WorkspaceClosed(w)
  \/ \E t \in Tab : TabTold(t) \/ TabClosed(t)
  \/ \E c \in Card : CardTold(c) \/ CardClosed(c)
  \/ StandInChanges
Pointer ==
  \/ \E p \in Page : Navigate(p)
  \/ \E w \in Workspace, t \in Tab \cup {None} : RailClick(w, t)
  \/ \E x \in Layer : Toggle(x)
  \/ closeRail \/ GraceEnds \/ togglePlusMenu
  \/ \E k \in Kind : AskWhere(k) \/ Create(k)
  \/ \E d \in UNION {Choosable(k) : k \in Kind} : onDestinationChosen(d)
  \/ \E t \in Tab : newPaneInTab(t)
Keyboard ==
  \/ ChordTimeout
  \/ \E e \in Keystroke :
       \/ PressInText(e) \/ PressPrefix(e) \/ PressChorded(e) \/ PressHelp(e)
       \/ \E f \in Focus : PressEscape(e, f)

Next == Store \/ Pointer \/ Keyboard
Spec == Init /\ [][Next]_vars

----
TypeOK ==
  /\ page \in Page /\ workspaces \subseteq Workspace /\ cards \subseteq Card
  /\ Range(tabs) \subseteq Tab /\ IsInjective(tabs)
  /\ scope \in Scopes /\ strayed \in BOOLEAN /\ unresolved \in {"no", "waiting", "over"}
  /\ armed \in BOOLEAN /\ chordTimer = armed /\ previousTab \in Tab \cup {None}
  /\ layers \subseteq Layer /\ {inert, standIn} \subseteq BOOLEAN
  /\ pendingCreate \in Kind \cup {None}

\* A board shows what its address names: whatever the store is told of, the
\* rail or a link does, the scope is that of the route, and none where the
\* route names nothing.  Only the keyboard's tab keys write another
\* (Board's route effect, PanesStore.scopeSignal).
ScopeIsTheRoutes ==
  OnBoard(page) /\ ~strayed => scope = RouteScope(page, workspaces, tabs)

\* The page is inert while the drawer of a rail that is drawn is open, and
\* never afterward: nothing else could give it back (Rail.applyInert,
\* clearInert, ngOnDestroy).
InertOnlyUnderADrawer == inert <=> RailDrawn(page, workspaces, standIn) /\ "rail" \in layers

\* A bare Escape closes layers and never leaves the page: App.onKeydown()
\* forwards it only where closeTopOverlay() finds a layer before the scope.
BareEscapeStays ==
  [][\A e \in {x \in Keystroke : isUnmodified(x, "Escape")}, f \in Focus :
       PressEscape(e, f) => page' = page /\ layers' \subseteq layers]_vars

\* A creation of the `+' menu goes where the board is, and otherwise where the
\* user said, to herdr's host of that place: a tab's board sends a pane of the
\* tab its address names, whichever tab the keyboard has filtered to since, and
\* a choice made in the list names the place as the store has it at the click
\* (Board.newPane, scopedTargetPane, onDestinationChosen, destinationsFor).
Lands(r, w, t) ==
  /\ r.host = HostOf[w]
  /\ r.kind # "workspace" => r.ws = w
  /\ r.kind = "pane" /\ (\E c \in cards : TabOf[c] = t) => r.pane \in cards /\ TabOf[r.pane] = t
CreationsAreAimed ==
  \A kind \in Kind :
    /\ MayCreate(kind) /\ resolvedWorkspace(page, workspaces) # None =>
         Lands(MenuRequest(kind), resolvedWorkspace(page, workspaces),
               resolvedTab(page, workspaces, tabs))
    /\ MenuOpen /\ pendingCreate = kind =>
         \A d \in Choosable(kind) : d.ws # None => Lands(PickRequest(d), d.ws, d.tab)

\* Not so in the code; the README says where (Disagreements).  A board without
\* a scope sends a creation unasked only where one host alone can create it.
GuessesAreAsked ==
  \A kind \in Kind :
    MayCreate(kind) /\ resolvedWorkspace(page, workspaces) = None =>
      Capable(CREATE_DESTINATION[kind].cap) = {createHost}
=============================================================================
