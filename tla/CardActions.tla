---- MODULE CardActions ----
(***************************************************************************)
(* What a card of the board asks of herdr, and how the answer is told:     *)
(* the actions, menus and dialogs of Card (apps/web/src/app/board/         *)
(* card.ts), the notice each action keeps while it runs                    *)
(* (ToastService.progress in state/toast.service.ts), and the column that  *)
(* draws the cards (board/column.ts, column.html).  Every action is a      *)
(* request over the connection of module Connection, so it ends with the   *)
(* bridge's answer or with the socket.                                     *)
(*                                                                         *)
(* A view is an instance of the component.  Up to fifty panes the column   *)
(* destroys a view with its pane; above that the views are recycled        *)
(* (Virtualized): a view whose pane has left is kept, and bound to the     *)
(* next pane that needs one.  Promise continuations run before anything    *)
(* else happens, so an answer and what the card does with it are one step. *)
(***************************************************************************)
EXTENDS Connection, ToastStack, Sequences

CONSTANTS
  Pane, View,
  Virtualized,  \* the column holds more than VIRTUALIZE_THRESHOLD panes
  Menu,         \* bound: the menus of a card that are explored
  Outcome,      \* bound: the ways a runtime call may end that are explored
  None

ASSUME CardAssumption ==
  /\ Virtualized \in BOOLEAN /\ Request \subseteq Nat /\ None \notin Pane \cup View
  /\ Menu \subseteq {"move", "split", "overflow"}

VARIABLES
  bound,    \* the pane each view holds, None when there is no such view
  shown,    \* the views attached to the page
  card,     \* the menu and dialogs of each view
  attempt,  \* each action asked for, with its notice
  toasts    \* the notice stack

cardsVars == <<connection, bound, shown, card, attempt, toasts>>

\* A view's own state; `for` remembers the pane the open menu or dialog was
\* opened on, and is read by the properties only.
Fresh == [menu |-> "none", close |-> FALSE, rename |-> FALSE, draft |-> FALSE, for |-> None]
\* An action: what, of which view and pane, meant for which; the timer of its
\* notice, and whether that was shown and has been settled.  `declined` marks
\* a move herdr answered with same_tab.
Unasked == [verb |-> "none", view |-> None, pane |-> None, meant |-> None,
            delay |-> FALSE, shown |-> FALSE, settled |-> FALSE, declined |-> FALSE]

Verb      == {"move", "split", "close", "rename"}
CardState == [menu : Menu \cup {"none"}, close : BOOLEAN, rename : BOOLEAN, draft : BOOLEAN,
              for : Pane \cup {None}]
Action    == [verb : Verb \cup {"none", "ended"}, view : View \cup {None},
              pane : Pane \cup {None}, meant : Pane \cup {None},
              delay : BOOLEAN, shown : BOOLEAN, settled : BOOLEAN, declined : BOOLEAN]

CONNECTION_NOTICE_KEY == <<"bridge", "connection">>
reconnectedKey        == <<"info", "bridgeReconnected">>
noticeKey(verb, pane) == <<verb, pane>>

Key(a)     == noticeKey(a.verb, a.pane)
Running(a) == a.verb # "none" /\ ~a.settled /\ ~a.declined
Modal      == \E v \in shown : card[v].close \/ card[v].rename
Closed(c)  == [c EXCEPT !.menu = "none", !.for = IF c.close \/ c.rename THEN c.for ELSE None]

----
(* ToastService.progress(), over a record of the stack and the action. *)

\* As settle(), but the flag is not set: a later end would count again.
SettledLater(a) == [a EXCEPT !.delay = FALSE]

\* settle(): the first end of the action is the one that counts.
Settled(a) == [Unasked EXCEPT !.verb = "ended", !.settled = TRUE]

\* resolve() takes away the notice that was shown.
resolve(stack, a) ==
  IF ~a.settled /\ a.shown THEN dismiss(stack, Key(a)) ELSE stack

\* fail() turns it into the error, in place.
fail(stack, a) ==
  IF a.settled THEN stack ELSE push(stack, Key(a), "error", FALSE)

----
(* What a card does when its request settles. *)

\* The state a continuation may change.
Page == [toasts |-> toasts, card |-> card, attempt |-> attempt]

\* The pane the action's component holds now.
Held(a) == IF a.view = None THEN a.pane ELSE bound[a.view]

\* The rename dialog, open again with what was typed.
Reopened(c, pane) ==
  [c EXCEPT !.rename = TRUE, !.draft = TRUE, !.for = IF c.for = None THEN pane ELSE c.for]

\* doMove, doSplit, confirmClose and onRenameSaved after their await.  A move
\* within its own tab is taken off the stack, but its progress is not settled.
\* A rename that failed opens its dialog again, with what was typed.
ended(page, r, result) ==
  LET a == page.attempt[r]
      settled == [page.attempt EXCEPT ![r] = Settled(a)]
      renames == a.verb = "rename" /\ a.view # None
  IN  CASE result = "done" ->
             [toasts |-> resolve(page.toasts, a), attempt |-> settled,
              card |-> IF renames THEN [page.card EXCEPT ![a.view].draft = FALSE] ELSE page.card]
        [] result = "same_tab" ->
             [toasts |-> dismiss(page.toasts, noticeKey("move", Held(a))), card |-> page.card,
              attempt |-> [page.attempt EXCEPT ![r].declined = TRUE]]
        [] OTHER ->
             [toasts |-> fail(page.toasts, a), attempt |-> settled,
              card |-> IF renames
                       THEN [page.card EXCEPT ![a.view] = Reopened(page.card[a.view], a.meant)]
                       ELSE page.card]

\* The same of every promise a close rejects.  Errors under different keys do
\* not meet, and of the renames of one view the first says what it was for.
endedAll(page, rejected) ==
  LET failed == {r \in rejected : ~page.attempt[r].settled}
      renames(v) == {r \in rejected : page.attempt[r].verb = "rename" /\ page.attempt[r].view = v}
      first(v) == CHOOSE r \in renames(v) : \A q \in renames(v) : r <= q
  IN  [toasts  |-> pushErrors(page.toasts, {Key(page.attempt[r]) : r \in failed}),
       card    |-> [v \in View |->
                     IF renames(v) = {} THEN page.card[v]
                     ELSE Reopened(page.card[v], page.attempt[first(v)].meant)],
       attempt |-> [r \in Request |-> IF r \in rejected THEN Settled(page.attempt[r])
                                      ELSE page.attempt[r]]]

Become(page) ==
  /\ toasts' = page.toasts /\ card' = page.card /\ attempt' = page.attempt

----
(* The socket, with the notices WsClient pushes. *)

\* As Opens, but the notice of the outage is not taken away.
OpensQuietly ==
  /\ SocketOpens
  /\ toasts' = IF ~connectionLost THEN toasts ELSE push(toasts, reconnectedKey, "info", FALSE)
  /\ UNCHANGED <<bound, shown, card, attempt>>

Opens ==
  /\ SocketOpens
  /\ toasts' = IF ~connectionLost THEN toasts
               ELSE push(dismiss(toasts, CONNECTION_NOTICE_KEY), reconnectedKey, "info", FALSE)
  /\ UNCHANGED <<bound, shown, card, attempt>>

\* The close listener announces the outage once; then the continuations of the
\* requests it rejected run.
Closes ==
  /\ SocketCloses
  /\ LET told == IF readyState = "open" /\ ~connectionLost
                 THEN push(toasts, CONNECTION_NOTICE_KEY, "warn", TRUE) ELSE toasts
     IN  Become(endedAll([toasts |-> told, card |-> card, attempt |-> attempt], rejectAllPending))
  /\ UNCHANGED <<bound, shown>>

Reopens == Reopen /\ UNCHANGED <<bound, shown, card, attempt, toasts>>

Method(verb) == "pane." \o verb

\* The bridge carries out a request; herdr may decline a move.
BridgeHandles(r) ==
  /\ LET verb == attempt[r].verb
     IN  \/ \E outcome \in Runtime(Method(verb)) \cap Outcome :
              Handle(r, dispatch(Method(verb), Needs(Method(verb)), TRUE, outcome))
         \/ \E reason \in {"same_tab", "zoomed_tab"} : verb = "move" /\ Handle(r, reason)
  /\ UNCHANGED <<bound, shown, card, attempt, toasts>>

Answered(r) ==
  /\ Deliver(r)
  /\ IF r \in pending THEN Become(ended(Page, r, answer[r])) ELSE UNCHANGED <<toasts, card, attempt>>
  /\ UNCHANGED <<bound, shown>>

----
(* The timers of the stack and of progress(), and the user's dismissals. *)

DelayEnds(r) ==
  /\ attempt[r].delay
  /\ attempt' = [attempt EXCEPT ![r].delay = FALSE, ![r].shown = ~attempt[r].settled]
  /\ toasts' = IF attempt[r].settled THEN toasts ELSE push(toasts, Key(attempt[r]), "info", TRUE)
  /\ UNCHANGED <<connection, bound, shown, card>>

TimerEnds ==
  /\ \E key \in toasts.timers : toasts' = dismiss(toasts, key)
  /\ UNCHANGED <<connection, bound, shown, card, attempt>>

\* dismiss() from a toast's own button, dismissTop() on Escape.
UserDismisses ==
  /\ \E toast \in toasts.list : toasts' = dismiss(toasts, toast.key)
  /\ UNCHANGED <<connection, bound, shown, card, attempt>>

----
(* The card.  An open dialog makes all else inert. *)

For(v) == IF card[v].for = None THEN bound[v] ELSE card[v].for

\* toggleMenu(); a click anywhere else closes a menu (onDocumentClick), so the
\* menus of the other cards close.
toggleMenu(v, menu) ==
  /\ v \in shown /\ ~Modal
  /\ card' = [w \in View |->
               IF w # v \/ card[v].menu = menu THEN Closed(card[w])
               ELSE [card[v] EXCEPT !.menu = menu, !.for = For(v)]]
  /\ UNCHANGED <<connection, bound, shown, attempt, toasts>>

\* Escape, a click outside, or a scroll.
closeMenu(v) ==
  /\ card[v].menu # "none"
  /\ card' = [card EXCEPT ![v] = Closed(card[v])]
  /\ UNCHANGED <<connection, bound, shown, attempt, toasts>>

\* `rest`, in the action row or in the menu.
onCloseClick(v) ==
  /\ v \in shown /\ ~Modal
  /\ card' = [card EXCEPT ![v] = [card[v] EXCEPT !.menu = "none", !.close = TRUE, !.for = For(v)]]
  /\ UNCHANGED <<connection, bound, shown, attempt, toasts>>

onRenameClick(v) ==
  /\ v \in shown /\ ~Modal /\ card[v].menu = "overflow"
  /\ card' = [card EXCEPT ![v] = [card[v] EXCEPT !.menu = "none", !.rename = TRUE, !.draft = FALSE,
                                               !.for = For(v)]]
  /\ UNCHANGED <<connection, bound, shown, attempt, toasts>>

onRenameCancelled(v) ==
  /\ v \in shown /\ card[v].rename
  /\ card' = [card EXCEPT ![v] = Closed([card[v] EXCEPT !.rename = FALSE, !.draft = FALSE])]
  /\ UNCHANGED <<connection, bound, shown, attempt, toasts>>

CloseCancelled(v) ==
  /\ v \in shown /\ card[v].close
  /\ card' = [card EXCEPT ![v] = Closed([card[v] EXCEPT !.close = FALSE])]
  /\ UNCHANGED <<connection, bound, shown, attempt, toasts>>

Asked(v, verb) ==
  [Unasked EXCEPT !.verb = verb, !.view = v, !.pane = bound[v], !.meant = For(v), !.delay = TRUE]
Unsent == {r \in Request : attempt[r].verb = "none"}

\* An action begins: its notice, and its request; a request is refused at once
\* when the socket is not open.
Ask(v, verb, asked) ==
  /\ \E r \in Unsent :
       /\ \A i \in Unsent : r <= i
       /\ LET page == [toasts |-> toasts, card |-> asked,
                       attempt |-> [attempt EXCEPT ![r] = Asked(v, verb)]]
          IN  IF readyState = "open"
              THEN Send(r) /\ Become(page)
              ELSE Refuse(r) /\ Become(ended(page, r, "not connected"))
  /\ UNCHANGED <<bound, shown>>

doMove(v) ==
  /\ v \in shown /\ ~Modal /\ card[v].menu \in {"move", "overflow"}
  /\ Ask(v, "move", [card EXCEPT ![v] = Closed(card[v])])

doSplit(v) ==
  /\ v \in shown /\ ~Modal /\ card[v].menu \in {"split", "overflow"}
  /\ Ask(v, "split", [card EXCEPT ![v] = Closed(card[v])])

confirmClose(v) ==
  /\ v \in shown /\ card[v].close
  /\ Ask(v, "close", [card EXCEPT ![v] = Closed([card[v] EXCEPT !.close = FALSE])])

onRenameSaved(v) ==
  /\ v \in shown /\ card[v].rename
  /\ Ask(v, "rename", [card EXCEPT ![v] = Closed([card[v] EXCEPT !.rename = FALSE])])

----
(* The column: @for destroys a view, cdkVirtualFor keeps it to bind it again. *)

\* As Leaves, but the view stays to be used again whatever the column.
LeavesCached(v) ==
  /\ v \in shown
  /\ shown' = shown \ {v}
  /\ UNCHANGED <<connection, bound, card, attempt, toasts>>

Leaves(v) ==
  /\ v \in shown
  /\ shown' = shown \ {v}
  /\ IF Virtualized
     THEN UNCHANGED <<bound, card, attempt>>
     ELSE /\ bound' = [bound EXCEPT ![v] = None]
          /\ card' = [card EXCEPT ![v] = Fresh]
          /\ attempt' = [r \in Request |-> IF attempt[r].view = v
                                           THEN [attempt[r] EXCEPT !.view = None] ELSE attempt[r]]
  /\ UNCHANGED <<connection, toasts>>

Enters(p) ==
  /\ \A v \in shown : bound[v] # p
  /\ \E v \in View \ shown :
       /\ (\E w \in View \ shown : bound[w] # None) => bound[v] # None
       /\ bound' = [bound EXCEPT ![v] = p]
       /\ shown' = shown \cup {v}
  /\ UNCHANGED <<connection, card, attempt, toasts>>

----
CardsInit ==
  /\ ConnectionInit
  /\ bound = [v \in View |-> None] /\ shown = {}
  /\ card = [v \in View |-> Fresh]
  /\ attempt = [r \in Request |-> Unasked]
  /\ toasts = EmptyStack

CardsNext ==
  \/ Opens \/ Closes \/ Reopens \/ TimerEnds \/ UserDismisses
  \/ \E r \in Request : BridgeHandles(r) \/ Answered(r) \/ DelayEnds(r)
  \/ \E v \in View : \/ \E menu \in Menu : toggleMenu(v, menu)
                     \/ closeMenu(v) \/ onCloseClick(v) \/ onRenameClick(v)
                     \/ onRenameCancelled(v) \/ CloseCancelled(v)
                     \/ doMove(v) \/ doSplit(v) \/ confirmClose(v) \/ onRenameSaved(v)
                     \/ Leaves(v)
  \/ \E p \in Pane : Enters(p)

CardsSpec == CardsInit /\ [][CardsNext]_cardsVars

----
CardsTypeOK ==
  /\ webSocket \in 1..MaxSockets /\ readyState \in {"connecting", "open", "closed"}
  /\ reconnectTimer = (readyState = "closed")
  /\ pending \subseteq Request /\ sent \in [Request -> 0..MaxSockets]
  /\ bound \in [View -> Pane \cup {None}] /\ shown \subseteq {v \in View : bound[v] # None}
  /\ card \in [View -> CardState] /\ attempt \in [Request -> Action]
  /\ \A v \in View : (card[v].for = None) = (card[v].menu = "none" /\ ~card[v].close /\ ~card[v].rename)
  /\ \A v, w \in shown : bound[v] = bound[w] => v = w

\* An action runs exactly as long as its promise is pending: no close of a
\* socket, late answer or refused request ends one without ending the other,
\* so no action is told twice or never.
ActionsEndWithTheirPromises ==
  pending = {r \in Request : Running(attempt[r])}

\* The stack's bookkeeping: one toast under a key, and a timer for exactly the
\* toasts that leave by themselves, also when an error under a key becomes the
\* working notice of the retry, or the other way round (push restarts "the
\* clock", toast.service.ts).
TimersMatchToasts == StackIsSound(toasts)

\* A notice that stays is true: the outage it tells of lasts, or an action it
\* tells of is running (or was declined as same_tab, which settles nothing).
LastingNoticesAreTrue ==
  \A toast \in toasts.list : toast.persistent =>
    \/ toast.key = CONNECTION_NOTICE_KEY /\ connectionLost /\ readyState # "open"
    \/ \E r \in Request : /\ Key(attempt[r]) = toast.key
                          /\ Running(attempt[r]) \/ attempt[r].declined

\* toast.service.ts, of a ProgressNotice: "Every path out of the action
\* resolves it exactly once", so no notice works on without its action.
\* Not so in the code; the README says where (Disagreements).
NoticesEndWithTheirActions ==
  \A toast \in toasts.list : toast.persistent =>
    \/ toast.key = CONNECTION_NOTICE_KEY
    \/ \E r \in Request : Key(attempt[r]) = toast.key /\ Running(attempt[r])

\* An action reaches the pane whose card the menu or dialog was opened on:
\* "clicking it opens the close confirmation for the menu's own card, never
\* the neighbour's" (openspec/specs/board-card-actions/spec.md).
ActsOnItsOwnCard ==
  \A r \in Request : attempt[r].pane = attempt[r].meant

----
(* What these rest on. *)

\* An action is asked for once, ends once, and is declined or settled.
ActionsAreAskedOnce ==
  \A r \in Request :
    /\ attempt[r].verb = "none" =>
         ~attempt[r].delay /\ ~attempt[r].shown /\ ~attempt[r].settled /\ ~attempt[r].declined
    /\ attempt[r].settled => ~attempt[r].delay /\ ~attempt[r].declined

\* A lasting notice of an action is one that an action has shown.
LastingNoticesAreShown ==
  \A toast \in toasts.list : toast.persistent =>
    \/ toast.key = CONNECTION_NOTICE_KEY /\ connectionLost /\ readyState # "open"
    \/ \E r \in Request : /\ Key(attempt[r]) = toast.key /\ attempt[r].shown
                          /\ Running(attempt[r]) \/ attempt[r].declined

SocketIsRetried ==
  /\ readyState \in {"connecting", "open", "closed"}
  /\ reconnectTimer => readyState = "closed"

\* Views that are not recycled: one off the page holds nothing, and an action
\* knows a view only while that shows the pane it was asked for.
ViewsHoldTheirPane ==
  /\ \A v \in View \ shown : bound[v] = None
  /\ \A v \in View : card[v].for \in {None, bound[v]}
  /\ \A r \in Request : attempt[r].view # None =>
       attempt[r].view \in shown /\ attempt[r].pane = bound[attempt[r].view]

PromiseInv ==
  /\ pending \subseteq Request /\ sent \in [Request -> Nat]
  /\ frame \in [Request -> {"none", "up", "down"}]
  /\ webSocket \in Nat /\ SocketIsRetried /\ PromisesCanSettle
CardTypes ==
  /\ bound \in [View -> Pane \cup {None}] /\ shown \subseteq View
  /\ card \in [View -> CardState] /\ attempt \in [Request -> Action]
ActionInv == CardTypes /\ ActionsAreAskedOnce /\ ActionsEndWithTheirPromises
NoticeInv == PromiseInv /\ ActionInv /\ LastingNoticesAreShown
ViewInv   == PromiseInv /\ ActionInv /\ ViewsHoldTheirPane /\ ActsOnItsOwnCard
====
