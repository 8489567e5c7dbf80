---------------------------- MODULE CascadePurge ----------------------------
(***************************************************************************)
(* The tree of workspaces, tabs and panes of one herdr host as the bridge  *)
(* and a subscribed board mirror it: WorkspaceTabNameCache                 *)
(* (apps/bridge/src/herdr/names.ts) and paneAgentStatus of HostRuntime     *)
(* (hosts.ts) on one side, the three maps of PanesStore                    *)
(* (apps/web/src/app/state/panes.store.ts) on the other.                   *)
(*                                                                         *)
(* Herdr's pushes name what was closed, not what closed with it: both      *)
(* mirrors purge what they hold under it (docs/adr/0005).  The pushes      *)
(* arrive in order; the answers to the board's own requests are applied on *)
(* both sides too, and may overtake the pushes or be overtaken by them.    *)
(*                                                                         *)
(* This is one life of the bridge's link with one board that stays         *)
(* subscribed, and every pane's death is pushed: BoardSync has outages,    *)
(* lists, and deaths that herdr does not push.  Names are left out, and so *)
(* are agent statuses, except for how long the bridge has watched one.     *)
(***************************************************************************)
EXTENDS Naturals, Sequences

CONSTANTS
  Workspace, Tab, Pane,
  Home,         \* the workspace of each tab, which never changes
  MaxOps,       \* bound: operations of herdr in a behaviour
  MaxPushes     \* bound: pushes in flight when herdr does more

Nowhere == "nowhere"

ASSUME TreeAssumption ==
  Home \in [Tab -> Workspace] /\ MaxPushes \in Nat /\ MaxOps \in Nat /\ Nowhere \notin Tab

VARIABLES
  place,     \* herdr: pane -> its tab; Nowhere before its birth and after
  used,      \* tabs and panes that exist or existed: ids are not used again
  ops,       \* operations so far
  pushes,    \* pushed events on their way to the bridge, in order
  asked,     \* the answer to the board's lifecycle request, on its way
  rename,    \* the answer to its pane.rename, on its way
  poll,      \* pollAgentStatus: the snapshot `known`, and the answer
  bridge,    \* paneAgentStatus, panePlacements, tabWorkspace, workspaces
  board,     \* panesSignal, tabsSignal, workspacesSignal
  raced,     \* panes moved while an answer that shows them was on its way
  moveEnded  \* tabs gone because a last pane was moved out

herdrVars == <<place, used, ops>>
requests == <<asked, rename>>
vars == <<herdrVars, pushes, requests, poll, bridge, board, raced, moveEnded>>

Places == [Pane -> Tab \cup {Nowhere}]
Age == {"unseen", "atConnect", "watched"}
Op == [name : {"split", "createTab", "createSpace", "movePane"}, pane : Pane, tab : Tab]
        \cup [name : {"closePane", "exit", "renamePane"}, pane : Pane]
        \cup [name : {"closeTab", "renameTab"}, tab : Tab]
        \cup [name : {"closeSpace", "renameSpace", "orderTabs"}, space : Workspace]

(* What a push or an answer says: where panes are, which tabs and          *)
(* workspaces there are, and what is closed.                               *)
Event == [kind : {"plain", "moved", "renamed", "ordered"},
          shows : UNION {[S -> Tab] : S \in SUBSET Pane},
          tabs : SUBSET Tab, spaces : SUBSET Workspace,
          noPanes : SUBSET Pane, noTabs : SUBSET Tab, noSpaces : SUBSET Workspace]

Idle == [stage |-> "idle"]

TypeOK ==
  /\ place \in Places
  /\ used \subseteq Tab \cup Pane
  /\ ops \in 0 .. MaxOps
  /\ pushes \in Seq(Event)
  /\ asked \in Event \cup {Idle}
  /\ rename \in Event \cup {Idle}
  /\ poll \in {Idle} \cup [stage : {"answered"}, known : SUBSET Pane, answer : Places]
  /\ bridge \in [age : [Pane -> Age], at : Places, tabs : SUBSET Tab, spaces : SUBSET Workspace]
  /\ board \in [card : Places, tabs : SUBSET Tab, spaces : SUBSET Workspace]
  /\ raced \subseteq Pane
  /\ moveEnded \subseteq Tab

Live(tree) == {p \in Pane : tree[p] # Nowhere}
Open(tree) == {tree[p] : p \in Live(tree)}
Spaces(tabs) == {Home[t] : t \in tabs}
TabsOf(spaces, tabs) == {t \in tabs : Home[t] \in spaces}

Init ==
  /\ place \in Places /\ Live(place) # {}
  /\ used = Live(place) \cup Open(place)
  /\ ops = 0 /\ pushes = <<>>
  /\ asked = Idle /\ rename = Idle /\ poll = Idle
  /\ bridge = [age |-> [p \in Pane |-> IF p \in Live(place) THEN "atConnect" ELSE "unseen"],
               at |-> place, tabs |-> Open(place), spaces |-> Spaces(Open(place))]
  /\ board = [card |-> place, tabs |-> Open(place), spaces |-> Spaces(Open(place))]
  /\ raced = {} /\ moveEnded = {}

-----------------------------------------------------------------------------
(* Herdr: what an operation does to the tree, and what is said about it.   *)
(* A tab is closed with its last pane, a workspace with its last tab.      *)

CanDo(o) ==
  \/ o.name = "split" /\ o.pane \notin used /\ o.tab \in Open(place)
  \/ o.name = "createTab" /\ {o.pane, o.tab} \cap used = {} /\ Home[o.tab] \in Spaces(Open(place))
  \/ o.name = "createSpace" /\ {o.pane, o.tab} \cap used = {} /\ Home[o.tab] \notin Spaces(used \cap Tab)
  \/ /\ o.name = "movePane" /\ o.pane \in Live(place) /\ place[o.pane] # o.tab
     /\ \/ o.tab \in Open(place)
        \/ o.tab \notin used /\ Home[o.tab] \in Spaces(Open(place))
        \/ o.tab \notin used /\ Home[o.tab] \notin Spaces(used \cap Tab)
  \/ o.name \in {"closePane", "exit", "renamePane"} /\ o.pane \in Live(place)
  \/ o.name \in {"closeTab", "renameTab"} /\ o.tab \in Open(place)
  \/ o.name \in {"closeSpace", "renameSpace", "orderTabs"} /\ o.space \in Spaces(Open(place))

Closes(o, p) ==
  \/ o.name \in {"closePane", "exit"} /\ p = o.pane
  \/ o.name = "closeTab" /\ place[p] = o.tab
  \/ o.name = "closeSpace" /\ place[p] # Nowhere /\ Home[place[p]] = o.space

After(o) ==
  [p \in Pane |-> IF Closes(o, p) THEN Nowhere
                  ELSE IF o.name \in {"split", "createTab", "createSpace", "movePane"} /\ p = o.pane
                  THEN o.tab ELSE place[p]]

Nothing == [kind |-> "plain", shows |-> [q \in {} |-> Nowhere], tabs |-> {}, spaces |-> {},
            noPanes |-> {}, noTabs |-> {}, noSpaces |-> {}]

Shown(p, t) == [Nothing EXCEPT !.shows = [q \in {p} |-> t]]

\* What the answer to o says.
Result(o) ==
  LET tabs == Open(place)
      left == Open(After(o))
  IN CASE o.name = "split"       -> Shown(o.pane, o.tab)
       [] o.name = "createTab"   -> [Shown(o.pane, o.tab) EXCEPT !.tabs = {o.tab}]
       [] o.name = "createSpace" -> [Shown(o.pane, o.tab) EXCEPT !.tabs = {o.tab},
                                                                 !.spaces = {Home[o.tab]}]
       [] o.name = "movePane"    -> [Shown(o.pane, o.tab) EXCEPT
                                       !.kind = "moved",
                                       !.tabs = left \ tabs, !.noTabs = tabs \ left,
                                       !.spaces = Spaces(left) \ Spaces(tabs),
                                       !.noSpaces = Spaces(tabs) \ Spaces(left)]
       [] o.name = "closePane"   -> [Nothing EXCEPT !.noPanes = {o.pane}]
       [] o.name = "renamePane"  -> Shown(o.pane, place[o.pane])
       [] o.name = "closeTab"    -> [Nothing EXCEPT !.noTabs = {o.tab}]
       [] o.name = "renameTab"   -> [Nothing EXCEPT !.kind = "renamed", !.tabs = {o.tab}]
       [] o.name = "closeSpace"  -> [Nothing EXCEPT !.noSpaces = {o.space}]
       [] o.name = "renameSpace" -> [Nothing EXCEPT !.kind = "renamed", !.spaces = {o.space}]
       [] o.name = "orderTabs"   -> [Nothing EXCEPT !.kind = "ordered",
                                       !.tabs = TabsOf({o.space}, tabs)]

\* The pushes about what o names: one for each thing created.
Says(o) ==
  CASE o.name = "createTab" -> <<[Nothing EXCEPT !.tabs = {o.tab}], Shown(o.pane, o.tab)>>
    [] o.name = "createSpace" -> <<[Nothing EXCEPT !.spaces = {Home[o.tab]}],
                                   [Nothing EXCEPT !.tabs = {o.tab}], Shown(o.pane, o.tab)>>
    [] o.name = "exit" -> <<>>
    [] OTHER -> <<Result(o)>>

\* A pane or tab may take its workspace along: that is pushed too.  A tab that
\* went with its last pane is not, nor a pane that exited (hosts.ts:668-672).
Cascade(o) ==
  LET closed == Spaces(Open(place)) \ Spaces(Open(After(o)))
  IN IF o.name \in {"closePane", "exit", "closeTab"} /\ closed # {}
     THEN <<[Nothing EXCEPT !.noSpaces = closed]>> ELSE <<>>

\* Panes an answer on its way shows.
Answering ==
  UNION {DOMAIN e.shows : e \in {asked, rename} \ {Idle}}
    \cup {p \in Pane : poll.stage = "answered" /\ poll.answer[p] # Nowhere}

\* Tabs that went with the last pane of theirs, or of their workspace.
Ended(o) ==
  (Open(place) \ Open(After(o)))
    \cup TabsOf(Spaces(Open(place)) \ Spaces(Open(After(o))), Tab)

HerdrDoes(o) ==
  /\ Len(pushes) < MaxPushes /\ ops < MaxOps
  /\ CanDo(o)
  /\ ops' = ops + 1
  /\ place' = After(o)
  /\ used' = used \cup Live(After(o)) \cup Open(After(o))
  /\ pushes' = pushes \o Says(o) \o Cascade(o)
  /\ moveEnded' = IF o.name = "movePane" THEN moveEnded \cup Ended(o)
                 ELSE moveEnded
  /\ raced' = IF o.name = "movePane" THEN raced \cup ({o.pane} \cap Answering) ELSE raced

-----------------------------------------------------------------------------
(* The mirrors.  What an event shows is applied before what it closes.     *)

Shows(places, e) == [p \in Pane |-> IF p \in DOMAIN e.shows THEN e.shows[p] ELSE places[p]]

\* untrackPane, purgeTab, and purgeWorkspace by way of the tabs it knows.
Gone(b, e) ==
  {p \in Pane : \/ p \in e.noPanes
                \/ Shows(b.at, e)[p] \in e.noTabs \cup TabsOf(e.noSpaces, b.tabs \cup e.tabs)}

\* Mutant: a purged pane keeps its status baseline (no purgeCascade).
KeepsBaseline(b, e) ==
  [p \in Pane |-> IF p \in e.noPanes THEN "unseen"
                  ELSE IF p \in DOMAIN e.shows /\ b.age[p] = "unseen" THEN "watched"
                  ELSE b.age[p]]

\* Mutant: applyPaneMoveCache purges what the pane left before it tracks it.
PurgesThenTracks(b, e) ==
  LET left == {p \in Pane : b.at[p] \in e.noTabs \cup TabsOf(e.noSpaces, b.tabs)}
  IN [p \in Pane |-> IF p \in Gone(b, e) THEN "unseen"
                      ELSE IF p \in DOMAIN e.shows /\ (b.age[p] = "unseen" \/ p \in left) THEN "watched"
                      ELSE b.age[p]]

\* trackPane: an unknown pane is stamped, a known one keeps its stamp.
AgeAfter(b, e) ==
  [p \in Pane |-> IF p \in Gone(b, e) THEN "unseen"
                  ELSE IF p \in DOMAIN e.shows /\ b.age[p] = "unseen" THEN "watched"
                  ELSE b.age[p]]

BridgeAfter(b, e) ==
  [age |-> AgeAfter(b, e),
   at |-> [p \in Pane |-> IF p \in Gone(b, e) THEN Nowhere ELSE Shows(b.at, e)[p]],
   tabs |-> (b.tabs \cup e.tabs) \ (e.noTabs \cup TabsOf(e.noSpaces, Tab)),
   spaces |-> (b.spaces \cup e.spaces) \ e.noSpaces]

Closed(e, t) == t \in Tab /\ (t \in e.noTabs \/ Home[t] \in e.noSpaces)

\* Mutant: the cards of what closed are looked up before the pane is moved.
CardsBeforeMove(b, e) ==
  [p \in Pane |-> IF p \in e.noPanes \/ Closed(e, b.card[p]) THEN Nowhere
                  ELSE Shows(b.card, e)[p]]

\* Only a closing takes cards along: a move leaves nobody behind.
CardsAfter(b, e) ==
  [p \in Pane |-> IF p \in e.noPanes \/ (e.kind # "moved" /\ Closed(e, Shows(b.card, e)[p]))
                  THEN Nowhere ELSE Shows(b.card, e)[p]]

\* Mutant: a reordering takes the rows of the workspace and adds none.
RowsOnlyRemoved(b, e) ==
  {t \in CASE e.kind = "plain" \/ e.kind = "moved" -> b.tabs \cup e.tabs
           [] e.kind = "renamed" -> b.tabs
           [] e.kind = "ordered" -> b.tabs \ TabsOf(Spaces(e.tabs), b.tabs) : ~Closed(e, t)}

\* A rename adds no row, a reordering replaces its workspace's rows.
RowsAfter(b, e) ==
  {t \in CASE e.kind = "plain" \/ e.kind = "moved" -> b.tabs \cup e.tabs
           [] e.kind = "renamed" -> b.tabs
           [] e.kind = "ordered" -> (b.tabs \ TabsOf(Spaces(e.tabs), b.tabs)) \cup e.tabs :
     ~Closed(e, t)}

\* applyLifecycleEvent.
BoardAfter(b, e) ==
  [card |-> CardsAfter(b, e),
   tabs |-> RowsAfter(b, e),
   spaces |-> (IF e.kind = "renamed" THEN b.spaces ELSE b.spaces \cup e.spaces) \ e.noSpaces]

-----------------------------------------------------------------------------

\* Somebody else does it: herdr's own interface, or another client's request.
Elsewhere(o) ==
  /\ HerdrDoes(o)
  /\ UNCHANGED <<requests, poll, bridge, board>>

\* handlePushedEvent, and applyFrame on the board.
HandlePush ==
  /\ pushes # <<>>
  /\ bridge' = BridgeAfter(bridge, Head(pushes))
  /\ board' = BoardAfter(board, Head(pushes))
  /\ pushes' = Tail(pushes)
  /\ UNCHANGED <<herdrVars, requests, poll, raced, moveEnded>>

\* A lifecycle request of the board: the host's mutationQueue serves one at a
\* time, and its answer goes its own way.
Served(o) ==
  /\ asked = Idle
  /\ o.name \notin {"exit", "renamePane", "orderTabs"}
  /\ HerdrDoes(o)
  /\ asked' = Result(o)
  /\ UNCHANGED <<rename, poll, bridge, board>>

\* The answer: the lifecycle request's bookkeeping on the bridge, and the
\* board's own action, which applies the result without waiting for a push.
Answered ==
  /\ asked # Idle
  /\ bridge' = BridgeAfter(bridge, asked)
  /\ board' = BoardAfter(board, asked)
  /\ asked' = Idle
  /\ UNCHANGED <<herdrVars, pushes, rename, poll, raced, moveEnded>>

\* pane.rename has a queue of its own.
RenameServed(p) ==
  /\ rename = Idle
  /\ HerdrDoes([name |-> "renamePane", pane |-> p])
  /\ rename' = Result([name |-> "renamePane", pane |-> p])
  /\ UNCHANGED <<asked, poll, bridge, board>>

RenameAnswered ==
  /\ rename # Idle
  /\ bridge' = BridgeAfter(bridge, rename)
  /\ board' = BoardAfter(board, rename)
  /\ rename' = Idle
  /\ UNCHANGED <<herdrVars, pushes, asked, poll, raced, moveEnded>>

-----------------------------------------------------------------------------
(* pollAgentStatus.                                                        *)

Tracked == {p \in Pane : bridge.age[p] # "unseen"}

\* The known panes are noted and pane.list is asked; herdr answers.
PollAnswered ==
  /\ poll = Idle
  /\ poll' = [stage |-> "answered", known |-> Tracked, answer |-> place]
  /\ UNCHANGED <<herdrVars, pushes, requests, bridge, board, raced, moveEnded>>

Missing == {p \in poll.known : poll.answer[p] = Nowhere}

\* A missing pane is untracked, and reported if its placement is known;
\* every pane listed is tracked where the list says.
PollApplied ==
  /\ poll.stage = "answered"
  /\ LET listed == [p \in Live(poll.answer) |-> poll.answer[p]]
     IN bridge' = BridgeAfter(BridgeAfter(bridge, [Nothing EXCEPT !.noPanes = Missing]),
                              [Nothing EXCEPT !.shows = listed])
  /\ board' = BoardAfter(board, [Nothing EXCEPT !.noPanes = {p \in Missing : bridge.at[p] # Nowhere}])
  /\ poll' = Idle
  /\ UNCHANGED <<herdrVars, pushes, requests, raced, moveEnded>>

Next ==
  \/ \E o \in Op : Elsewhere(o) \/ Served(o)
  \/ HandlePush \/ Answered
  \/ \E p \in Pane : RenameServed(p)
  \/ RenameAnswered
  \/ PollAnswered \/ PollApplied

Spec == Init /\ [][Next]_vars

-----------------------------------------------------------------------------
(* Properties.                                                             *)

\* Nothing is on its way to the mirrors.
Quiet == pushes = <<>> /\ asked = Idle /\ rename = Idle

(* Once everything has arrived, every live pane has a card, under the tab  *)
(* it is in, every open tab a row, and its workspace one: whatever was     *)
(* closed around them, and in whatever order answers and pushes came.      *)
OpenIsShown ==
  Quiet => /\ \A p \in Live(place) \ raced : board.card[p] = place[p]
           /\ Open(place) \subseteq board.tabs
           /\ Spaces(Open(place)) \subseteq board.spaces

(* What that rests on.  Herdr does not use an id twice, so what it has     *)
(* closed stays closed; and it pushes what it does in the order it does    *)
(* it, so the last push about a thing has the last word.                   *)
EndedPanes == (used \cap Pane) \ Live(place)
EndedTabs == (used \cap Tab) \ Open(place)
EndedSpaces == Spaces(used \cap Tab) \ Spaces(Open(place))

\* No event speaks of what never was, and what it closes is closed for good.
IsFinal(e) ==
  /\ DOMAIN e.shows \subseteq used
  /\ e.noPanes \subseteq EndedPanes /\ e.noTabs \subseteq EndedTabs
  /\ e.noSpaces \subseteq EndedSpaces

ClosingsAreFinal ==
  /\ Live(place) \cup Open(place) \cup Tracked \subseteq used
  /\ \A i \in DOMAIN pushes : IsFinal(pushes[i])
  /\ \A e \in {asked, rename} \ {Idle} : IsFinal(e)
  /\ poll # Idle => Missing \subseteq EndedPanes /\ Live(poll.answer) \subseteq used

ShowsIn(e, p, t) == p \in DOMAIN e.shows => e.shows[p] = t
AnswersShowTheTree ==
  \A e \in {asked, rename} \ {Idle} :
    /\ e.kind # "ordered"
    /\ \A p \in Live(place) \ raced : ShowsIn(e, p, place[p])

CardsFollow ==
  \A p \in Live(place) \ raced :
    \/ board.card[p] = place[p] /\ \A i \in DOMAIN pushes : ShowsIn(pushes[i], p, place[p])
    \/ \E i \in DOMAIN pushes :
         /\ p \in DOMAIN pushes[i].shows
         /\ \A j \in DOMAIN pushes : j >= i => ShowsIn(pushes[j], p, place[p])

AddsRow(e, t) == t \in e.tabs /\ e.kind # "renamed"
KeepsRow(e, t) == e.kind = "ordered" => t \in e.tabs \/ Home[t] \notin Spaces(e.tabs)
RowsFollow ==
  \A t \in Open(place) :
    \/ t \in board.tabs /\ \A i \in DOMAIN pushes : KeepsRow(pushes[i], t)
    \/ \E i \in DOMAIN pushes :
         /\ AddsRow(pushes[i], t)
         /\ \A j \in DOMAIN pushes : j >= i => KeepsRow(pushes[j], t)

AddsSpace(e, w) == w \in e.spaces /\ e.kind # "renamed"
SpacesFollow ==
  \A w \in Spaces(Open(place)) :
    w \in board.spaces \/ \E i \in DOMAIN pushes : AddsSpace(pushes[i], w)

MirrorInv == /\ TypeOK /\ ClosingsAreFinal /\ AnswersShowTheTree
             /\ CardsFollow /\ RowsFollow /\ SpacesFollow

(* A card that outlived its pane, because the pane's end was not pushed or *)
(* because an answer that was overtaken brought it back, is one the bridge *)
(* still tracks, so that the next poll closes it.  The cascade of a close  *)
(* never leaves any other, that of a move only in the tab it closed.       *)
Ghosts == {p \in Pane : place[p] = Nowhere /\ board.card[p] # Nowhere}

GhostsAreTracked ==
  Quiet => \A p \in Ghosts \ raced : p \in Tracked \/ board.card[p] \in moveEnded

(* ADR 0005: the web UI must "apply the same purge-on-parent-close logic   *)
(* to its own local view state, not just rely on the bridge's cache being  *)
(* correct".  A card under a tab that is gone is one the bridge still      *)
(* tracks.                                                                 *)
(* Not so in the code; the README says where (Disagreements).              *)
BoardPurgesWithBridge ==
  Quiet => \A p \in Ghosts \ raced : p \in Tracked

(* hosts.ts:698-704: the poll reports a death only if it knows where the   *)
(* pane was.  It always does.                                              *)
TrackedIsPlaced == \A p \in Pane : p \in Tracked <=> bridge.at[p] # Nowhere

(* A live pane loses its card only while the push about its move, which    *)
(* puts the card back, is on its way.                                      *)
OnlyMovesLoseCards ==
  [][\A p \in Live(place') \ raced' :
       board.card[p] # Nowhere /\ board'.card[p] = Nowhere
         => \E i \in DOMAIN pushes' : p \in DOMAIN pushes'[i].shows]_vars

(* As long as the bridge tracks a pane, nothing that reaches it changes    *)
(* what it says of how long the pane has had its status: no move restarts  *)
(* that, not even one that closes the tab the pane leaves, because         *)
(* applyPaneMoveCache tracks first and purges after (hosts.ts:594-608).    *)
(* Nothing is said of a pane the bridge forgets in between.                *)
MovesKeepAge ==
  [][\A p \in Pane : p \in Tracked /\ bridge'.age[p] # "unseen" => bridge'.age[p] = bridge.age[p]]_vars

(* hosts.ts:539-546, trackPane: a pane of the connect-time list "may have  *)
(* been sitting there for days, so it gets no value at all: an absent      *)
(* readout is honest, a zero is a fabrication".  A pane found at connect   *)
(* is never said to have entered its status under the bridge's eyes.       *)
(* Not so in the code; the README says where (Disagreements).              *)
FoundIsNotWatched ==
  \A p \in Pane :
    [](bridge.age[p] = "atConnect" => [](p \in Live(place) => bridge.age[p] # "watched"))
=============================================================================
