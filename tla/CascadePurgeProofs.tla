------------------------- MODULE CascadePurgeProofs -------------------------
(***************************************************************************)
(* Theorems about CascadePurge, for any workspaces, tabs, panes and        *)
(* bounds.  Every event has the shape the mirrors expect, whatever         *)
(* operation it tells of; the bridge's two maps about panes are purged     *)
(* together, in every cascade, poll and answer; no cascade restarts the    *)
(* age of a status the bridge goes on tracking; and what is open is shown, *)
(* once everything has arrived, from an invariant on what is still on its  *)
(* way (MirrorInv).                                                        *)
(***************************************************************************)
EXTENDS CascadePurge, TLAPS

-----------------------------------------------------------------------------
(* Events.                                                                 *)

LEMMA NothingType == Nothing \in Event
<1>1. [q \in {} |-> Nowhere] \in [{} -> Tab]
  OBVIOUS
<1>2. [{} -> Tab] \in {[S -> Tab] : S \in SUBSET Pane}
  OBVIOUS
<1>. QED  BY <1>1, <1>2 DEF Nothing, Event

LEMMA ShownType ==
  ASSUME NEW p \in Pane, NEW t \in Tab
  PROVE  /\ Shown(p, t) \in Event
         /\ Shown(p, t).kind = "plain"
<1>1. [q \in {p} |-> t] \in [{p} -> Tab]
  OBVIOUS
<1>2. [{p} -> Tab] \in {[S -> Tab] : S \in SUBSET Pane}
  OBVIOUS
<1>. QED  BY <1>1, <1>2, NothingType DEF Shown, Nothing, Event

LEMMA TreeTypes ==
  ASSUME NEW tree \in Places
  PROVE  /\ Live(tree) \subseteq Pane
         /\ Open(tree) \subseteq Tab
BY DEF Live, Open, Places

LEMMA SpacesType ==
  ASSUME NEW tabs \in SUBSET Tab
  PROVE  Spaces(tabs) \subseteq Workspace
BY TreeAssumption DEF Spaces

LEMMA AfterType ==
  ASSUME place \in Places, NEW o \in Op
  PROVE  After(o) \in Places
<1>. SUFFICES ASSUME NEW p \in Pane
              PROVE  (IF Closes(o, p) THEN Nowhere
                      ELSE IF o.name \in {"split", "createTab", "createSpace", "movePane"} /\ p = o.pane
                      THEN o.tab ELSE place[p]) \in Tab \cup {Nowhere}
  BY DEF After, Places
<1>1. o.name \in {"split", "createTab", "createSpace", "movePane"} => o.tab \in Tab
  BY DEF Op
<1>. QED  BY <1>1 DEF Places

LEMMA ResultType ==
  ASSUME place \in Places, NEW o \in Op, CanDo(o), o.name # "exit"
  PROVE  Result(o) \in Event
<1>1. /\ Open(place) \subseteq Tab
      /\ Open(After(o)) \subseteq Tab
  BY AfterType, TreeTypes
<1>2. /\ Spaces(Open(place)) \subseteq Workspace
      /\ Spaces(Open(After(o))) \subseteq Workspace
  BY <1>1, SpacesType
<1>3. CASE o.name \in {"split", "createTab", "createSpace", "movePane"}
  <2>1. o.pane \in Pane /\ o.tab \in Tab /\ Home[o.tab] \in Workspace
    BY <1>3, TreeAssumption DEF Op
  <2>2. Shown(o.pane, o.tab) \in Event
    BY <2>1, ShownType
  <2>. QED  BY <1>1, <1>2, <1>3, <2>1, <2>2 DEF Result, Event
<1>4. CASE o.name = "renamePane"
  <2>1. o.pane \in Pane /\ place[o.pane] \in Tab
    BY <1>4 DEF Op, CanDo, Live, Places
  <2>. QED  BY <1>4, <2>1, ShownType DEF Result
<1>5. CASE o.name \in {"closePane", "closeTab", "renameTab", "closeSpace", "renameSpace", "orderTabs"}
  <2>1. /\ o.name = "closePane" => o.pane \in Pane
        /\ o.name \in {"closeTab", "renameTab"} => o.tab \in Tab
        /\ o.name \in {"closeSpace", "renameSpace"} => o.space \in Workspace
    BY DEF Op
  <2>. QED  BY <1>1, <1>5, <2>1, NothingType DEF Result, Event, TabsOf
<1>. QED  BY <1>3, <1>4, <1>5 DEF Op

LEMMA PushesType ==
  ASSUME place \in Places, NEW o \in Op, CanDo(o)
  PROVE  Says(o) \in Seq(Event) /\ Cascade(o) \in Seq(Event)
<1>1. Says(o) \in Seq(Event)
  <2>1. CASE o.name \in {"createTab", "createSpace"}
    <3>1. o.pane \in Pane /\ o.tab \in Tab /\ Home[o.tab] \in Workspace
      BY <2>1, TreeAssumption DEF Op
    <3>2. /\ Shown(o.pane, o.tab) \in Event
          /\ [Nothing EXCEPT !.tabs = {o.tab}] \in Event
          /\ [Nothing EXCEPT !.spaces = {Home[o.tab]}] \in Event
      BY <3>1, ShownType, NothingType DEF Event
    <3>. QED  BY <2>1, <3>2 DEF Says
  <2>2. CASE o.name = "exit"
    BY <2>2 DEF Says
  <2>3. CASE o.name \notin {"createTab", "createSpace", "exit"}
    BY <2>3, ResultType DEF Says
  <2>. QED  BY <2>1, <2>2, <2>3
<1>2. Cascade(o) \in Seq(Event)
  <2>1. Spaces(Open(place)) \subseteq Workspace
    BY TreeTypes, SpacesType
  <2>2. [Nothing EXCEPT !.noSpaces = Spaces(Open(place)) \ Spaces(Open(After(o)))] \in Event
    BY <2>1, NothingType DEF Event
  <2>. QED  BY <2>2 DEF Cascade
<1>. QED  BY <1>1, <1>2

-----------------------------------------------------------------------------
(* The mirrors.                                                            *)

BridgeType == [age : [Pane -> Age], at : Places, tabs : SUBSET Tab, spaces : SUBSET Workspace]
BoardType == [card : Places, tabs : SUBSET Tab, spaces : SUBSET Workspace]

LEMMA ShowsType ==
  ASSUME NEW e \in Event, NEW places \in Places
  PROVE  Shows(places, e) \in Places
<1>1. \A p \in DOMAIN e.shows : e.shows[p] \in Tab
  BY DEF Event
<1>. QED  BY <1>1 DEF Shows, Places

LEMMA BridgeAfterType ==
  ASSUME NEW e \in Event, NEW b \in BridgeType
  PROVE  BridgeAfter(b, e) \in BridgeType
<1>1. Shows(b.at, e) \in Places
  BY ShowsType DEF BridgeType
<1>2. AgeAfter(b, e) \in [Pane -> Age]
  BY DEF AgeAfter, BridgeType, Age
<1>3. [p \in Pane |-> IF p \in Gone(b, e) THEN Nowhere ELSE Shows(b.at, e)[p]] \in Places
  BY <1>1 DEF Places
<1>4. /\ (b.tabs \cup e.tabs) \ (e.noTabs \cup TabsOf(e.noSpaces, Tab)) \in SUBSET Tab
      /\ (b.spaces \cup e.spaces) \ e.noSpaces \in SUBSET Workspace
  BY DEF Event, BridgeType
<1>. QED  BY <1>2, <1>3, <1>4 DEF BridgeAfter, BridgeType

LEMMA BoardAfterType ==
  ASSUME NEW e \in Event, NEW b \in BoardType
  PROVE  BoardAfter(b, e) \in BoardType
<1>1. Shows(b.card, e) \in Places
  BY ShowsType DEF BoardType
<1>2. CardsAfter(b, e) \in Places
  BY <1>1 DEF CardsAfter, Places
<1>3. RowsAfter(b, e) \in SUBSET Tab
  BY DEF RowsAfter, Event, BoardType
<1>4. (IF e.kind = "renamed" THEN b.spaces ELSE b.spaces \cup e.spaces) \ e.noSpaces \in SUBSET Workspace
  BY DEF Event, BoardType
<1>. QED  BY <1>2, <1>3, <1>4 DEF BoardAfter, BoardType

\* The two events a poll's answer amounts to, and what the board hears.
LEMMA PollEvents ==
  ASSUME TypeOK, poll.stage = "answered"
  PROVE  /\ [Nothing EXCEPT !.noPanes = Missing] \in Event
         /\ [Nothing EXCEPT !.shows = [p \in Live(poll.answer) |-> poll.answer[p]]] \in Event
         /\ [Nothing EXCEPT !.noPanes = {p \in Missing : bridge.at[p] # Nowhere}] \in Event
<1>1. poll.known \subseteq Pane /\ poll.answer \in Places
  BY DEF TypeOK, Idle
<1>2. Missing \subseteq Pane
  BY <1>1 DEF Missing
<1>3. [p \in Live(poll.answer) |-> poll.answer[p]] \in [Live(poll.answer) -> Tab]
  BY <1>1 DEF Live, Places
<1>4. [Live(poll.answer) -> Tab] \in {[S -> Tab] : S \in SUBSET Pane}
  BY DEF Live
<1>. QED  BY <1>2, <1>3, <1>4, NothingType DEF Event

-----------------------------------------------------------------------------
(* Type correctness.                                                       *)

LEMMA HerdrDoesType ==
  ASSUME TypeOK, NEW o \in Op, HerdrDoes(o)
  PROVE  /\ place' \in Places
         /\ used' \subseteq Tab \cup Pane
         /\ ops' \in 0 .. MaxOps
         /\ pushes' \in Seq(Event)
         /\ raced' \subseteq Pane
         /\ moveEnded' \subseteq Tab
<1>1. After(o) \in Places
  BY AfterType DEF TypeOK
<1>2. Live(After(o)) \subseteq Pane /\ Open(After(o)) \subseteq Tab /\ Open(place) \subseteq Tab
  BY <1>1, TreeTypes DEF TypeOK
<1>3. Says(o) \in Seq(Event) /\ Cascade(o) \in Seq(Event)
  BY PushesType DEF TypeOK, HerdrDoes
<1>4. place' \in Places /\ used' \subseteq Tab \cup Pane
  BY <1>1, <1>2 DEF HerdrDoes, TypeOK
<1>5. ops' \in 0 .. MaxOps
  BY TreeAssumption DEF HerdrDoes, TypeOK
<1>6. pushes' \in Seq(Event)
  BY <1>3 DEF HerdrDoes, TypeOK
<1>7. raced' \subseteq Pane
  <2>1. o.name = "movePane" => o.pane \in Pane
    BY DEF Op
  <2>. QED  BY <2>1 DEF HerdrDoes, TypeOK
<1>8. moveEnded' \subseteq Tab
  <2>1. Ended(o) \subseteq Tab
    BY <1>2 DEF Ended, TabsOf
  <2>. QED  BY <2>1 DEF HerdrDoes, TypeOK
<1>. QED  BY <1>4, <1>5, <1>6, <1>7, <1>8

LEMMA InitType == Init => TypeOK
<1>. SUFFICES ASSUME Init PROVE TypeOK
  OBVIOUS
<1>1. Live(place) \subseteq Pane /\ Open(place) \subseteq Tab
  BY TreeTypes DEF Init
<1>2. Spaces(Open(place)) \subseteq Workspace
  BY <1>1, SpacesType
<1>3. /\ bridge \in BridgeType
      /\ board \in BoardType
  BY <1>1, <1>2 DEF Init, BridgeType, BoardType, Age
<1>. QED  BY <1>1, <1>3, TreeAssumption DEF Init, TypeOK, BridgeType, BoardType

LEMMA NextType == TypeOK /\ [Next]_vars => TypeOK'
<1>. SUFFICES ASSUME TypeOK, [Next]_vars PROVE TypeOK'
  OBVIOUS
<1>. USE DEF herdrVars, requests
<1>1. ASSUME NEW o \in Op, Elsewhere(o) PROVE TypeOK'
  BY <1>1, HerdrDoesType DEF Elsewhere, TypeOK
<1>2. ASSUME NEW o \in Op, Served(o) PROVE TypeOK'
  <2>1. Result(o) \in Event
    BY <1>2, ResultType DEF Served, HerdrDoes, TypeOK
  <2>. QED  BY <1>2, <2>1, HerdrDoesType DEF Served, TypeOK
<1>3. CASE HandlePush
  <2>1. Head(pushes) \in Event /\ Tail(pushes) \in Seq(Event)
    BY <1>3 DEF HandlePush, TypeOK
  <2>2. bridge' \in BridgeType /\ board' \in BoardType
    BY <1>3, <2>1, BridgeAfterType, BoardAfterType DEF HandlePush, TypeOK, BridgeType, BoardType
  <2>. QED  BY <1>3, <2>1, <2>2 DEF HandlePush, TypeOK, BridgeType, BoardType
<1>4. CASE Answered
  <2>1. asked \in Event
    BY <1>4 DEF Answered, TypeOK
  <2>2. bridge' \in BridgeType /\ board' \in BoardType
    BY <1>4, <2>1, BridgeAfterType, BoardAfterType DEF Answered, TypeOK, BridgeType, BoardType
  <2>. QED  BY <1>4, <2>2 DEF Answered, TypeOK, BridgeType, BoardType
<1>5. ASSUME NEW p \in Pane, RenameServed(p) PROVE TypeOK'
  <2>. DEFINE o == [name |-> "renamePane", pane |-> p]
  <2>1. o \in Op
    BY DEF Op
  <2>. HIDE DEF o
  <2>2. HerdrDoes(o) /\ rename' = Result(o) /\ UNCHANGED <<asked, poll, bridge, board>>
    BY <1>5 DEF RenameServed, o
  <2>3. o.name # "exit"
    BY DEF o
  <2>4. Result(o) \in Event
    BY <2>1, <2>2, <2>3, ResultType DEF HerdrDoes, TypeOK
  <2>. QED  BY <2>1, <2>2, <2>4, HerdrDoesType DEF TypeOK
<1>6. CASE RenameAnswered
  <2>1. rename \in Event
    BY <1>6 DEF RenameAnswered, TypeOK
  <2>2. bridge' \in BridgeType /\ board' \in BoardType
    BY <1>6, <2>1, BridgeAfterType, BoardAfterType DEF RenameAnswered, TypeOK, BridgeType, BoardType
  <2>. QED  BY <1>6, <2>2 DEF RenameAnswered, TypeOK, BridgeType, BoardType
<1>7. CASE PollAnswered
  BY <1>7 DEF PollAnswered, TypeOK, Tracked
<1>8. CASE PollApplied
  <2>1. bridge' \in BridgeType /\ board' \in BoardType
    BY <1>8, PollEvents, BridgeAfterType, BoardAfterType DEF PollApplied, TypeOK, BridgeType, BoardType
  <2>. QED  BY <1>8, <2>1 DEF PollApplied, TypeOK, BridgeType, BoardType
<1>9. CASE UNCHANGED vars
  BY <1>9 DEF TypeOK, vars
<1>. QED  BY <1>1, <1>2, <1>3, <1>4, <1>5, <1>6, <1>7, <1>8, <1>9 DEF Next

(* The tree, what is said about it, and both mirrors keep their types.     *)
THEOREM TypeCorrect == Spec => []TypeOK
BY InitType, NextType, PTL DEF Spec

-----------------------------------------------------------------------------
(* The bridge's two maps about panes.                                      *)

Matched(b) == \A p \in Pane : b.age[p] # "unseen" <=> b.at[p] # Nowhere

LEMMA StaysMatched ==
  ASSUME NEW e \in Event, NEW b \in BridgeType, Matched(b)
  PROVE  Matched(BridgeAfter(b, e))
<1>. SUFFICES ASSUME NEW p \in Pane
              PROVE  AgeAfter(b, e)[p] # "unseen"
                       <=> (IF p \in Gone(b, e) THEN Nowhere ELSE Shows(b.at, e)[p]) # Nowhere
  BY DEF Matched, BridgeAfter
<1>1. CASE p \in Gone(b, e)
  BY <1>1 DEF AgeAfter
<1>2. CASE p \notin Gone(b, e) /\ p \in DOMAIN e.shows
  <2>1. e.shows[p] \in Tab
    BY <1>2 DEF Event
  <2>. QED  BY <1>2, <2>1, TreeAssumption DEF AgeAfter, Shows
<1>3. CASE p \notin Gone(b, e) /\ p \notin DOMAIN e.shows
  BY <1>3 DEF AgeAfter, Shows, Matched
<1>. QED  BY <1>1, <1>2, <1>3

(* The bridge's steps: at most two events are laid over its maps.          *)
LEMMA BridgeSteps ==
  ASSUME TypeOK, [Next]_vars
  PROVE  \/ bridge' = bridge
         \/ \E e \in Event : bridge' = BridgeAfter(bridge, e)
         \/ PollApplied /\ \E e, f \in Event : bridge' = BridgeAfter(BridgeAfter(bridge, e), f)
<1>1. CASE HandlePush
  <2>1. Head(pushes) \in Event
    BY <1>1 DEF HandlePush, TypeOK
  <2>. QED  BY <1>1, <2>1 DEF HandlePush
<1>2. CASE Answered
  BY <1>2 DEF Answered, TypeOK
<1>3. CASE RenameAnswered
  BY <1>3 DEF RenameAnswered, TypeOK
<1>4. CASE PollApplied
  BY <1>4, PollEvents DEF PollApplied
<1>5. CASE bridge' = bridge
  BY <1>5
<1>. QED
  BY <1>1, <1>2, <1>3, <1>4, <1>5
  DEF Next, vars, Elsewhere, Served, RenameServed, PollAnswered

(* Every pane the bridge tracks has a placement, so the poll can report    *)
(* its death: no cascade, poll or late answer purges one map and not the   *)
(* other.                                                                  *)
THEOREM TrackedArePlaced == Spec => []TrackedIsPlaced
<1>1. Init => TrackedIsPlaced
  BY DEF Init, TrackedIsPlaced, Tracked, Live
<1>2. TypeOK /\ TrackedIsPlaced /\ [Next]_vars => TrackedIsPlaced'
  <2>. SUFFICES ASSUME TypeOK, Matched(bridge), [Next]_vars
                PROVE  Matched(bridge')
    BY DEF TrackedIsPlaced, Tracked, Matched
  <2>0. bridge \in BridgeType
    BY DEF TypeOK, BridgeType
  <2>1. CASE bridge' = bridge
    BY <2>1
  <2>2. CASE \E e \in Event : bridge' = BridgeAfter(bridge, e)
    BY <2>0, <2>2, StaysMatched
  <2>3. ASSUME NEW e \in Event, NEW f \in Event, bridge' = BridgeAfter(BridgeAfter(bridge, e), f)
        PROVE  Matched(bridge')
    <3>1. BridgeAfter(bridge, e) \in BridgeType /\ Matched(BridgeAfter(bridge, e))
      BY <2>0, BridgeAfterType, StaysMatched
    <3>. QED  BY <2>3, <3>1, StaysMatched
  <2>. QED  BY <2>1, <2>2, <2>3, BridgeSteps
<1>. QED  BY <1>1, <1>2, TypeCorrect, PTL DEF Spec

-----------------------------------------------------------------------------
(* The age of a status.                                                    *)

LEMMA AgeKept ==
  ASSUME NEW e \in Event, NEW b \in BridgeType, NEW p \in Pane,
         b.age[p] # "unseen", BridgeAfter(b, e).age[p] # "unseen"
  PROVE  BridgeAfter(b, e).age[p] = b.age[p]
BY DEF BridgeAfter, AgeAfter

(* The poll untracks a pane or lists it, never both: it cannot forget a    *)
(* pane and stamp it anew in one go.                                       *)
LEMMA PollKeepsAge ==
  ASSUME TypeOK, PollApplied, NEW p \in Pane,
         bridge.age[p] # "unseen", bridge'.age[p] # "unseen"
  PROVE  bridge'.age[p] = bridge.age[p]
<1>. DEFINE e == [Nothing EXCEPT !.noPanes = Missing]
            listed == [q \in Live(poll.answer) |-> poll.answer[q]]
            f == [Nothing EXCEPT !.shows = listed]
            middle == BridgeAfter(bridge, e)
<1>1. e \in Event /\ f \in Event
  BY PollEvents DEF PollApplied
<1>2. bridge \in BridgeType /\ middle \in BridgeType
  BY <1>1, BridgeAfterType DEF TypeOK, BridgeType
<1>3. bridge' = BridgeAfter(middle, f)
  BY DEF PollApplied
<1>4. CASE middle.age[p] # "unseen"
  <2>1. middle.age[p] = bridge.age[p]
    BY <1>1, <1>2, <1>4, AgeKept
  <2>2. bridge'.age[p] = middle.age[p]
    BY <1>1, <1>2, <1>3, <1>4, AgeKept
  <2>. QED  BY <2>1, <2>2
<1>5. CASE middle.age[p] = "unseen"
  <2>1. p \in Gone(bridge, e)
    BY <1>5 DEF BridgeAfter, AgeAfter, Nothing
  <2>2. e.noTabs \cup TabsOf(e.noSpaces, bridge.tabs \cup e.tabs) = {} /\ e.noPanes = Missing
    BY DEF Nothing, TabsOf
  <2>3. p \in Missing
    BY <2>1, <2>2 DEF Gone
  <2>4. p \notin DOMAIN f.shows
    BY <2>3 DEF Missing, Live, Nothing
  <2>5. bridge'.age[p] = "unseen"
    BY <1>3, <1>5, <2>4 DEF BridgeAfter, AgeAfter
  <2>. QED  BY <2>5
<1>. QED  BY <1>4, <1>5

(* For any tree and any number of operations: no move, cascade, answer or  *)
(* poll changes what the bridge says of how long a pane has had its        *)
(* status, from one step to the next in which it tracks the pane           *)
(* (applyPaneMoveCache, hosts.ts:594-608).                                 *)
THEOREM AgesAreKept == Spec => MovesKeepAge
<1>. DEFINE Kept == \A p \in Pane : p \in Tracked /\ bridge'.age[p] # "unseen"
                                      => bridge'.age[p] = bridge.age[p]
<1>1. TypeOK /\ [Next]_vars => Kept
  <2>. SUFFICES ASSUME TypeOK, [Next]_vars, NEW p \in Pane,
                       bridge.age[p] # "unseen", bridge'.age[p] # "unseen"
                PROVE  bridge'.age[p] = bridge.age[p]
    BY DEF Tracked
  <2>1. bridge \in BridgeType
    BY DEF TypeOK, BridgeType
  <2>2. CASE \E e \in Event : bridge' = BridgeAfter(bridge, e)
    BY <2>1, <2>2, AgeKept
  <2>. QED  BY <2>2, PollKeepsAge, BridgeSteps
<1>2. Kept => [Kept]_vars
  OBVIOUS
<1>. QED  BY <1>1, <1>2, TypeCorrect, PTL DEF Spec, MovesKeepAge
-----------------------------------------------------------------------------
(* What is open is shown: MirrorInv.                                       *)

\* What each operation says, part by part.
LEMMA NothingSays ==
  /\ Nothing.kind = "plain" /\ DOMAIN Nothing.shows = {} /\ Nothing.tabs = {}
  /\ Nothing.spaces = {} /\ Nothing.noPanes = {} /\ Nothing.noTabs = {} /\ Nothing.noSpaces = {}
  BY DEF Nothing

LEMMA ShownSays ==
  ASSUME NEW p, NEW t, NEW e, e = Shown(p, t)
  PROVE  /\ e.kind = "plain" /\ DOMAIN e.shows = {p} /\ e.shows[p] = t /\ e.tabs = {}
         /\ e.spaces = {} /\ e.noPanes = {} /\ e.noTabs = {} /\ e.noSpaces = {}
  BY DEF Shown, Nothing

PutsPane(o) == o.name \in {"split", "createTab", "createSpace", "movePane"}

LEMMA AfterSays ==
  ASSUME TypeOK, NEW o \in Op, CanDo(o)
  PROVE  /\ After(o) \in Places
         /\ \A p \in Live(After(o)) : p \in Live(place) \/ p \notin used
         /\ \A p \in Live(After(o)) : After(o)[p] # place[p] => PutsPane(o) /\ p = o.pane
         /\ PutsPane(o) => o.pane \in Pane /\ o.tab \in Tab /\ After(o)[o.pane] = o.tab
         /\ \A p \in Live(place) \ Live(After(o)) : Closes(o, p)
<1>1. After(o) \in Places
  BY AfterType DEF TypeOK
<1>2. \A p \in Pane : After(o)[p] = IF Closes(o, p) THEN Nowhere
                                    ELSE IF PutsPane(o) /\ p = o.pane THEN o.tab ELSE place[p]
  BY DEF After, PutsPane
<1>3. PutsPane(o) => /\ o.pane \in Pane /\ o.tab \in Tab /\ (\A p : ~Closes(o, p))
                     /\ o.pane \in Live(place) \/ o.pane \notin used
  BY DEF PutsPane, Op, Closes, CanDo
<1>4. \A p \in Pane : p \in Live(After(o)) <=> After(o)[p] # Nowhere
  BY DEF Live
<1>5. Live(After(o)) \subseteq Pane /\ Live(place) \subseteq Pane
  BY DEF Live
<1>6. \A t \in Tab : t # Nowhere
  BY TreeAssumption
<1>7. \A p \in Live(place) : place[p] # Nowhere
  BY DEF Live
<1>8. \A p \in Pane : place[p] # Nowhere => p \in Live(place)
  BY DEF Live
<1>9. \A p \in Live(After(o)) : p \in Live(place) \/ p \notin used
  BY <1>2, <1>3, <1>4, <1>5, <1>8
<1>10. \A p \in Live(After(o)) : After(o)[p] # place[p] => PutsPane(o) /\ p = o.pane
  BY <1>2, <1>4, <1>5
<1>11. ASSUME PutsPane(o) PROVE o.pane \in Pane /\ o.tab \in Tab /\ After(o)[o.pane] = o.tab
  <2>1. o.pane \in Pane /\ o.tab \in Tab /\ ~Closes(o, o.pane)
    BY <1>3, <1>11
  <2>2. QED
    BY <1>2, <1>11, <2>1
<1>12. ASSUME NEW p \in Live(place) \ Live(After(o)) PROVE Closes(o, p)
  <2>1. p \in Pane /\ After(o)[p] = Nowhere /\ place[p] # Nowhere
    BY <1>4, <1>5, <1>7
  <2>2. CASE PutsPane(o) /\ p = o.pane
    BY <1>3, <1>6, <1>11, <2>1, <2>2
  <2>3. QED
    BY <1>2, <2>1, <2>2
<1>13. QED
  BY <1>1, <1>9, <1>10, <1>11, <1>12

\* Herdr uses no id twice: what it has ended stays so.
LEMMA EndsAreFinal ==
  ASSUME TypeOK, NEW o \in Op, CanDo(o),
         Live(place) \cup Open(place) \subseteq used,
         place' = After(o), used' = used \cup Live(After(o)) \cup Open(After(o))
  PROVE  /\ EndedPanes \subseteq EndedPanes' /\ EndedTabs \subseteq EndedTabs'
         /\ EndedSpaces \subseteq EndedSpaces'
         /\ used \subseteq used' /\ Live(place)' \cup Open(place)' \subseteq used'
         /\ \A t \in Open(After(o)) : t \in Open(place) \/ (PutsPane(o) /\ t = o.tab /\ t \notin used)
         /\ \A w \in Spaces(Open(After(o))) :
              \/ w \in Spaces(Open(place))
              \/ PutsPane(o) /\ w = Home[o.tab] /\ w \notin Spaces(used \cap Tab)
<1> DEFINE tree == After(o)
<1>1. /\ \A p \in Live(tree) : p \in Live(place) \/ p \notin used
      /\ \A p \in Live(tree) : tree[p] # place[p] => PutsPane(o) /\ p = o.pane
      /\ PutsPane(o) => o.tab \in Tab /\ tree[o.pane] = o.tab
      /\ tree \in Places
  BY AfterSays
<1>2. Live(tree) \subseteq Pane /\ Open(tree) \subseteq Tab /\ Open(place) \subseteq Tab
  BY <1>1, TreeTypes DEF TypeOK
<1>3. PutsPane(o) => o.tab \in Open(place) \/ o.tab \notin used
  BY DEF PutsPane, CanDo
<1>4. \A p \in Pane : tree[p] # Nowhere /\ tree[p] = place[p] => p \in Live(place)
  BY DEF Live
<1>5. \A p \in Live(tree) : tree[p] # Nowhere
  BY DEF Live
<1> HIDE DEF tree
<1>6. \A t \in Open(tree) : t \in Open(place) \/ (PutsPane(o) /\ t = o.tab /\ t \notin used)
  <2> SUFFICES ASSUME NEW p \in Live(tree), tree[p] \notin Open(place)
               PROVE  PutsPane(o) /\ tree[p] = o.tab /\ tree[p] \notin used
    BY DEF Open
  <2>1. tree[p] # place[p]
    BY <1>2, <1>4, <1>5 DEF Open
  <2>2. PutsPane(o) /\ tree[p] = o.tab
    BY <1>1, <2>1
  <2>3. QED
    BY <1>3, <2>2
<1>7. PutsPane(o) => Home[o.tab] \in Spaces(Open(place)) \/ Home[o.tab] \notin Spaces(used \cap Tab)
  <2>1. o.tab \in Open(place) => Home[o.tab] \in Spaces(Open(place))
    BY DEF Spaces
  <2>2. QED
    BY <2>1 DEF PutsPane, CanDo
<1>8. \A w \in Spaces(Open(tree)) :
        \/ w \in Spaces(Open(place))
        \/ PutsPane(o) /\ w = Home[o.tab] /\ w \notin Spaces(used \cap Tab)
  <2> SUFFICES ASSUME NEW t \in Open(tree), Home[t] \notin Spaces(Open(place))
               PROVE  PutsPane(o) /\ Home[t] = Home[o.tab] /\ Home[t] \notin Spaces(used \cap Tab)
    BY DEF Spaces
  <2>1. t \notin Open(place)
    BY DEF Spaces
  <2>2. QED
    BY <1>6, <1>7, <2>1
<1>9. used' = used \cup Live(tree) \cup Open(tree) /\ place' = tree
  BY DEF tree
<1>10. EndedPanes \subseteq EndedPanes'
  BY <1>1, <1>9 DEF EndedPanes
<1>11. EndedTabs \subseteq EndedTabs'
  BY <1>6, <1>9 DEF EndedTabs
<1>12. EndedSpaces \subseteq EndedSpaces'
  <2>1. Spaces(used \cap Tab) \subseteq Spaces(used' \cap Tab)
    BY <1>9 DEF Spaces
  <2>2. QED
    BY <1>8, <1>9, <2>1 DEF EndedSpaces
<1>13. QED
  BY <1>6, <1>8, <1>9, <1>10, <1>11, <1>12 DEF tree

\* What an operation says is so: of a pane, where it is; of what it closes,
\* that it is gone.
Told(e) ==
  /\ DOMAIN e.shows \subseteq used'
  /\ e.noPanes \subseteq EndedPanes' /\ e.noTabs \subseteq EndedTabs'
  /\ e.noSpaces \subseteq EndedSpaces'
  /\ \A p \in Live(place)' \cap DOMAIN e.shows : e.shows[p] = place'[p]
  /\ \A t \in Open(place)' : KeepsRow(e, t)

LEMMA ResultsAreTrue ==
  ASSUME TypeOK, NEW o \in Op, CanDo(o), o.name # "exit",
         Live(place) \cup Open(place) \subseteq used,
         place' = After(o), used' = used \cup Live(After(o)) \cup Open(After(o)),
         NEW e, e = Result(o)
  PROVE  Told(e)
<1>1. CASE o.name \in {"split", "createTab", "createSpace"}
  <2> DEFINE s == Shown(o.pane, o.tab)
  <2>0. s.kind = "plain" /\ DOMAIN s.shows = {o.pane} /\ s.shows[o.pane] = o.tab
        /\ s.noPanes = {} /\ s.noTabs = {} /\ s.noSpaces = {} /\ s \in Event
    BY <1>1, ShownSays, ShownType DEF Op
  <2>1. /\ e.kind = "plain" /\ DOMAIN e.shows = {o.pane} /\ e.shows[o.pane] = o.tab
        /\ e.noPanes = {} /\ e.noTabs = {} /\ e.noSpaces = {}
    <3> HIDE DEF s
    <3>1. \/ e = s \/ e = [s EXCEPT !.tabs = {o.tab}]
          \/ e = [s EXCEPT !.tabs = {o.tab}, !.spaces = {Home[o.tab]}]
      BY <1>1 DEF Result, s
    <3>2. QED
      BY <2>0, <3>1 DEF Event
  <2>2. PutsPane(o) /\ o.pane \in Live(place)' /\ place'[o.pane] = o.tab
    <3>1. PutsPane(o)
      BY <1>1 DEF PutsPane
    <3>2. o.pane \in Pane /\ o.tab \in Tab /\ After(o)[o.pane] = o.tab
      BY <3>1, AfterSays
    <3>3. QED
      BY <3>1, <3>2, TreeAssumption DEF Live
  <2>3. o.pane \in used'
    BY <2>2
  <2>4. QED
    BY <2>1, <2>2, <2>3 DEF Told, KeepsRow
<1>2. CASE o.name = "renamePane"
  <2>1. /\ e.kind = "plain" /\ DOMAIN e.shows = {o.pane} /\ e.shows[o.pane] = place[o.pane]
        /\ e.noPanes = {} /\ e.noTabs = {} /\ e.noSpaces = {}
    BY <1>2, ShownSays DEF Result
  <2>2. o.pane \in Live(place) /\ place'[o.pane] = place[o.pane]
    <3>1. o.pane \in Live(place)
      BY <1>2 DEF CanDo
    <3>2. ~PutsPane(o) /\ \A p : ~Closes(o, p)
      BY <1>2 DEF PutsPane, Closes
    <3>3. QED
      BY <3>1, <3>2 DEF After, PutsPane, Live
  <2>3. QED
    BY <2>1, <2>2 DEF Told, KeepsRow
<1>3. CASE o.name \in {"closePane", "closeTab", "closeSpace"}
  <2>1. /\ e.kind = "plain" /\ DOMAIN e.shows = {}
        /\ e.noPanes = (IF o.name = "closePane" THEN {o.pane} ELSE {})
        /\ e.noTabs = (IF o.name = "closeTab" THEN {o.tab} ELSE {})
        /\ e.noSpaces = (IF o.name = "closeSpace" THEN {o.space} ELSE {})
    BY <1>3 DEF Result, Nothing
  <2>2. \A p \in Pane : After(o)[p] = IF Closes(o, p) THEN Nowhere ELSE place[p]
    BY <1>3 DEF After
  <2>3. CASE o.name = "closePane"
    <3>1. o.pane \in Live(place) /\ o.pane \in Pane /\ After(o)[o.pane] = Nowhere
      BY <2>2, <2>3 DEF CanDo, Closes, Op
    <3>2. o.pane \in EndedPanes'
      BY <3>1 DEF EndedPanes, Live
    <3>3. QED
      BY <2>1, <2>3, <3>2 DEF Told, KeepsRow
  <2>4. CASE o.name = "closeTab"
    <3>1. o.tab \in Open(place) /\ o.tab \in Tab /\ o.tab # Nowhere
      BY <2>4, TreeAssumption DEF CanDo, Op
    <3>2. \A p \in Pane : After(o)[p] # o.tab
      BY <2>2, <2>4, <3>1 DEF Closes
    <3>3. o.tab \in EndedTabs'
      BY <3>1, <3>2 DEF EndedTabs, Open, Live
    <3>4. QED
      BY <2>1, <2>4, <3>3 DEF Told, KeepsRow
  <2>5. CASE o.name = "closeSpace"
    <3>1. o.space \in Spaces(Open(place)) /\ Open(place) \subseteq Tab
      BY <2>5, TreeTypes DEF CanDo, TypeOK
    <3>2. \A p \in Live(After(o)) : Home[After(o)[p]] # o.space
      BY <2>2, <2>5 DEF Closes, Live
    <3>3. o.space \notin Spaces(Open(After(o)))
      BY <3>2 DEF Spaces, Open
    <3>4. o.space \in Spaces(used' \cap Tab)
      BY <3>1 DEF Spaces
    <3>5. o.space \in EndedSpaces'
      BY <3>3, <3>4 DEF EndedSpaces
    <3>6. QED
      BY <2>1, <2>5, <3>5 DEF Told, KeepsRow
  <2>6. QED
    BY <1>3, <2>3, <2>4, <2>5
<1>4. CASE o.name \in {"renameTab", "renameSpace", "orderTabs"}
  <2>1. /\ DOMAIN e.shows = {} /\ e.noPanes = {} /\ e.noTabs = {} /\ e.noSpaces = {}
        /\ e.kind = "ordered" => o.name = "orderTabs"
        /\ o.name = "orderTabs" => e.tabs = TabsOf({o.space}, Open(place))
    BY <1>4 DEF Result, Nothing
  <2>2. After(o) = place
    <3>1. \A p \in Pane : ~Closes(o, p)
      BY <1>4 DEF Closes
    <3>2. \A p \in Pane : After(o)[p] = place[p]
      BY <1>4, <3>1 DEF After
    <3>3. QED
      BY <3>2, AfterSays DEF TypeOK, Places
  <2>3. o.name = "orderTabs" => \A t \in Open(place) : t \in e.tabs \/ Home[t] \notin Spaces(e.tabs)
    BY <2>1 DEF TabsOf, Spaces
  <2>4. QED
    BY <2>1, <2>2, <2>3 DEF Told, KeepsRow
<1>5. CASE o.name = "movePane"
  <2> DEFINE s == Shown(o.pane, o.tab)
             tabs == Open(place)
             left == Open(After(o))
  <2>0. s.kind = "plain" /\ DOMAIN s.shows = {o.pane} /\ s.shows[o.pane] = o.tab
        /\ s.noPanes = {} /\ s.noTabs = {} /\ s.noSpaces = {} /\ s \in Event
    BY <1>5, ShownSays, ShownType DEF Op
  <2>1. /\ e.kind = "moved" /\ DOMAIN e.shows = {o.pane} /\ e.shows[o.pane] = o.tab
        /\ e.noPanes = {} /\ e.noTabs = tabs \ left
        /\ e.noSpaces = Spaces(tabs) \ Spaces(left)
    <3> HIDE DEF s, tabs, left
    <3>1. e = [s EXCEPT !.kind = "moved", !.tabs = left \ tabs, !.noTabs = tabs \ left,
                        !.spaces = Spaces(left) \ Spaces(tabs),
                        !.noSpaces = Spaces(tabs) \ Spaces(left)]
      BY <1>5 DEF Result, s, tabs, left
    <3>2. QED
      BY <2>0, <3>1 DEF Event
  <2>2. o.pane \in Live(place)' /\ place'[o.pane] = o.tab
    <3>1. PutsPane(o)
      BY <1>5 DEF PutsPane
    <3>2. o.pane \in Pane /\ o.tab \in Tab /\ After(o)[o.pane] = o.tab
      BY <3>1, AfterSays
    <3>3. QED
      BY <3>2, TreeAssumption DEF Live
  <2>3. tabs \subseteq Tab /\ tabs \subseteq used'
    BY TreeTypes DEF TypeOK
  <2>4. e.noTabs \subseteq EndedTabs'
    BY <2>1, <2>3 DEF EndedTabs
  <2>5. Spaces(tabs) \subseteq Spaces(used' \cap Tab)
    BY <2>3 DEF Spaces
  <2>6. e.noSpaces \subseteq EndedSpaces'
    BY <2>1, <2>5 DEF EndedSpaces
  <2>7. QED
    BY <2>1, <2>2, <2>4, <2>6 DEF Told, KeepsRow
<1>6. QED
  BY <1>1, <1>2, <1>3, <1>4, <1>5 DEF Op
\* What is new in the tree is said: by the answer, and by the pushes.
SaysNew(s) ==
  /\ \A i \in DOMAIN s : Told(s[i])
  /\ \A p \in Live(place)' : place'[p] # place[p] => \E i \in DOMAIN s : p \in DOMAIN s[i].shows
  /\ \A t \in Open(place)' : t \in Open(place) \/ \E i \in DOMAIN s : AddsRow(s[i], t)
  /\ \A w \in Spaces(Open(place))' :
       w \in Spaces(Open(place)) \/ \E i \in DOMAIN s : AddsSpace(s[i], w)

LEMMA ResultsSayTheNew ==
  ASSUME TypeOK, NEW o \in Op, CanDo(o), o.name \notin {"exit", "createTab", "createSpace"},
         Live(place) \cup Open(place) \subseteq used,
         place' = After(o), used' = used \cup Live(After(o)) \cup Open(After(o)),
         NEW s, s = <<Result(o)>>
  PROVE  SaysNew(s)
<1> DEFINE e == Result(o)
<1>1. Told(e)
  BY ResultsAreTrue
<1>2. /\ \A p \in Live(place)' : place'[p] # place[p] => PutsPane(o) /\ p = o.pane
      /\ \A t \in Open(place)' : t \in Open(place) \/ (PutsPane(o) /\ t = o.tab /\ t \notin used)
      /\ \A w \in Spaces(Open(place))' :
           w \in Spaces(Open(place)) \/ (PutsPane(o) /\ w = Home[o.tab] /\ w \notin Spaces(used \cap Tab))
  BY AfterSays, EndsAreFinal
<1>3. CASE o.name = "split"
  <2>1. DOMAIN e.shows = {o.pane}
    BY <1>3, ShownSays DEF Result
  <2>2. o.tab \in Open(place)
    BY <1>3 DEF CanDo
  <2>3. Home[o.tab] \in Spaces(Open(place))
    BY <2>2 DEF Spaces
  <2> HIDE DEF e
  <2>4. s = <<e>>
    BY DEF e
  <2>5. DOMAIN s = {1} /\ s[1] = e
    BY <2>4
  <2>6. QED
    BY <1>1, <1>2, <2>1, <2>2, <2>3, <2>5 DEF SaysNew
<1>4. CASE o.name = "movePane"
  <2> DEFINE sh == Shown(o.pane, o.tab)
             tabs == Open(place)
             left == Open(After(o))
  <2>0. sh.kind = "plain" /\ DOMAIN sh.shows = {o.pane} /\ sh \in Event
    BY <1>4, ShownSays, ShownType DEF Op
  <2>1. /\ e.kind = "moved" /\ DOMAIN e.shows = {o.pane}
        /\ e.tabs = left \ tabs /\ e.spaces = Spaces(left) \ Spaces(tabs)
    <3>1. e = [sh EXCEPT !.kind = "moved", !.tabs = left \ tabs, !.noTabs = tabs \ left,
                         !.spaces = Spaces(left) \ Spaces(tabs),
                         !.noSpaces = Spaces(tabs) \ Spaces(left)]
      BY <1>4 DEF Result
    <3> HIDE DEF sh, tabs, left, e
    <3>2. QED
      BY <2>0, <3>1 DEF Event
  <2>2. Open(place)' = left /\ Spaces(Open(place))' = Spaces(left)
    OBVIOUS
  <2>3. (\A t \in Open(place)' : t \in Open(place) \/ AddsRow(e, t))
        /\ (\A w \in Spaces(Open(place))' : w \in Spaces(Open(place)) \/ AddsSpace(e, w))
    <3> HIDE DEF e, left
    <3>1. QED
      BY <2>1, <2>2 DEF AddsRow, AddsSpace
  <2> HIDE DEF e
  <2>4. s = <<e>>
    BY DEF e
  <2>5. DOMAIN s = {1} /\ s[1] = e
    BY <2>4
  <2>6. QED
    BY <1>1, <1>2, <2>1, <2>3, <2>5 DEF SaysNew
<1>5. CASE ~PutsPane(o)
  <2> HIDE DEF e
  <2>4. s = <<e>>
    BY DEF e
  <2>5. DOMAIN s = {1} /\ s[1] = e
    BY <2>4
  <2>6. QED
    BY <1>1, <1>2, <1>5, <2>5 DEF SaysNew
<1>6. QED
  BY <1>3, <1>4, <1>5 DEF PutsPane

LEMMA PushesSayTheNew ==
  ASSUME TypeOK, NEW o \in Op, CanDo(o),
         Live(place) \cup Open(place) \subseteq used,
         place' = After(o), used' = used \cup Live(After(o)) \cup Open(After(o)),
         NEW s, s = Says(o)
  PROVE  SaysNew(s)
<1>2. /\ \A p \in Live(place)' : place'[p] # place[p] => PutsPane(o) /\ p = o.pane
      /\ \A t \in Open(place)' : t \in Open(place) \/ (PutsPane(o) /\ t = o.tab /\ t \notin used)
      /\ \A w \in Spaces(Open(place))' :
           w \in Spaces(Open(place)) \/ (PutsPane(o) /\ w = Home[o.tab] /\ w \notin Spaces(used \cap Tab))
  BY AfterSays, EndsAreFinal
<1>3. CASE o.name = "exit"
  <2>1. s = <<>> /\ ~PutsPane(o)
    BY <1>3 DEF Says, PutsPane
  <2>2. DOMAIN s = {}
    BY <2>1
  <2>3. QED
    BY <1>2, <2>1, <2>2 DEF SaysNew
<1>4. CASE o.name \notin {"exit", "createTab", "createSpace"}
  <2>1. s = <<Result(o)>>
    BY <1>4 DEF Says
  <2>2. QED
    BY <1>4, <2>1, ResultsSayTheNew
<1>5. CASE o.name \in {"createTab", "createSpace"}
  <2> DEFINE sh == Shown(o.pane, o.tab)
             tab == [Nothing EXCEPT !.tabs = {o.tab}]
             space == [Nothing EXCEPT !.spaces = {Home[o.tab]}]
  <2>1. PutsPane(o) /\ o.pane \in Live(place)' /\ place'[o.pane] = o.tab /\ o.pane \in used'
    <3>1. PutsPane(o)
      BY <1>5 DEF PutsPane
    <3>2. o.pane \in Pane /\ o.tab \in Tab /\ After(o)[o.pane] = o.tab
      BY <3>1, AfterSays
    <3>3. QED
      BY <3>1, <3>2, TreeAssumption DEF Live
  <2>2. Told(sh) /\ DOMAIN sh.shows = {o.pane}
    <3>1. /\ sh.kind = "plain" /\ DOMAIN sh.shows = {o.pane} /\ sh.shows[o.pane] = o.tab
          /\ sh.noPanes = {} /\ sh.noTabs = {} /\ sh.noSpaces = {}
      BY ShownSays
    <3> HIDE DEF sh
    <3>2. QED
      BY <2>1, <3>1 DEF Told, KeepsRow
  <2>3. Told(tab) /\ AddsRow(tab, o.tab)
    <3>1. /\ tab.kind = "plain" /\ DOMAIN tab.shows = {} /\ tab.tabs = {o.tab}
          /\ tab.noPanes = {} /\ tab.noTabs = {} /\ tab.noSpaces = {}
      BY DEF Nothing
    <3> HIDE DEF tab
    <3>2. QED
      BY <3>1 DEF Told, KeepsRow, AddsRow
  <2>4. Told(space) /\ AddsSpace(space, Home[o.tab])
    <3>1. /\ space.kind = "plain" /\ DOMAIN space.shows = {} /\ space.spaces = {Home[o.tab]}
          /\ space.noPanes = {} /\ space.noTabs = {} /\ space.noSpaces = {}
      BY DEF Nothing
    <3> HIDE DEF space
    <3>2. QED
      BY <3>1 DEF Told, KeepsRow, AddsSpace
  <2>5. (o.name = "createTab" => s = <<tab, sh>>) /\ (o.name = "createSpace" => s = <<space, tab, sh>>)
    BY <1>5 DEF Says
  <2>6. o.name = "createTab" => Home[o.tab] \in Spaces(Open(place))
    BY DEF CanDo
  <2> HIDE DEF sh, tab, space
  <2>7. CASE o.name = "createTab"
    <3>1. DOMAIN s = {1, 2} /\ s[1] = tab /\ s[2] = sh
      BY <2>5, <2>7
    <3>2. QED
      BY <1>2, <2>2, <2>3, <2>6, <2>7, <3>1 DEF SaysNew
  <2>8. CASE o.name = "createSpace"
    <3>1. DOMAIN s = {1, 2, 3} /\ s[1] = space /\ s[2] = tab /\ s[3] = sh
      BY <2>5, <2>8
    <3>2. QED
      BY <1>2, <2>2, <2>3, <2>4, <2>8, <3>1 DEF SaysNew
  <2>9. QED
    BY <1>5, <2>7, <2>8
<1>6. QED
  BY <1>3, <1>4, <1>5

\* The workspace that went along: nothing but a closing.
LEMMA CascadeIsTrue ==
  ASSUME TypeOK, NEW o \in Op, CanDo(o),
         Live(place) \cup Open(place) \subseteq used,
         place' = After(o), used' = used \cup Live(After(o)) \cup Open(After(o)),
         NEW i \in DOMAIN Cascade(o)
  PROVE  Told(Cascade(o)[i])
<1> DEFINE closed == Spaces(Open(place)) \ Spaces(Open(After(o)))
           e == [Nothing EXCEPT !.noSpaces = closed]
<1>1. Cascade(o)[i] = e
  <2>1. Cascade(o) = <<e>> \/ Cascade(o) = <<>>
    BY DEF Cascade
  <2> HIDE DEF e
  <2>2. QED
    BY <2>1
<1>2. /\ e.kind = "plain" /\ DOMAIN e.shows = {} /\ e.noPanes = {} /\ e.noTabs = {}
      /\ e.noSpaces = closed
  BY DEF Nothing
<1>3. Open(place) \subseteq Tab /\ Open(place) \subseteq used'
  BY TreeTypes DEF TypeOK
<1>4. Spaces(Open(place)) \subseteq Spaces(used' \cap Tab)
  BY <1>3 DEF Spaces
<1>5. closed \subseteq EndedSpaces'
  BY <1>4 DEF EndedSpaces
<1> HIDE DEF e, closed
<1>6. Told(e)
  BY <1>2, <1>5 DEF Told, KeepsRow
<1>7. QED
  BY <1>1, <1>6
-----------------------------------------------------------------------------
(* What is told by a mirror and the pushes still to come to it.            *)

CardTold(p, t, now, q) ==
  \/ now = t /\ \A i \in DOMAIN q : ShowsIn(q[i], p, t)
  \/ \E i \in DOMAIN q : /\ p \in DOMAIN q[i].shows
                         /\ \A j \in DOMAIN q : j >= i => ShowsIn(q[j], p, t)

RowTold(t, here, q) ==
  \/ here /\ \A i \in DOMAIN q : KeepsRow(q[i], t)
  \/ \E i \in DOMAIN q : /\ AddsRow(q[i], t)
                         /\ \A j \in DOMAIN q : j >= i => KeepsRow(q[j], t)

SpaceTold(w, here, q) == here \/ \E i \in DOMAIN q : AddsSpace(q[i], w)

LEMMA Joined ==
  ASSUME NEW q \in Seq(Event), NEW s \in Seq(Event)
  PROVE  /\ \A i \in DOMAIN q : i \in DOMAIN (q \o s) /\ (q \o s)[i] = q[i]
         /\ \A i \in DOMAIN s : Len(q) + i \in DOMAIN (q \o s) /\ (q \o s)[Len(q) + i] = s[i]
         /\ \A i \in DOMAIN (q \o s) : \/ i \in DOMAIN q
                                       \/ i > Len(q) /\ i - Len(q) \in DOMAIN s /\ (q \o s)[i] = s[i - Len(q)]
         /\ \A i \in DOMAIN q : i \in Nat /\ i <= Len(q)
         /\ \A i \in DOMAIN s : i \in Nat /\ i > 0
         /\ \A i \in DOMAIN (q \o s) : i \in Nat
         /\ Len(q) \in Nat
<1>1. Len(q) \in Nat /\ Len(s) \in Nat /\ Len(q \o s) = Len(q) + Len(s)
      /\ DOMAIN q = 1 .. Len(q) /\ DOMAIN s = 1 .. Len(s) /\ DOMAIN (q \o s) = 1 .. Len(q) + Len(s)
  OBVIOUS
<1>2. \A i \in 1 .. Len(q) + Len(s) : (q \o s)[i] = IF i <= Len(q) THEN q[i] ELSE s[i - Len(q)]
  OBVIOUS
<1>3. QED
  BY <1>1, <1>2

LEMMA CardStaysTold ==
  ASSUME NEW q \in Seq(Event), NEW s \in Seq(Event), NEW r, r = q \o s, NEW p, NEW t, NEW now,
         \A i \in DOMAIN s : ShowsIn(s[i], p, t),
         CardTold(p, t, now, q) \/ \E i \in DOMAIN s : p \in DOMAIN s[i].shows
  PROVE  CardTold(p, t, now, r)
<1>1. /\ \A i \in DOMAIN q : i \in DOMAIN r /\ r[i] = q[i]
      /\ \A i \in DOMAIN s : Len(q) + i \in DOMAIN r /\ r[Len(q) + i] = s[i]
      /\ \A i \in DOMAIN r : \/ i \in DOMAIN q
                             \/ i > Len(q) /\ i - Len(q) \in DOMAIN s /\ r[i] = s[i - Len(q)]
      /\ \A i \in DOMAIN q : i \in Nat /\ i <= Len(q)
      /\ \A i \in DOMAIN s : i \in Nat /\ i > 0
      /\ \A i \in DOMAIN r : i \in Nat
      /\ Len(q) \in Nat
  BY Joined
<1>2. \A i \in DOMAIN r : i \in DOMAIN q \/ ShowsIn(r[i], p, t)
  BY <1>1
<1>3. CASE now = t /\ \A i \in DOMAIN q : ShowsIn(q[i], p, t)
  BY <1>1, <1>2, <1>3 DEF CardTold
<1>4. ASSUME NEW i \in DOMAIN q, p \in DOMAIN q[i].shows,
             \A j \in DOMAIN q : j >= i => ShowsIn(q[j], p, t)
      PROVE  CardTold(p, t, now, r)
  <2>1. i \in DOMAIN r /\ p \in DOMAIN r[i].shows
    BY <1>1, <1>4
  <2>2. \A j \in DOMAIN r : j >= i => ShowsIn(r[j], p, t)
    BY <1>1, <1>2, <1>4
  <2>3. QED
    BY <2>1, <2>2 DEF CardTold
<1>5. ASSUME NEW i \in DOMAIN s, p \in DOMAIN s[i].shows
      PROVE  CardTold(p, t, now, r)
  <2>1. Len(q) + i \in DOMAIN r /\ p \in DOMAIN r[Len(q) + i].shows
    BY <1>1, <1>5
  <2>2. \A j \in DOMAIN r : j >= Len(q) + i => j \notin DOMAIN q
    BY <1>1
  <2>3. QED
    BY <1>2, <2>1, <2>2 DEF CardTold
<1>6. QED
  BY <1>3, <1>4, <1>5 DEF CardTold

LEMMA RowStaysTold ==
  ASSUME NEW q \in Seq(Event), NEW s \in Seq(Event), NEW r, r = q \o s, NEW t, NEW here,
         \A i \in DOMAIN s : KeepsRow(s[i], t),
         RowTold(t, here, q) \/ \E i \in DOMAIN s : AddsRow(s[i], t)
  PROVE  RowTold(t, here, r)
<1>1. /\ \A i \in DOMAIN q : i \in DOMAIN r /\ r[i] = q[i]
      /\ \A i \in DOMAIN s : Len(q) + i \in DOMAIN r /\ r[Len(q) + i] = s[i]
      /\ \A i \in DOMAIN r : \/ i \in DOMAIN q
                             \/ i > Len(q) /\ i - Len(q) \in DOMAIN s /\ r[i] = s[i - Len(q)]
      /\ \A i \in DOMAIN q : i \in Nat /\ i <= Len(q)
      /\ \A i \in DOMAIN s : i \in Nat /\ i > 0
      /\ \A i \in DOMAIN r : i \in Nat
      /\ Len(q) \in Nat
  BY Joined
<1>2. \A i \in DOMAIN r : i \in DOMAIN q \/ KeepsRow(r[i], t)
  BY <1>1
<1>3. CASE here /\ \A i \in DOMAIN q : KeepsRow(q[i], t)
  BY <1>1, <1>2, <1>3 DEF RowTold
<1>4. ASSUME NEW i \in DOMAIN q, AddsRow(q[i], t),
             \A j \in DOMAIN q : j >= i => KeepsRow(q[j], t)
      PROVE  RowTold(t, here, r)
  <2>1. i \in DOMAIN r /\ AddsRow(r[i], t)
    BY <1>1, <1>4
  <2>2. \A j \in DOMAIN r : j >= i => KeepsRow(r[j], t)
    BY <1>1, <1>2, <1>4
  <2>3. QED
    BY <2>1, <2>2 DEF RowTold
<1>5. ASSUME NEW i \in DOMAIN s, AddsRow(s[i], t)
      PROVE  RowTold(t, here, r)
  <2>1. Len(q) + i \in DOMAIN r /\ AddsRow(r[Len(q) + i], t)
    BY <1>1, <1>5
  <2>2. \A j \in DOMAIN r : j >= Len(q) + i => j \notin DOMAIN q
    BY <1>1
  <2>3. QED
    BY <1>2, <2>1, <2>2 DEF RowTold
<1>6. QED
  BY <1>3, <1>4, <1>5 DEF RowTold

LEMMA SpaceStaysTold ==
  ASSUME NEW q \in Seq(Event), NEW s \in Seq(Event), NEW r, r = q \o s, NEW w, NEW here,
         SpaceTold(w, here, q) \/ \E i \in DOMAIN s : AddsSpace(s[i], w)
  PROVE  SpaceTold(w, here, r)
<1>1. /\ \A i \in DOMAIN q : i \in DOMAIN r /\ r[i] = q[i]
      /\ \A i \in DOMAIN s : Len(q) + i \in DOMAIN r /\ r[Len(q) + i] = s[i]
  BY Joined
<1>2. QED
  BY <1>1 DEF SpaceTold

\* The first push is applied, the others are still to come.
LEMMA TailIndices ==
  ASSUME NEW q \in Seq(Event), q # <<>>
  PROVE  /\ \A i \in DOMAIN q : i \in Nat /\ (i = 1 \/ (i - 1 \in DOMAIN Tail(q) /\ Tail(q)[i - 1] = q[i]))
         /\ \A i \in DOMAIN Tail(q) : i \in Nat /\ i + 1 \in DOMAIN q /\ Tail(q)[i] = q[i + 1]
         /\ 1 \in DOMAIN q /\ q[1] = Head(q) /\ Head(q) \in Event
<1>1. Len(q) \in Nat /\ Len(q) > 0 /\ DOMAIN q = 1 .. Len(q) /\ DOMAIN Tail(q) = 1 .. Len(q) - 1
      /\ Tail(q) \in Seq(Event) /\ Len(Tail(q)) = Len(q) - 1
  OBVIOUS
<1>2. \A i \in 1 .. Len(q) - 1 : Tail(q)[i] = q[i + 1]
  OBVIOUS
<1>3. Head(q) = q[1] /\ q[1] \in Event
  BY <1>1
<1>4. \A i \in DOMAIN q : i \in Nat /\ (i = 1 \/ (i - 1 \in DOMAIN Tail(q) /\ Tail(q)[i - 1] = q[i]))
  <2>1. ASSUME NEW i \in 1 .. Len(q), i # 1
        PROVE  i - 1 \in 1 .. Len(q) - 1 /\ Tail(q)[i - 1] = q[i]
    <3>1. i - 1 \in 1 .. Len(q) - 1 /\ (i - 1) + 1 = i
      BY <1>1, <2>1
    <3>2. QED
      BY <1>2, <3>1
  <2>2. QED
    BY <1>1, <2>1
<1>5. \A i \in DOMAIN Tail(q) : i \in Nat /\ i + 1 \in DOMAIN q /\ Tail(q)[i] = q[i + 1]
  BY <1>1, <1>2
<1>6. 1 \in DOMAIN q
  BY <1>1
<1>7. QED
  BY <1>3, <1>4, <1>5, <1>6

LEMMA CardComesTrue ==
  ASSUME NEW q \in Seq(Event), q # <<>>, NEW p, NEW t, NEW now, NEW then,
         CardTold(p, t, now, q),
         (IF p \in DOMAIN Head(q).shows THEN Head(q).shows[p] ELSE now) = t => then = t
  PROVE  CardTold(p, t, then, Tail(q))
<1>1. /\ \A i \in DOMAIN q : i \in Nat /\ (i = 1 \/ (i - 1 \in DOMAIN Tail(q) /\ Tail(q)[i - 1] = q[i]))
      /\ \A i \in DOMAIN Tail(q) : i \in Nat /\ i + 1 \in DOMAIN q /\ Tail(q)[i] = q[i + 1]
      /\ 1 \in DOMAIN q /\ q[1] = Head(q)
  BY TailIndices
<1>2. CASE now = t /\ \A i \in DOMAIN q : ShowsIn(q[i], p, t)
  <2>1. then = t
    BY <1>1, <1>2 DEF ShowsIn
  <2>2. QED
    BY <1>1, <1>2, <2>1 DEF CardTold
<1>3. ASSUME NEW i \in DOMAIN q, p \in DOMAIN q[i].shows,
             \A j \in DOMAIN q : j >= i => ShowsIn(q[j], p, t)
      PROVE  CardTold(p, t, then, Tail(q))
  <2>1. CASE i = 1
    <3>1. then = t
      BY <1>1, <1>3, <2>1 DEF ShowsIn
    <3>2. \A j \in DOMAIN Tail(q) : ShowsIn(Tail(q)[j], p, t)
      BY <1>1, <1>3, <2>1
    <3>3. QED
      BY <3>1, <3>2 DEF CardTold
  <2>2. CASE i # 1
    <3>1. i - 1 \in DOMAIN Tail(q) /\ p \in DOMAIN Tail(q)[i - 1].shows
      BY <1>1, <1>3, <2>2
    <3>2. \A j \in DOMAIN Tail(q) : j >= i - 1 => ShowsIn(Tail(q)[j], p, t)
      BY <1>1, <1>3
    <3>3. QED
      BY <3>1, <3>2 DEF CardTold
  <2>3. QED
    BY <2>1, <2>2
<1>4. QED
  BY <1>2, <1>3 DEF CardTold

LEMMA RowComesTrue ==
  ASSUME NEW q \in Seq(Event), q # <<>>, NEW t, NEW now, NEW then,
         RowTold(t, now, q),
         (now /\ KeepsRow(Head(q), t)) \/ AddsRow(Head(q), t) => then
  PROVE  RowTold(t, then, Tail(q))
<1>1. /\ \A i \in DOMAIN q : i \in Nat /\ (i = 1 \/ (i - 1 \in DOMAIN Tail(q) /\ Tail(q)[i - 1] = q[i]))
      /\ \A i \in DOMAIN Tail(q) : i \in Nat /\ i + 1 \in DOMAIN q /\ Tail(q)[i] = q[i + 1]
      /\ 1 \in DOMAIN q /\ q[1] = Head(q)
  BY TailIndices
<1>2. CASE now /\ \A i \in DOMAIN q : KeepsRow(q[i], t)
  <2>1. then
    BY <1>1, <1>2
  <2>2. QED
    BY <1>1, <1>2, <2>1 DEF RowTold
<1>3. ASSUME NEW i \in DOMAIN q, AddsRow(q[i], t),
             \A j \in DOMAIN q : j >= i => KeepsRow(q[j], t)
      PROVE  RowTold(t, then, Tail(q))
  <2>1. CASE i = 1
    <3>1. then
      BY <1>1, <1>3, <2>1
    <3>2. \A j \in DOMAIN Tail(q) : KeepsRow(Tail(q)[j], t)
      BY <1>1, <1>3, <2>1
    <3>3. QED
      BY <3>1, <3>2 DEF RowTold
  <2>2. CASE i # 1
    <3>1. i - 1 \in DOMAIN Tail(q) /\ AddsRow(Tail(q)[i - 1], t)
      BY <1>1, <1>3, <2>2
    <3>2. \A j \in DOMAIN Tail(q) : j >= i - 1 => KeepsRow(Tail(q)[j], t)
      BY <1>1, <1>3
    <3>3. QED
      BY <3>1, <3>2 DEF RowTold
  <2>3. QED
    BY <2>1, <2>2
<1>4. QED
  BY <1>2, <1>3 DEF RowTold

LEMMA SpaceComesTrue ==
  ASSUME NEW q \in Seq(Event), q # <<>>, NEW w, NEW now, NEW then,
         SpaceTold(w, now, q), now \/ AddsSpace(Head(q), w) => then
  PROVE  SpaceTold(w, then, Tail(q))
<1>1. /\ \A i \in DOMAIN q : i \in Nat /\ (i = 1 \/ (i - 1 \in DOMAIN Tail(q) /\ Tail(q)[i - 1] = q[i]))
      /\ q[1] = Head(q)
  BY TailIndices
<1>2. QED
  BY <1>1 DEF SpaceTold
-----------------------------------------------------------------------------
(* An event of which nothing closed is alive leaves what is open alone.    *)

LEMMA CardAfter ==
  ASSUME place \in Places, NEW e, IsFinal(e), NEW b, NEW p \in Live(place),
         (IF p \in DOMAIN e.shows THEN e.shows[p] ELSE b.card[p]) = place[p]
  PROVE  BoardAfter(b, e).card[p] = place[p]
<1>1. p \in Pane /\ place[p] \in Tab /\ place[p] \in Open(place)
  BY DEF Live, Open, Places
<1>2. Home[place[p]] \in Spaces(Open(place))
  BY <1>1 DEF Spaces
<1>3. p \notin e.noPanes
  BY DEF IsFinal, EndedPanes
<1>4. ~Closed(e, place[p])
  BY <1>1, <1>2 DEF Closed, IsFinal, EndedTabs, EndedSpaces
<1>5. Shows(b.card, e)[p] = place[p]
  BY <1>1 DEF Shows
<1>6. BoardAfter(b, e).card = CardsAfter(b, e)
  BY DEF BoardAfter
<1>7. QED
  BY <1>1, <1>3, <1>4, <1>5, <1>6 DEF CardsAfter

LEMMA RowAfter ==
  ASSUME place \in Places, NEW e \in Event, IsFinal(e), NEW b, NEW t \in Open(place),
         (t \in b.tabs /\ KeepsRow(e, t)) \/ AddsRow(e, t)
  PROVE  t \in BoardAfter(b, e).tabs
<1>1. Home[t] \in Spaces(Open(place))
  BY DEF Spaces
<1>2. ~Closed(e, t)
  BY <1>1 DEF Closed, IsFinal, EndedTabs, EndedSpaces
<1>3. e.kind \in {"plain", "moved", "renamed", "ordered"}
  BY DEF Event
<1>4. BoardAfter(b, e).tabs = RowsAfter(b, e)
  BY DEF BoardAfter
<1>5. CASE e.kind \in {"plain", "moved", "renamed"}
  BY <1>2, <1>4, <1>5 DEF RowsAfter, KeepsRow, AddsRow
<1>6. CASE e.kind = "ordered"
  <2>1. t \in e.tabs \/ t \in b.tabs \ TabsOf(Spaces(e.tabs), b.tabs)
    BY <1>6 DEF KeepsRow, AddsRow, TabsOf
  <2>2. QED
    BY <1>2, <1>4, <1>6, <2>1 DEF RowsAfter
<1>7. QED
  BY <1>3, <1>5, <1>6

LEMMA SpaceAfter ==
  ASSUME NEW e, IsFinal(e), NEW b, NEW w \in Spaces(Open(place)),
         w \in b.spaces \/ AddsSpace(e, w)
  PROVE  w \in BoardAfter(b, e).spaces
<1>1. w \notin e.noSpaces
  BY DEF IsFinal, EndedSpaces
<1>2. QED
  BY <1>1 DEF BoardAfter, AddsSpace

\* A pane the bridge begins to track is one the event shows.
LEMMA TrackedAfter ==
  ASSUME NEW e, DOMAIN e.shows \subseteq used, NEW b, NEW p \in Pane,
         b.age[p] # "unseen" => p \in used, BridgeAfter(b, e).age[p] # "unseen"
  PROVE  p \in used
<1>1. BridgeAfter(b, e).age = AgeAfter(b, e)
  BY DEF BridgeAfter
<1>2. QED
  BY <1>1 DEF AgeAfter

\* The parts of MirrorInv that a mirror's step can disturb, told of one board.
Follows(b, q) ==
  /\ \A p \in Live(place) \ raced : CardTold(p, place[p], b.card[p], q)
  /\ \A t \in Open(place) : RowTold(t, t \in b.tabs, q)
  /\ \A w \in Spaces(Open(place)) : SpaceTold(w, w \in b.spaces, q)

LEMMA FollowsIs == CardsFollow /\ RowsFollow /\ SpacesFollow <=> Follows(board, pushes)
BY DEF Follows, CardsFollow, RowsFollow, SpacesFollow, CardTold, RowTold, SpaceTold

\* A push is applied.
LEMMA PushIsFollowed ==
  ASSUME place \in Places, NEW q \in Seq(Event), q # <<>>, NEW b, Follows(b, q), IsFinal(Head(q))
  PROVE  Follows(BoardAfter(b, Head(q)), Tail(q))
<1> DEFINE e == Head(q)
           c == BoardAfter(b, e)
<1>1. e \in Event
  BY TailIndices
<1>2. ASSUME NEW p \in Live(place) \ raced
      PROVE  CardTold(p, place[p], c.card[p], Tail(q))
  <2>1. (IF p \in DOMAIN e.shows THEN e.shows[p] ELSE b.card[p]) = place[p] => c.card[p] = place[p]
    BY CardAfter
  <2>2. CardTold(p, place[p], b.card[p], q)
    BY DEF Follows
  <2> HIDE DEF c
  <2>3. QED
    BY <2>1, <2>2, CardComesTrue
<1>3. ASSUME NEW t \in Open(place)
      PROVE  RowTold(t, t \in c.tabs, Tail(q))
  <2>1. (t \in b.tabs /\ KeepsRow(e, t)) \/ AddsRow(e, t) => t \in c.tabs
    BY <1>1, RowAfter
  <2>2. RowTold(t, t \in b.tabs, q)
    BY DEF Follows
  <2> HIDE DEF c
  <2>3. QED
    BY <2>1, <2>2, RowComesTrue
<1>4. ASSUME NEW w \in Spaces(Open(place))
      PROVE  SpaceTold(w, w \in c.spaces, Tail(q))
  <2>1. w \in b.spaces \/ AddsSpace(e, w) => w \in c.spaces
    BY SpaceAfter
  <2>2. SpaceTold(w, w \in b.spaces, q)
    BY DEF Follows
  <2> HIDE DEF c
  <2>3. QED
    BY <2>1, <2>2, SpaceComesTrue
<1> HIDE DEF c
<1>5. Follows(c, Tail(q))
  BY <1>2, <1>3, <1>4 DEF Follows
<1>6. QED
  BY <1>5 DEF c

\* An answer is applied: it says nothing that is no longer so.
LEMMA AnswerIsFollowed ==
  ASSUME place \in Places, NEW q \in Seq(Event), NEW e \in Event, NEW b, Follows(b, q), IsFinal(e),
         e.kind # "ordered", \A p \in Live(place) \ raced : ShowsIn(e, p, place[p])
  PROVE  Follows(BoardAfter(b, e), q)
<1> DEFINE c == BoardAfter(b, e)
<1>2. ASSUME NEW p \in Live(place) \ raced
      PROVE  CardTold(p, place[p], c.card[p], q)
  <2>1. (IF p \in DOMAIN e.shows THEN e.shows[p] ELSE b.card[p]) = place[p] => c.card[p] = place[p]
    BY CardAfter
  <2>2. b.card[p] = place[p] => c.card[p] = place[p]
    BY <2>1 DEF ShowsIn
  <2>3. CardTold(p, place[p], b.card[p], q)
    BY DEF Follows
  <2> HIDE DEF c
  <2>4. QED
    BY <2>2, <2>3 DEF CardTold
<1>3. ASSUME NEW t \in Open(place)
      PROVE  RowTold(t, t \in c.tabs, q)
  <2>1. t \in b.tabs => t \in c.tabs
    BY RowAfter DEF KeepsRow
  <2>2. RowTold(t, t \in b.tabs, q)
    BY DEF Follows
  <2> HIDE DEF c
  <2>3. QED
    BY <2>1, <2>2 DEF RowTold
<1>4. ASSUME NEW w \in Spaces(Open(place))
      PROVE  SpaceTold(w, w \in c.spaces, q)
  <2>1. w \in b.spaces => w \in c.spaces
    BY SpaceAfter
  <2>2. SpaceTold(w, w \in b.spaces, q)
    BY DEF Follows
  <2> HIDE DEF c
  <2>3. QED
    BY <2>1, <2>2 DEF SpaceTold
<1> HIDE DEF c
<1>5. Follows(c, q)
  BY <1>2, <1>3, <1>4 DEF Follows
<1>6. QED
  BY <1>5 DEF c
-----------------------------------------------------------------------------
(* Every step keeps MirrorInv.                                             *)

LEMMA OnlyOrdersReorder ==
  ASSUME NEW o \in Op, o.name \notin {"exit", "orderTabs"}
  PROVE  Result(o).kind # "ordered"
<1>1. CASE o.name = "renamePane"
  <2>1. Result(o).kind = "plain"
    BY <1>1, ShownSays DEF Result
  <2>2. QED
    BY <2>1
<1>2. CASE o.name \in {"split", "createTab", "createSpace", "movePane"}
  <2>1. Shown(o.pane, o.tab).kind = "plain" /\ Shown(o.pane, o.tab) \in Event
    BY <1>2, ShownType DEF Op
  <2>2. QED
    BY <1>2, <2>1 DEF Result, Event
<1>3. CASE o.name \in {"closePane", "closeTab", "renameTab", "closeSpace", "renameSpace"}
  BY <1>3 DEF Result, Nothing
<1>4. QED
  BY <1>1, <1>2, <1>3 DEF Op

LEMMA HerdrFollows ==
  ASSUME MirrorInv, NEW o \in Op, HerdrDoes(o), board' = board
  PROVE  Follows(board, pushes)'
<1> DEFINE s == Says(o)
           c == Cascade(o)
           q == pushes \o s
<1>0. TypeOK /\ CanDo(o) /\ Live(place) \cup Open(place) \subseteq used
      /\ place' = After(o) /\ used' = used \cup Live(After(o)) \cup Open(After(o))
      /\ raced \subseteq raced' /\ pushes' = q \o c
  BY DEF MirrorInv, ClosingsAreFinal, HerdrDoes
<1>1. s \in Seq(Event) /\ c \in Seq(Event) /\ pushes \in Seq(Event) /\ q \in Seq(Event)
  BY <1>0, PushesType DEF TypeOK
<1>2. SaysNew(s)
  BY <1>0, PushesSayTheNew
<1>3. \A i \in DOMAIN c : Told(c[i])
  BY <1>0, CascadeIsTrue
<1>4. Follows(board, pushes)
  BY FollowsIs DEF MirrorInv
<1>5. /\ \A p \in Pane : p \in Live(place) <=> place[p] # Nowhere
      /\ \A p \in Pane : p \in Live(place') <=> place'[p] # Nowhere
      /\ Live(place') \subseteq Pane
  BY DEF Live
<1> HIDE DEF s, c, q
<1>6. ASSUME NEW p \in Live(place') \ raced'
      PROVE  CardTold(p, place'[p], board'.card[p], pushes')
  <2>1. \A i \in DOMAIN s : ShowsIn(s[i], p, place'[p])
    BY <1>2 DEF SaysNew, Told, ShowsIn
  <2>2. \A i \in DOMAIN c : ShowsIn(c[i], p, place'[p])
    BY <1>3 DEF Told, ShowsIn
  <2>3. CardTold(p, place'[p], board.card[p], pushes) \/ \E i \in DOMAIN s : p \in DOMAIN s[i].shows
    <3>1. CASE place'[p] = place[p]
      <4>1. p \in Live(place) \ raced
        BY <1>0, <1>5, <3>1
      <4>2. QED
        BY <1>4, <3>1, <4>1 DEF Follows
    <3>2. CASE place'[p] # place[p]
      BY <1>2, <3>2 DEF SaysNew
    <3>3. QED
      BY <3>1, <3>2
  <2>4. CardTold(p, place'[p], board.card[p], q)
    BY <1>1, <2>1, <2>3, CardStaysTold DEF q
  <2>5. QED
    BY <1>0, <1>1, <2>2, <2>4, CardStaysTold
<1>7. ASSUME NEW t \in Open(place')
      PROVE  RowTold(t, t \in board'.tabs, pushes')
  <2>1. \A i \in DOMAIN s : KeepsRow(s[i], t)
    BY <1>2 DEF SaysNew, Told
  <2>2. \A i \in DOMAIN c : KeepsRow(c[i], t)
    BY <1>3 DEF Told
  <2>3. RowTold(t, t \in board.tabs, pushes) \/ \E i \in DOMAIN s : AddsRow(s[i], t)
    BY <1>2, <1>4 DEF Follows, SaysNew
  <2>4. RowTold(t, t \in board.tabs, q)
    BY <1>1, <2>1, <2>3, RowStaysTold DEF q
  <2>5. RowTold(t, t \in board.tabs, pushes')
    BY <1>0, <1>1, <2>2, <2>4, RowStaysTold
  <2>6. QED
    BY <2>5
<1>8. ASSUME NEW w \in Spaces(Open(place'))
      PROVE  SpaceTold(w, w \in board'.spaces, pushes')
  <2>1. SpaceTold(w, w \in board.spaces, pushes) \/ \E i \in DOMAIN s : AddsSpace(s[i], w)
    BY <1>2, <1>4 DEF Follows, SaysNew
  <2>2. SpaceTold(w, w \in board.spaces, q)
    BY <1>1, <2>1, SpaceStaysTold DEF q
  <2>3. SpaceTold(w, w \in board.spaces, pushes')
    BY <1>0, <1>1, <2>2, SpaceStaysTold
  <2>4. QED
    BY <2>3
<1>9. QED
  BY <1>6, <1>7, <1>8 DEF Follows

\* What is on its way stays true while herdr goes on: a pane that moves
\* under an answer that shows it is noted in raced.
LEMMA HerdrStaysFinal ==
  ASSUME MirrorInv, NEW o \in Op, HerdrDoes(o), bridge' = bridge, poll' = poll
  PROVE  /\ Live(place)' \cup Open(place)' \cup Tracked' \subseteq used'
         /\ \A i \in DOMAIN pushes' : IsFinal(pushes[i])'
         /\ poll' # Idle => Missing' \subseteq EndedPanes' /\ Live(poll.answer)' \subseteq used'
         /\ \A e \in {asked, rename} \ {Idle} : /\ IsFinal(e)'
                                                /\ \A p \in Live(place') \ raced' : ShowsIn(e, p, place'[p])
<1> DEFINE s == Says(o)
           c == Cascade(o)
           q == pushes \o s
<1>0. TypeOK /\ CanDo(o) /\ Live(place) \cup Open(place) \cup Tracked \subseteq used
      /\ place' = After(o) /\ used' = used \cup Live(After(o)) \cup Open(After(o))
      /\ raced \subseteq raced' /\ pushes' = q \o c
  BY DEF MirrorInv, ClosingsAreFinal, HerdrDoes
<1>1. s \in Seq(Event) /\ c \in Seq(Event) /\ pushes \in Seq(Event) /\ q \in Seq(Event)
  BY <1>0, PushesType DEF TypeOK
<1>2. SaysNew(s)
  BY <1>0, PushesSayTheNew
<1>3. \A i \in DOMAIN c : Told(c[i])
  BY <1>0, CascadeIsTrue
<1>4. /\ EndedPanes \subseteq EndedPanes' /\ EndedTabs \subseteq EndedTabs'
      /\ EndedSpaces \subseteq EndedSpaces'
      /\ used \subseteq used' /\ Live(place)' \cup Open(place)' \subseteq used'
  BY <1>0, EndsAreFinal
<1>5. Tracked' = Tracked /\ Missing' = Missing
  BY DEF Tracked, Missing
<1>6. ASSUME NEW e, IsFinal(e) PROVE IsFinal(e)'
  BY <1>4, <1>6 DEF IsFinal
<1>7. ASSUME NEW e, Told(e) PROVE IsFinal(e)'
  BY <1>7 DEF IsFinal, Told
<1> HIDE DEF s, c, q
<1>8. \A i \in DOMAIN pushes' : IsFinal(pushes[i])'
  <2>1. ASSUME NEW i \in DOMAIN pushes' PROVE IsFinal(pushes[i])'
    <3> DEFINE e == pushes'[i]
    <3>1. \/ i \in DOMAIN q /\ e = q[i]
          \/ i - Len(q) \in DOMAIN c /\ e = c[i - Len(q)]
      BY <1>0, <1>1, Joined
    <3>2. i \in DOMAIN q => \/ i \in DOMAIN pushes /\ q[i] = pushes[i]
                            \/ i - Len(pushes) \in DOMAIN s /\ q[i] = s[i - Len(pushes)]
      BY <1>1, Joined DEF q
    <3>3. \A j \in DOMAIN pushes : IsFinal(pushes[j])
      BY DEF MirrorInv, ClosingsAreFinal
    <3>4. IsFinal(e) \/ Told(e)
      BY <1>2, <1>3, <3>1, <3>2, <3>3 DEF SaysNew
    <3>5. QED
      BY <1>4, <3>4 DEF IsFinal, Told
  <2>2. QED
    BY <2>1
<1>9. poll' # Idle => Missing' \subseteq EndedPanes' /\ Live(poll.answer)' \subseteq used'
  BY <1>4, <1>5 DEF MirrorInv, ClosingsAreFinal
<1>10. ASSUME NEW e \in {asked, rename} \ {Idle}
       PROVE  IsFinal(e)' /\ \A p \in Live(place') \ raced' : ShowsIn(e, p, place'[p])
  <2>1. IsFinal(e) /\ \A p \in Live(place) \ raced : ShowsIn(e, p, place[p])
    BY DEF MirrorInv, ClosingsAreFinal, AnswersShowTheTree
  <2>2. ASSUME NEW p \in Live(place') \ raced', p \in DOMAIN e.shows
        PROVE  e.shows[p] = place'[p]
    <3>1. p \in used
      BY <2>1, <2>2 DEF IsFinal
    <3>2. p \in Live(place)
      BY <1>0, <3>1, AfterSays
    <3>3. p \in Answering
      BY <2>2 DEF Answering
    <3>4. ~(o.name = "movePane" /\ p = o.pane)
      BY <3>3 DEF HerdrDoes
    <3>5. place'[p] = place[p]
      <4>1. PutsPane(o) /\ o.name # "movePane" => o.pane \notin used
        BY <1>0 DEF PutsPane, CanDo
      <4>2. place'[p] # place[p] => PutsPane(o) /\ p = o.pane
        BY <1>0, AfterSays
      <4>3. QED
        BY <3>1, <3>4, <4>1, <4>2
    <3>6. QED
      BY <1>0, <2>1, <2>2, <3>2, <3>5 DEF ShowsIn
  <2>3. QED
    BY <1>6, <2>1, <2>2 DEF ShowsIn
<1>11. QED
  BY <1>0, <1>4, <1>5, <1>8, <1>9, <1>10
LEMMA MirrorInit == Init => MirrorInv
<1> SUFFICES ASSUME Init PROVE MirrorInv
  OBVIOUS
<1>1. /\ used = Live(place) \cup Open(place) /\ pushes = <<>> /\ asked = Idle /\ rename = Idle
      /\ poll = Idle /\ board.card = place /\ board.tabs = Open(place)
      /\ board.spaces = Spaces(Open(place))
      /\ \A p \in Pane : bridge.age[p] # "unseen" => p \in Live(place)
  BY DEF Init
<1>2. DOMAIN pushes = {}
  BY <1>1
<1>3. ClosingsAreFinal
  BY <1>1, <1>2 DEF ClosingsAreFinal, Tracked
<1>4. AnswersShowTheTree
  BY <1>1 DEF AnswersShowTheTree
<1>5. CardsFollow /\ RowsFollow /\ SpacesFollow
  BY <1>1, <1>2 DEF CardsFollow, RowsFollow, SpacesFollow
<1>6. QED
  BY <1>3, <1>4, <1>5, InitType DEF MirrorInv

\* What a step that leaves the tree alone has to show.
LEMMA MirrorStill ==
  ASSUME MirrorInv, TypeOK', UNCHANGED <<place, used, raced>>,
         {asked', rename'} \ {Idle} \subseteq {asked, rename} \ {Idle},
         \A i \in DOMAIN pushes' : \E j \in DOMAIN pushes : pushes'[i] = pushes[j],
         Tracked' \subseteq used,
         poll' # Idle => Missing' \subseteq EndedPanes /\ Live(poll'.answer) \subseteq used,
         Follows(board', pushes')
  PROVE  MirrorInv'
<1>1. EndedPanes' = EndedPanes /\ EndedTabs' = EndedTabs /\ EndedSpaces' = EndedSpaces
  BY DEF EndedPanes, EndedTabs, EndedSpaces
<1>2. \A e : IsFinal(e) => /\ DOMAIN e.shows \subseteq used'
                           /\ e.noPanes \subseteq EndedPanes' /\ e.noTabs \subseteq EndedTabs'
                           /\ e.noSpaces \subseteq EndedSpaces'
  BY <1>1 DEF IsFinal
<1>3. ClosingsAreFinal'
  <2>1. (Live(place) \cup Open(place) \cup Tracked)' \subseteq used'
    BY DEF MirrorInv, ClosingsAreFinal
  <2>2. ASSUME NEW i \in DOMAIN pushes' PROVE IsFinal(pushes[i])'
    BY <1>2 DEF MirrorInv, ClosingsAreFinal, IsFinal
  <2>3. ASSUME NEW e \in {asked', rename'} \ {Idle} PROVE IsFinal(e)'
    BY <1>2 DEF MirrorInv, ClosingsAreFinal, IsFinal
  <2>4. poll' # Idle => Missing' \subseteq EndedPanes' /\ Live(poll'.answer) \subseteq used'
    BY <1>1
  <2>5. QED
    BY <2>1, <2>2, <2>3, <2>4 DEF ClosingsAreFinal
<1>4. AnswersShowTheTree'
  BY DEF MirrorInv, AnswersShowTheTree
<1>5. CardsFollow' /\ RowsFollow' /\ SpacesFollow'
  BY DEF Follows, CardsFollow, RowsFollow, SpacesFollow, CardTold, RowTold, SpaceTold
<1>6. QED
  BY <1>3, <1>4, <1>5 DEF MirrorInv

\* What a step of herdr has to show.
LEMMA MirrorMoves ==
  ASSUME MirrorInv, TypeOK', NEW o \in Op, HerdrDoes(o), UNCHANGED <<poll, bridge, board>>,
         NEW r, r = Result(o),
         \/ {asked', rename'} \ {Idle} \subseteq {asked, rename} \ {Idle}
         \/ /\ {asked', rename'} \ {Idle} \subseteq ({asked, rename} \ {Idle}) \cup {r}
            /\ o.name \notin {"exit", "orderTabs"}
  PROVE  MirrorInv'
<1>1. /\ Live(place)' \cup Open(place)' \cup Tracked' \subseteq used'
      /\ \A i \in DOMAIN pushes' : IsFinal(pushes[i])'
      /\ poll' # Idle => Missing' \subseteq EndedPanes' /\ Live(poll.answer)' \subseteq used'
      /\ \A e \in {asked, rename} \ {Idle} : /\ IsFinal(e)'
                                             /\ \A p \in Live(place') \ raced' : ShowsIn(e, p, place'[p])
  BY HerdrStaysFinal
<1>2. o.name # "exit" => Told(r)
  BY ResultsAreTrue DEF HerdrDoes, MirrorInv, ClosingsAreFinal
<1>3. ASSUME NEW e \in {asked', rename'} \ {Idle}
      PROVE  IsFinal(e)' /\ e.kind # "ordered" /\ \A p \in Live(place') \ raced' : ShowsIn(e, p, place'[p])
  <2>1. CASE e \in {asked, rename} \ {Idle}
    <3>1. e.kind # "ordered"
      BY <2>1 DEF MirrorInv, AnswersShowTheTree
    <3>2. QED
      BY <1>1, <2>1, <3>1
  <2>2. CASE e = r /\ o.name \notin {"exit", "orderTabs"}
    <3>1. Told(e) /\ e.kind # "ordered"
      BY <1>2, <2>2, OnlyOrdersReorder
    <3>2. IsFinal(e)'
      BY <3>1 DEF IsFinal, Told
    <3>3. \A p \in Live(place') \ raced' : ShowsIn(e, p, place'[p])
      BY <3>1 DEF Told, ShowsIn
    <3>4. QED
      BY <3>1, <3>2, <3>3
  <2>3. QED
    BY <2>1, <2>2
<1>4. ClosingsAreFinal'
  <2>1. \A e \in {asked', rename'} \ {Idle} : IsFinal(e)'
    BY <1>3
  <2>2. QED
    BY <1>1, <2>1 DEF ClosingsAreFinal
<1>5. AnswersShowTheTree'
  BY <1>3 DEF AnswersShowTheTree
<1>6. Follows(board, pushes)'
  BY HerdrFollows
<1>7. CardsFollow' /\ RowsFollow' /\ SpacesFollow'
  BY <1>6 DEF Follows, CardsFollow, RowsFollow, SpacesFollow, CardTold, RowTold, SpaceTold
<1>8. QED
  BY <1>4, <1>5, <1>7 DEF MirrorInv
LEMMA MirrorNext == MirrorInv /\ [Next]_vars => MirrorInv'
<1> SUFFICES ASSUME MirrorInv, [Next]_vars PROVE MirrorInv'
  OBVIOUS
<1>0. /\ TypeOK /\ TypeOK' /\ place \in Places /\ pushes \in Seq(Event)
      /\ Follows(board, pushes) /\ Tracked \subseteq used
      /\ \A i \in DOMAIN pushes : IsFinal(pushes[i])
      /\ poll # Idle => Missing \subseteq EndedPanes /\ Live(poll.answer) \subseteq used
  BY NextType, FollowsIs DEF MirrorInv, TypeOK, ClosingsAreFinal
\* The bridge tracks what it did, and what the event shows.
<1>1. ASSUME NEW e, DOMAIN e.shows \subseteq used, bridge' = BridgeAfter(bridge, e)
      PROVE  Tracked' \subseteq used
  <2>1. \A p \in Pane : bridge.age[p] # "unseen" => p \in used
    BY <1>0 DEF Tracked
  <2>2. \A p \in Pane : bridge'.age[p] # "unseen" => p \in used
    BY <1>1, <2>1, TrackedAfter
  <2>3. QED
    BY <2>2 DEF Tracked
<1>2. ASSUME NEW o \in Op, Elsewhere(o) PROVE MirrorInv'
  BY <1>0, <1>2, MirrorMoves DEF Elsewhere, requests
<1>3. ASSUME NEW o \in Op, Served(o) PROVE MirrorInv'
  <2>1. /\ {asked', rename'} \ {Idle} \subseteq ({asked, rename} \ {Idle}) \cup {Result(o)}
        /\ o.name \notin {"exit", "orderTabs"}
        /\ HerdrDoes(o) /\ UNCHANGED <<poll, bridge, board>>
    BY <1>3 DEF Served
  <2>2. QED
    BY <1>0, <2>1, MirrorMoves
<1>4. ASSUME NEW p \in Pane, RenameServed(p) PROVE MirrorInv'
  <2> DEFINE o == [name |-> "renamePane", pane |-> p]
  <2>1. o \in Op /\ o.name \notin {"exit", "orderTabs"}
    BY DEF Op
  <2>2. HerdrDoes(o) /\ rename' = Result(o) /\ UNCHANGED <<asked, poll, bridge, board>>
    BY <1>4 DEF RenameServed
  <2> HIDE DEF o
  <2>3. {asked', rename'} \ {Idle} \subseteq ({asked, rename} \ {Idle}) \cup {Result(o)}
    BY <2>2
  <2>4. QED
    BY <1>0, <2>1, <2>2, <2>3, MirrorMoves
<1>5. CASE HandlePush
  <2> DEFINE e == Head(pushes)
  <2>1. pushes # <<>> /\ bridge' = BridgeAfter(bridge, e) /\ board' = BoardAfter(board, e)
        /\ pushes' = Tail(pushes) /\ UNCHANGED <<place, used, raced, asked, rename, poll>>
    BY <1>5 DEF HandlePush, herdrVars, requests
  <2>2. IsFinal(e)
    BY <1>0, <2>1, TailIndices
  <2> HIDE DEF e
  <2>3. Tracked' \subseteq used
    BY <1>1, <2>1, <2>2 DEF IsFinal
  <2>4. \A i \in DOMAIN pushes' : \E j \in DOMAIN pushes : pushes'[i] = pushes[j]
    BY <1>0, <2>1, TailIndices
  <2>5. Follows(board', pushes')
    BY <1>0, <2>1, <2>2, PushIsFollowed DEF e
  <2>6. poll' # Idle => Missing' \subseteq EndedPanes /\ Live(poll'.answer) \subseteq used
    BY <1>0, <2>1 DEF Missing
  <2>7. QED
    BY <1>0, <2>1, <2>3, <2>4, <2>5, <2>6, MirrorStill
<1>6. ASSUME NEW e \in {asked, rename} \ {Idle},
             bridge' = BridgeAfter(bridge, e), board' = BoardAfter(board, e),
             {asked', rename'} \ {Idle} \subseteq {asked, rename} \ {Idle},
             UNCHANGED <<place, used, raced, pushes, poll>>
      PROVE  MirrorInv'
  <2>1. e \in Event
    BY <1>0 DEF TypeOK
  <2>2. IsFinal(e) /\ e.kind # "ordered" /\ \A p \in Live(place) \ raced : ShowsIn(e, p, place[p])
    BY DEF MirrorInv, ClosingsAreFinal, AnswersShowTheTree
  <2>3. Tracked' \subseteq used
    BY <1>1, <1>6, <2>2 DEF IsFinal
  <2>4. Follows(board', pushes')
    BY <1>0, <1>6, <2>1, <2>2, AnswerIsFollowed
  <2>5. poll' # Idle => Missing' \subseteq EndedPanes /\ Live(poll'.answer) \subseteq used
    BY <1>0, <1>6 DEF Missing
  <2>6. \A i \in DOMAIN pushes' : \E j \in DOMAIN pushes : pushes'[i] = pushes[j]
    BY <1>6
  <2>7. QED
    BY <1>0, <1>6, <2>3, <2>4, <2>5, <2>6, MirrorStill
<1>7. CASE Answered
  BY <1>6, <1>7 DEF Answered, herdrVars
<1>8. CASE RenameAnswered
  BY <1>6, <1>8 DEF RenameAnswered, herdrVars
<1>9. CASE PollAnswered
  <2>1. UNCHANGED <<place, used, raced, pushes, asked, rename, bridge, board>>
        /\ poll'.known = Tracked /\ poll'.answer = place
    BY <1>9 DEF PollAnswered, herdrVars, requests
  <2>2. Missing' \subseteq EndedPanes
    BY <1>0, <2>1 DEF Missing, EndedPanes, Tracked, Live
  <2>3. Live(poll'.answer) \subseteq used /\ Tracked' \subseteq used
    BY <1>0, <2>1 DEF MirrorInv, ClosingsAreFinal, Tracked
  <2>4. QED
    BY <1>0, <2>1, <2>2, <2>3, MirrorStill
<1>10. CASE PollApplied
  <2> DEFINE e == [Nothing EXCEPT !.noPanes = Missing]
             f == [Nothing EXCEPT !.shows = [p \in Live(poll.answer) |-> poll.answer[p]]]
             g == [Nothing EXCEPT !.noPanes = {p \in Missing : bridge.at[p] # Nowhere}]
             middle == BridgeAfter(bridge, e)
  <2>1. /\ bridge' = BridgeAfter(middle, f) /\ board' = BoardAfter(board, g) /\ poll' = Idle
        /\ UNCHANGED <<place, used, raced, pushes, asked, rename>>
        /\ poll.stage = "answered"
    BY <1>10 DEF PollApplied, herdrVars, requests
  <2>2. poll # Idle
    BY <2>1 DEF Idle
  <2>3. DOMAIN e.shows = {} /\ DOMAIN f.shows = Live(poll.answer)
    BY DEF Nothing
  <2>4. /\ g.kind = "plain" /\ DOMAIN g.shows = {} /\ g.noTabs = {} /\ g.noSpaces = {}
        /\ g.noPanes \subseteq Missing
    BY DEF Nothing
  <2>5. g \in Event
    BY <1>0, <2>1, PollEvents
  <2> HIDE DEF e, f, g
  <2>6. IsFinal(g)
    BY <1>0, <2>2, <2>4 DEF IsFinal
  <2>7. Follows(board', pushes')
    BY <1>0, <2>1, <2>4, <2>5, <2>6, AnswerIsFollowed DEF ShowsIn
  <2>8. Tracked' \subseteq used
    <3>1. \A p \in Pane : middle.age[p] # "unseen" => p \in used
      BY <1>0, <2>3, TrackedAfter DEF Tracked
    <3> HIDE DEF middle
    <3>2. DOMAIN f.shows \subseteq used
      BY <1>0, <2>2, <2>3
    <3>3. \A p \in Pane : bridge'.age[p] # "unseen" => p \in used
      BY <2>1, <3>1, <3>2, TrackedAfter
    <3>4. QED
      BY <3>3 DEF Tracked
  <2>9. QED
    BY <1>0, <2>1, <2>7, <2>8, MirrorStill
<1>11. CASE UNCHANGED vars
  <2>1. UNCHANGED <<place, used, raced, pushes, asked, rename, bridge, board, poll>>
    BY <1>11 DEF vars, herdrVars, requests
  <2>2. QED
    BY <1>0, <2>1, MirrorStill DEF Tracked, Missing
<1>12. QED
  BY <1>2, <1>3, <1>4, <1>5, <1>7, <1>8, <1>9, <1>10, <1>11 DEF Next

LEMMA MirrorsFollow == Spec => []MirrorInv
BY MirrorInit, MirrorNext, PTL DEF Spec

(* When nothing is on its way, the board shows every live pane under the   *)
(* tab it is in, and has the row of every open tab and its workspace: no   *)
(* cascade, in whatever order pushes, answers and polls are applied,       *)
(* purges what is open.                                                    *)
THEOREM WhatIsOpenIsShown == Spec => []OpenIsShown
<1>1. MirrorInv => OpenIsShown
  <2> SUFFICES ASSUME MirrorInv, pushes = <<>> PROVE OpenIsShown
    BY DEF OpenIsShown, Quiet
  <2>1. DOMAIN pushes = {}
    OBVIOUS
  <2>2. QED
    BY <2>1 DEF MirrorInv, CardsFollow, RowsFollow, SpacesFollow, OpenIsShown
<1>2. QED
  BY <1>1, MirrorsFollow, PTL

(* A live pane loses its card only when a push that shows it is still to   *)
(* come.                                                                   *)
THEOREM CardsComeBack == Spec => OnlyMovesLoseCards
<1> DEFINE Back == \A p \in Live(place') \ raced' :
                     board.card[p] # Nowhere /\ board'.card[p] = Nowhere
                       => \E i \in DOMAIN pushes' : p \in DOMAIN pushes'[i].shows
<1>1. MirrorInv' => Back
  <2>1. \A p \in Live(place') : place'[p] # Nowhere
    BY DEF Live
  <2>2. QED
    BY <2>1 DEF MirrorInv, CardsFollow
<1>2. Back => [Back]_vars
  OBVIOUS
<1>3. QED
  BY <1>1, <1>2, MirrorsFollow, PTL DEF OnlyMovesLoseCards
=============================================================================
