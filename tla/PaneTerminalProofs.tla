-------------------------- MODULE PaneTerminalProofs --------------------------
(***************************************************************************)
(* Theorems about PaneTerminal, for any panes, loads and subscriptions,    *)
(* and about the panel beside it (FilePanel), for any panes and projects,  *)
(* any repository and any number of calls; the two share no variable.      *)
(***************************************************************************)
EXTENDS PaneTerminal, FilePanel, FiniteSetTheorems, WellFoundedInduction, TLAPS

-----------------------------------------------------------------------------
(* Types.                                                                  *)

LEMMA InitType == Init => TypeOK
  <1> SUFFICES ASSUME Init PROVE TypeOK
    OBVIOUS
  <1>1. 0 \in Version /\ failures \in 0 .. MaxFailures
    BY TerminalAssumption DEF Init, Version
  <1>2. pane \in [Pane -> Version]
    BY <1>1 DEF Init
  <1>3. loads \in [Load -> LoadState] /\ feed \in [Sub -> FeedState]
    BY DEF Init, LoadState, FeedState
  <1> QED
    BY <1>1, <1>2, <1>3 DEF Init, TypeOK, Screen

LEMMA TornDownType == TypeOK => TornDown \in [Sub -> FeedState]
  BY DEF TypeOK, TornDown, FeedState

\* What load's first stretch leaves behind is typed.
LEMMA BeginType ==
  ASSUME TypeOK, NEW l \in Load, NEW p \in Pane, Begin(l, p)
  PROVE  /\ ended' \in BOOLEAN /\ view' \in Pane /\ sub' = NoSub
         /\ feed' \in [Sub -> FeedState] /\ snapshot' \in Screen
         /\ loads' \in [Load -> LoadState]
         /\ loading' \in BOOLEAN /\ failed' \in BOOLEAN /\ unavailable' \in BOOLEAN
  <1>1. feed' \in [Sub -> FeedState]
    BY TornDownType DEF Begin
  <1>2. [stage |-> "reading", pane |-> p, since |-> pane[p]] \in LoadState
    BY DEF TypeOK, LoadState
  <1>3. loads' \in [Load -> LoadState]
    BY <1>2 DEF TypeOK, Begin
  <1> QED
    BY <1>1, <1>3 DEF Begin, Screen

LEMMA SettledType ==
  ASSUME TypeOK, NEW l \in Load, Settled(l)
  PROVE  loads' \in [Load -> LoadState] /\ loading' \in BOOLEAN
  BY DEF TypeOK, Settled, LoadState

LEMMA SendsType ==
  ASSUME TypeOK, NEW s \in Sub, NEW v \in Version, Emits(s, v), Sends(s, v)
  PROVE  feed' \in [Sub -> FeedState] /\ feed[s].pane \in Pane
  <1>1. feed[s] \in [pane : Pane, last : Version, primed : BOOLEAN]
    BY DEF TypeOK, FeedState, Emits
  <1> QED
    BY <1>1 DEF TypeOK, Sends, FeedState

LEMMA NextType == TypeOK /\ [Next]_vars => TypeOK'
  <1> SUFFICES ASSUME TypeOK, [Next]_vars PROVE TypeOK'
    OBVIOUS
  <1>1. CASE End \/ Dispose
    <2>1. feed' \in [Sub -> FeedState]
      BY <1>1, TornDownType DEF End, Dispose
    <2> QED
      BY <1>1, <2>1 DEF End, Dispose, TypeOK, stateVars
  <1>2. CASE Closes
    BY <1>2 DEF Closes, TypeOK, LoadState, FeedState
  <1>3. CASE ReloadOffline
    BY <1>3 DEF ReloadOffline, TypeOK, Screen, bridgeVars
  <1>4. ASSUME NEW p \in Pane, PaneWrites(p)
        PROVE  TypeOK'
    <2>1. pane[p] \in Nat /\ pane[p] + 1 \in Version
      BY <1>4, TerminalAssumption DEF TypeOK, PaneWrites, Version
    <2> QED
      BY <1>4, <2>1 DEF TypeOK, PaneWrites, stateVars
  <1>5. ASSUME NEW l \in Load, Reload(l)
        PROVE  TypeOK'
    <2>1. view \in Pane
      BY <1>5 DEF Reload, TypeOK
    <2> QED
      BY <1>5, <2>1, BeginType DEF Reload, TypeOK
  <1>6. ASSUME NEW l \in Load, NEW p \in Pane, Navigate(l, p) \/ Opens(l, p)
        PROVE  TypeOK'
    <2>1. CASE Begin(l, p)
      BY <1>6, <2>1, BeginType DEF Navigate, Opens, TypeOK
    <2>2. CASE ~Begin(l, p)
      BY <1>6, <2>2 DEF Navigate, Opens, TypeOK, stateVars
    <2> QED
      BY <2>1, <2>2
  <1>7. ASSUME NEW l \in Load,
               ReadDiscarded(l) \/ ReadFails(l) \/ SubscribeDiscarded(l) \/ SubscribeFails(l)
        PROVE  TypeOK'
    <2>1. loads' \in [Load -> LoadState] /\ loading' \in BOOLEAN
      BY <1>7, SettledType DEF ReadDiscarded, ReadFails, SubscribeDiscarded, SubscribeFails
    <2>2. failures' \in 0 .. MaxFailures
      BY <1>7, TerminalAssumption
      DEF ReadDiscarded, ReadFails, SubscribeDiscarded, SubscribeFails, bridgeVars, TypeOK
    <2> QED
      BY <1>7, <2>1, <2>2
      DEF ReadDiscarded, ReadFails, SubscribeDiscarded, SubscribeFails, bridgeVars, TypeOK
  <1>8. ASSUME NEW l \in Load, NEW v \in Version, ReadAnswered(l, v)
        PROVE  TypeOK'
    <2>1. loads[l].pane \in Pane
      BY <1>8 DEF ReadAnswered, Reading, TypeOK, LoadState, Idle
    <2>2. snapshot' \in Screen
      BY <1>8, <2>1 DEF ReadAnswered, Screen
    <2>3. [stage |-> "subscribing", pane |-> loads[l].pane] \in LoadState
      BY <2>1 DEF LoadState
    <2>4. loads' \in [Load -> LoadState] /\ loading' \in BOOLEAN /\ failed' \in BOOLEAN
      <3>1. CASE term
        BY <1>8, <2>3, <3>1 DEF ReadAnswered, TypeOK
      <3>2. CASE ~term
        BY <1>8, <3>2, SettledType DEF ReadAnswered, TypeOK
      <3> QED
        BY <3>1, <3>2
    <2> QED
      BY <1>8, <2>2, <2>4 DEF ReadAnswered, TypeOK, bridgeVars
  <1>9. ASSUME NEW l \in Load, NEW s \in Sub, SubscribeAnswered(l, s)
        PROVE  TypeOK'
    <2>1. loads[l].pane \in Pane
      BY <1>9 DEF SubscribeAnswered, Subscribing, TypeOK, LoadState, Idle
    <2>2. [pane |-> loads[l].pane, last |-> pane[loads[l].pane], primed |-> FALSE] \in FeedState
      BY <2>1 DEF TypeOK, FeedState
    <2>3. feed' \in [Sub -> FeedState]
      BY <1>9, <2>2 DEF SubscribeAnswered, TypeOK
    <2> QED
      BY <1>9, <2>3, SettledType DEF SubscribeAnswered, TypeOK
  <1>10. ASSUME NEW s \in Sub, NEW v \in Version,
                FrameIgnored(s, v) \/ FrameGarbles(s, v)
                  \/ \E whole \in BOOLEAN : FramePainted(s, v, whole)
         PROVE  TypeOK'
    <2>1. feed' \in [Sub -> FeedState] /\ feed[s].pane \in Pane
      BY <1>10, SendsType DEF FrameIgnored, FrameGarbles, FramePainted
    <2>2. snapshot' \in Screen
      BY <1>10, <2>1 DEF FrameIgnored, FrameGarbles, FramePainted, TypeOK, Screen
    <2> QED
      BY <1>10, <2>1, <2>2 DEF FrameIgnored, FrameGarbles, FramePainted, TypeOK, stateVars
  <1>11. ASSUME NEW l \in Load, NEW s \in Sub, NEW v \in Version, FrameRefused(l, s, v)
         PROVE  TypeOK'
    <2>1. view \in Pane
      BY <1>11 DEF FrameRefused, TypeOK
    <2> QED
      BY <1>11, <2>1, BeginType DEF FrameRefused, TypeOK
  <1>12. CASE UNCHANGED vars
    BY <1>12 DEF vars, bridgeVars, stateVars, TypeOK
  <1> QED
    BY <1>1, <1>2, <1>3, <1>4, <1>5, <1>6, <1>7, <1>8, <1>9, <1>10, <1>11, <1>12 DEF Next

(* Every variable of the terminal and of the bridge's feeds keeps its type *)
(* (TypeOK), for any panes and any number of overlapping loads.            *)
THEOREM TypeCorrect == Spec => []TypeOK
  BY InitType, NextType, PTL DEF Spec

-----------------------------------------------------------------------------
(* The screen, the stream and the end.  Each of the three needs the others *)
(* and what the bridge knows: only a connection that is up has loads under *)
(* way and subscriptions fed.                                              *)

BridgeServesOpenSockets ==
  /\ \A l \in Load : loads[l] # Idle => connected
  /\ \A s \in Sub : feed[s] # NoFeed => connected

TerminalInv ==
  /\ TypeOK
  /\ ScreenIsOfView
  /\ LiveMeansFed
  /\ EndedIsSilent
  /\ BridgeServesOpenSockets

LEMMA InitInv == Init => TerminalInv
  BY InitType, TerminalAssumption
  DEF Init, TerminalInv, ScreenIsOfView, LiveMeansFed, EndedIsSilent,
      BridgeServesOpenSockets, Empty

\* After load's first stretch nothing is left of what was in view before.
LEMMA BeginInv ==
  ASSUME TerminalInv, NEW l \in Load, NEW p \in Pane, Begin(l, p), connected'
  PROVE  ScreenIsOfView' /\ LiveMeansFed' /\ EndedIsSilent' /\ BridgeServesOpenSockets'
  <1>1. ScreenIsOfView'
    BY TerminalAssumption DEF Begin, ScreenIsOfView, Empty
  <1> QED
    BY <1>1 DEF Begin, LiveMeansFed, EndedIsSilent, BridgeServesOpenSockets

\* An answer that only ends a load disturbs nothing.
LEMMA SettledInv ==
  ASSUME TerminalInv, NEW l \in Load, Settled(l),
         UNCHANGED <<feed, connected, term, view, ended, sub, snapshot>>
  PROVE  ScreenIsOfView' /\ LiveMeansFed' /\ EndedIsSilent' /\ BridgeServesOpenSockets'
  <1>1. \A m \in Load : loads'[m] # Idle => loads[m] # Idle
    BY DEF Settled, TerminalInv, TypeOK
  <1> QED
    BY <1>1 DEF TerminalInv, ScreenIsOfView, LiveMeansFed, EndedIsSilent,
                BridgeServesOpenSockets

\* A frame leaves its subscription on its pane.
LEMMA SendsInv ==
  ASSUME TerminalInv, NEW s \in Sub, NEW v \in Version, Emits(s, v), Sends(s, v),
         UNCHANGED <<connected, term, view, ended, loads, sub>>
  PROVE  LiveMeansFed' /\ EndedIsSilent' /\ BridgeServesOpenSockets'
  <1>1. \A t \in Sub : feed'[t].pane = feed[t].pane
    BY DEF Sends, TerminalInv, TypeOK
  <1>2. \A t \in Sub : feed'[t] # NoFeed => feed[t] # NoFeed
    BY DEF Sends, Emits, TerminalInv, TypeOK
  <1>3. sub \in Sub \cup {NoSub}
    BY DEF TerminalInv, TypeOK
  <1> QED
    BY <1>1, <1>2, <1>3
    DEF TerminalInv, LiveMeansFed, EndedIsSilent, BridgeServesOpenSockets

LEMMA NextInv == TerminalInv /\ [Next]_vars => TerminalInv'
  <1> SUFFICES ASSUME TerminalInv, [Next]_vars
               PROVE  ScreenIsOfView' /\ LiveMeansFed' /\ EndedIsSilent'
                        /\ BridgeServesOpenSockets'
    BY NextType DEF TerminalInv
  <1> USE DEF TerminalInv
  <1>1. CASE End \/ Dispose
    <2>1. \A s \in Sub : feed'[s] # NoFeed => feed[s] # NoFeed
      BY <1>1 DEF End, Dispose, TornDown
    <2> QED
      BY <1>1, <2>1
      DEF End, Dispose, ScreenIsOfView, LiveMeansFed, EndedIsSilent,
          BridgeServesOpenSockets
  <1>2. CASE Closes
    BY <1>2 DEF Closes, ScreenIsOfView, LiveMeansFed, EndedIsSilent, BridgeServesOpenSockets
  <1>3. CASE ReloadOffline
    BY <1>3, TerminalAssumption
    DEF ReloadOffline, bridgeVars, ScreenIsOfView, LiveMeansFed, EndedIsSilent,
        BridgeServesOpenSockets, Empty
  <1>4. ASSUME NEW p \in Pane, PaneWrites(p)
        PROVE  ScreenIsOfView' /\ LiveMeansFed' /\ EndedIsSilent' /\ BridgeServesOpenSockets'
    BY <1>4
    DEF PaneWrites, ScreenIsOfView, LiveMeansFed, EndedIsSilent, BridgeServesOpenSockets
  <1>5. ASSUME NEW l \in Load, Reload(l)
        PROVE  ScreenIsOfView' /\ LiveMeansFed' /\ EndedIsSilent' /\ BridgeServesOpenSockets'
    BY <1>5, BeginInv DEF Reload, TypeOK
  <1>6. ASSUME NEW l \in Load, NEW p \in Pane, Navigate(l, p) \/ Opens(l, p)
        PROVE  ScreenIsOfView' /\ LiveMeansFed' /\ EndedIsSilent' /\ BridgeServesOpenSockets'
    <2>1. CASE Begin(l, p)
      BY <1>6, <2>1, BeginInv DEF Navigate, Opens
    <2>2. CASE ~Begin(l, p)
      BY <1>6, <2>2
      DEF Navigate, Opens, ScreenIsOfView, LiveMeansFed, EndedIsSilent,
          BridgeServesOpenSockets
    <2> QED
      BY <2>1, <2>2
  <1>7. ASSUME NEW l \in Load,
               ReadDiscarded(l) \/ ReadFails(l) \/ SubscribeDiscarded(l) \/ SubscribeFails(l)
        PROVE  ScreenIsOfView' /\ LiveMeansFed' /\ EndedIsSilent' /\ BridgeServesOpenSockets'
    BY <1>7, SettledInv
    DEF ReadDiscarded, ReadFails, SubscribeDiscarded, SubscribeFails, bridgeVars
  <1>8. ASSUME NEW l \in Load, NEW v \in Version, ReadAnswered(l, v)
        PROVE  ScreenIsOfView' /\ LiveMeansFed' /\ EndedIsSilent' /\ BridgeServesOpenSockets'
    <2>1. ScreenIsOfView'
      BY <1>8 DEF ReadAnswered, IsStale, ScreenIsOfView
    <2>2. connected
      BY <1>8 DEF ReadAnswered, Reading, Idle, BridgeServesOpenSockets
    <2> QED
      BY <1>8, <2>1, <2>2
      DEF ReadAnswered, bridgeVars, LiveMeansFed, EndedIsSilent, BridgeServesOpenSockets
  <1>9. ASSUME NEW l \in Load, NEW s \in Sub, SubscribeAnswered(l, s)
        PROVE  ScreenIsOfView' /\ LiveMeansFed' /\ EndedIsSilent' /\ BridgeServesOpenSockets'
    <2>1. connected
      BY <1>9 DEF SubscribeAnswered, Subscribing, Idle, BridgeServesOpenSockets
    <2>2. feed'[s].pane = view
      BY <1>9 DEF SubscribeAnswered, Unwanted, IsStale, TypeOK
    <2>3. ~ended
      BY <1>9 DEF SubscribeAnswered, Unwanted
    <2> QED
      BY <1>9, <2>1, <2>2, <2>3
      DEF SubscribeAnswered, ScreenIsOfView, LiveMeansFed, EndedIsSilent,
          BridgeServesOpenSockets
  <1>10. ASSUME NEW s \in Sub, NEW v \in Version,
                FrameIgnored(s, v) \/ FrameGarbles(s, v)
                  \/ \E whole \in BOOLEAN : FramePainted(s, v, whole)
         PROVE  ScreenIsOfView' /\ LiveMeansFed' /\ EndedIsSilent' /\ BridgeServesOpenSockets'
    <2>1. LiveMeansFed' /\ EndedIsSilent' /\ BridgeServesOpenSockets'
      BY <1>10, SendsInv DEF FrameIgnored, FrameGarbles, FramePainted
    <2>2. ScreenIsOfView'
      <3>1. CASE FrameIgnored(s, v)
        BY <3>1 DEF FrameIgnored, ScreenIsOfView
      <3>2. CASE FrameGarbles(s, v)
        BY <3>2, TerminalAssumption DEF FrameGarbles, ScreenIsOfView, Garbled
      <3>3. ASSUME NEW whole \in BOOLEAN, FramePainted(s, v, whole)
            PROVE  ScreenIsOfView'
        <4>1. connected /\ term /\ s = sub /\ sub # NoSub
          BY <3>3, TerminalAssumption
          DEF FramePainted, Emits, Mine, BridgeServesOpenSockets
        <4>2. feed[s].pane = view
          BY <4>1 DEF LiveMeansFed
        <4> QED
          BY <3>3, <4>2 DEF FramePainted, ScreenIsOfView
      <3> QED
        BY <1>10, <3>1, <3>2, <3>3
    <2> QED
      BY <2>1, <2>2
  <1>11. ASSUME NEW l \in Load, NEW s \in Sub, NEW v \in Version, FrameRefused(l, s, v)
         PROVE  ScreenIsOfView' /\ LiveMeansFed' /\ EndedIsSilent' /\ BridgeServesOpenSockets'
    <2>1. connected'
      BY <1>11 DEF FrameRefused, Emits, BridgeServesOpenSockets
    <2> QED
      BY <1>11, <2>1, BeginInv DEF FrameRefused, TypeOK
  <1>12. CASE UNCHANGED vars
    BY <1>12
    DEF vars, bridgeVars, ScreenIsOfView, LiveMeansFed, EndedIsSilent,
        BridgeServesOpenSockets
  <1> QED
    BY <1>1, <1>2, <1>3, <1>4, <1>5, <1>6, <1>7, <1>8, <1>9, <1>10, <1>11, <1>12 DEF Next

LEMMA InvHolds == Spec => []TerminalInv
  BY InitInv, NextInv, PTL DEF Spec

(* However loads overlap and whatever arrives late, the screen never shows *)
(* a pane other than the one in view (ScreenIsOfView).                     *)
THEOREM ScreenFollowsView == Spec => []ScreenIsOfView
  <1>1. TerminalInv => ScreenIsOfView
    BY DEF TerminalInv
  <1> QED
    BY <1>1, InvHolds, PTL

(* A stream the terminal calls live is one the bridge feeds with the pane  *)
(* in view (LiveMeansFed).                                                 *)
THEOREM LiveStreamsAreFed == Spec => []LiveMeansFed
  <1>1. TerminalInv => LiveMeansFed
    BY DEF TerminalInv
  <1> QED
    BY <1>1, InvHolds, PTL

(* A pane that has ended is never subscribed to again (EndedIsSilent).     *)
THEOREM NothingAfterEnd == Spec => []EndedIsSilent
  <1>1. TerminalInv => EndedIsSilent
    BY DEF TerminalInv
  <1> QED
    BY <1>1, InvHolds, PTL
-----------------------------------------------------------------------------
(* The file panel beside a terminal: FilePanel.                            *)

\* The calls in flight, and one more or one less of them.
LEMMA CallsAdd ==
  ASSUME NEW B, B \in [DOMAIN B -> Nat \ {0}], NEW c
  PROVE  /\ Calls!BagAdd(B, c) \in [DOMAIN B \cup {c} -> Nat \ {0}]
         /\ DOMAIN Calls!BagAdd(B, c) = DOMAIN B \cup {c}
<1>1. CASE c \in DOMAIN B
  <2>1. Calls!BagAdd(B, c) = [e \in DOMAIN B |-> IF e = c THEN B[e] + 1 ELSE B[e]]
    BY <1>1 DEF Calls!BagAdd
  <2>2. DOMAIN B = DOMAIN B \cup {c}
    BY <1>1
  <2>3. QED
    BY <2>1, <2>2
<1>2. CASE c \notin DOMAIN B
  <2>1. Calls!BagAdd(B, c) = [e \in DOMAIN B \cup {c} |-> IF e = c THEN 1 ELSE B[e]]
    BY <1>2 DEF Calls!BagAdd
  <2>2. QED
    BY <2>1
<1>3. QED
  BY <1>1, <1>2

LEMMA CallsRemove ==
  ASSUME NEW B, B \in [DOMAIN B -> Nat \ {0}], NEW c \in DOMAIN B
  PROVE  /\ Calls!BagRemove(B, c) \in [DOMAIN Calls!BagRemove(B, c) -> Nat \ {0}]
         /\ DOMAIN Calls!BagRemove(B, c) \subseteq DOMAIN B
         /\ DOMAIN B \ {c} \subseteq DOMAIN Calls!BagRemove(B, c)
<1>1. CASE B[c] = 1
  <2>1. Calls!BagRemove(B, c) = [e \in DOMAIN B \ {c} |-> B[e]]
    BY <1>1 DEF Calls!BagRemove
  <2>2. QED
    BY <2>1
<1>2. CASE B[c] # 1
  <2>1. Calls!BagRemove(B, c) = [e \in DOMAIN B |-> IF e = c THEN B[e] - 1 ELSE B[e]]
    BY <1>2 DEF Calls!BagRemove
  <2>2. B[c] \in Nat \ {0}
    OBVIOUS
  <2>3. QED
    BY <1>2, <2>1, <2>2
<1>3. QED
  BY <1>1, <1>2

\* Two panels alike but for their calls, or but for what is said in more detail.
SameButCalls(s, t) ==
  /\ t.fatal = s.fatal /\ t.requested = s.requested /\ t.status = s.status
  /\ t.error = s.error /\ t.changedOnly = s.changedOnly /\ t.dirs = s.dirs
  /\ t.expanded = s.expanded /\ t.selected = s.selected
  /\ t.content = s.content /\ t.diff = s.diff

LEMMA SendMeans ==
  ASSUME NEW s, IsPanel(s), NEW at \in Terminal, NEW method \in Method,
         NEW p \in Path, NEW then \in Thens[method], NEW goal \in Path,
         NEW t, t = Send(s, at, method, p, then, goal)
  PROVE  /\ IsPanel(t) /\ SameButCalls(s, t)
         /\ DOMAIN t.calls = DOMAIN s.calls \cup
              {[method |-> method, path |-> p, of |-> at, then |-> then, goal |-> goal]}
<1> DEFINE c == [method |-> method, path |-> p, of |-> at, then |-> then, goal |-> goal]
<1>1. c \in Call
  <2>1. c \in [method: {method}, path: Path, of: Terminal, then: Thens[method], goal: Path]
    OBVIOUS
  <2> HIDE DEF c
  <2>2. QED
    BY <2>1 DEF Call
<1> HIDE DEF c
<1>2. t = [s EXCEPT !.calls = Calls!BagAdd(s.calls, c)]
  BY DEF Send, c
<1>3. /\ Calls!BagAdd(s.calls, c) \in [DOMAIN s.calls \cup {c} -> Nat \ {0}]
      /\ DOMAIN Calls!BagAdd(s.calls, c) = DOMAIN s.calls \cup {c}
  BY CallsAdd DEF IsPanel
<1> DEFINE b == Calls!BagAdd(s.calls, c)
<1>4. b \in [DOMAIN s.calls \cup {c} -> Nat \ {0}] /\ DOMAIN b = DOMAIN s.calls \cup {c}
      /\ t = [s EXCEPT !.calls = b]
  BY <1>2, <1>3
<1> HIDE DEF b
<1>5. t.calls = b /\ SameButCalls(s, t)
  BY <1>4 DEF IsPanel, SameButCalls
<1>6. IsPanel(t)
  BY <1>1, <1>4, <1>5 DEF IsPanel
<1>7. QED
  BY <1>4, <1>5, <1>6 DEF c
\* What asks for more, and takes nothing back: from s to t, beside the pane at.
Asked(s, at, method, p) ==
  \E c \in DOMAIN s.calls : c.method = method /\ c.path = p /\ c.of = at
ViewerOf(s) ==
  /\ s.content.kind # "none" => s.content.path = s.selected
  /\ s.diff.kind # "none" => s.diff.path = s.selected
Goes(s, t, at) ==
  /\ IsPanel(t)
  /\ t.fatal = s.fatal /\ t.requested = s.requested
  /\ t.status = s.status /\ t.error = s.error
  /\ DOMAIN s.calls \subseteq DOMAIN t.calls
  /\ \A p \in Path : t.dirs[p].loading => s.dirs[p].loading \/ Asked(t, at, "repo.tree", p)
  /\ ViewerOf(s) => ViewerOf(t)
  /\ \A p \in Path : s.dirs[p].known => t.dirs[p].known
  /\ \A p \in t.expanded : p \in s.expanded \/ t.dirs[p].known

LEMMA GoesOn ==
  ASSUME NEW s, NEW t, NEW u, NEW at, IsPanel(s), Goes(s, t, at), Goes(t, u, at)
  PROVE  Goes(s, u, at)
<1>1. \A p \in Path : Asked(t, at, "repo.tree", p) => Asked(u, at, "repo.tree", p)
  BY DEF Asked, Goes
<1>2. \A p \in u.expanded : p \in s.expanded \/ u.dirs[p].known
  <2>1. \A p \in t.expanded : p \in Path
    BY DEF Goes, IsPanel
  <2>2. QED
    BY <2>1 DEF Goes
<1>3. QED
  BY <1>1, <1>2 DEF Goes

LEMMA SendGoes ==
  ASSUME NEW s, IsPanel(s), NEW at \in Terminal, NEW method \in Method,
         NEW p \in Path, NEW then \in Thens[method], NEW goal \in Path
  PROVE  Goes(s, Send(s, at, method, p, then, goal), at)
<1> DEFINE t == Send(s, at, method, p, then, goal)
<1>1. /\ IsPanel(t) /\ SameButCalls(s, t) /\ DOMAIN s.calls \subseteq DOMAIN t.calls
  BY SendMeans
<1> HIDE DEF t
<1>2. Goes(s, t, at)
  BY <1>1 DEF Goes, SameButCalls, ViewerOf
<1>3. QED
  BY <1>2 DEF t

LEMMA ThensOfMethods ==
  /\ Thens["repo.status"] = {"poll"}
  /\ Thens["repo.tree"] = {"stop", "open", "enter", "large"}
  /\ Thens["file.read"] = {"view", "goto"}
  /\ Thens["repo.diff"] = {"view"}
  BY DEF Thens, Method

\* From s to t, what is known of p has changed, and nothing else.
Patched(s, t, p) ==
  /\ IsPanel(t) /\ t.dirs[p].known
  /\ t.fatal = s.fatal /\ t.requested = s.requested /\ t.status = s.status
  /\ t.error = s.error /\ t.expanded = s.expanded /\ t.selected = s.selected
  /\ t.content = s.content /\ t.diff = s.diff /\ t.calls = s.calls
  /\ \A q \in Path : q # p => t.dirs[q] = s.dirs[q]

LEMMA PatchMeans ==
  ASSUME NEW s, IsPanel(s), NEW p \in Path,
         NEW state, state.loading \in BOOLEAN, state.entries \in Entries,
         state.error \in BOOLEAN, NEW t, t = patchDir(s, p, state)
  PROVE  Patched(s, t, p) /\ t.dirs[p].loading = state.loading
<1> DEFINE d == [known |-> TRUE, loading |-> state.loading, error |-> state.error,
                 entries |-> IF state.loading /\ s.dirs[p].known THEN s.dirs[p].entries
                             ELSE state.entries]
<1>1. t = [s EXCEPT !.dirs[p] = d]
  BY DEF patchDir
<1>2. d \in Dir /\ d.known /\ d.loading = state.loading
  <2>1. s.dirs[p].entries \in Entries
    BY DEF IsPanel, Dir
  <2>2. QED
    BY <2>1 DEF Dir
<1> HIDE DEF d
<1>3. t = [s EXCEPT !.dirs = [s.dirs EXCEPT ![p] = d]]
  BY <1>1 DEF IsPanel
<1>4. [s.dirs EXCEPT ![p] = d] \in [Path -> Dir]
  BY <1>2 DEF IsPanel
<1>5. IsPanel(t)
  BY <1>3, <1>4 DEF IsPanel
<1>6. QED
  BY <1>2, <1>3, <1>5 DEF IsPanel, Patched

LEMMA LoadDirGoes ==
  ASSUME NEW s, IsPanel(s), Root \in Path, NEW at \in Terminal, NEW p \in Path,
         NEW then \in Thens["repo.tree"], NEW goal \in Path,
         NEW u, u = loadDir(s, at, p, then, goal)
  PROVE  Goes(s, u, at) /\ u.dirs[p].known /\ Asked(u, at, "repo.tree", p) /\ u.expanded = s.expanded
<1> DEFINE t == patchDir(s, p, [loading |-> TRUE, entries |-> {}, error |-> FALSE])
<1>1. Patched(s, t, p)
  <2> DEFINE state == [loading |-> TRUE, entries |-> {}, error |-> FALSE]
  <2>1. state.loading \in BOOLEAN /\ state.entries \in Entries /\ state.error \in BOOLEAN
    BY DEF Entries
  <2>2. t = patchDir(s, p, state)
    OBVIOUS
  <2> HIDE DEF t, state
  <2>3. QED
    BY <2>1, <2>2, PatchMeans
<1>2. u = Send(t, at, "repo.tree", p, then, goal)
  BY DEF loadDir
<1> HIDE DEF t
<1>3. "repo.tree" \in Method
  BY DEF Method
<1>4. /\ IsPanel(u) /\ SameButCalls(t, u)
      /\ DOMAIN u.calls = DOMAIN t.calls \cup
           {[method |-> "repo.tree", path |-> p, of |-> at, then |-> then, goal |-> goal]}
  BY <1>1, <1>2, <1>3, SendMeans DEF Patched
<1>5. Asked(u, at, "repo.tree", p)
  <2> DEFINE c == [method |-> "repo.tree", path |-> p, of |-> at, then |-> then, goal |-> goal]
  <2>1. c \in DOMAIN u.calls /\ c.method = "repo.tree" /\ c.path = p /\ c.of = at
    BY <1>4
  <2> HIDE DEF c
  <2>2. QED
    BY <2>1 DEF Asked
<1>6. \A q \in Path : u.dirs[q].loading => s.dirs[q].loading \/ Asked(u, at, "repo.tree", q)
  BY <1>1, <1>4, <1>5 DEF SameButCalls, Patched
<1>7. QED
  BY <1>1, <1>4, <1>5, <1>6 DEF Goes, SameButCalls, ViewerOf, Patched
\* A file is selected, and the viewer is about it and about no other.
LEMMA SelectingShows ==
  ASSUME NEW s, IsPanel(s), NEW goal \in Path,
         NEW kind \in {"loading", "too-large"},
         NEW t, t = [s EXCEPT !.selected = goal, !.content = [kind |-> kind, path |-> goal],
                              !.diff = [kind |-> "loading", path |-> goal]],
         NEW at
  PROVE  Goes(s, t, at)
<1> DEFINE content == [kind |-> kind, path |-> goal]
           fresh == [kind |-> "loading", path |-> goal]
<1>1. content \in Shown /\ fresh \in Shown /\ content.path = goal /\ fresh.path = goal
  BY DEF Shown
<1>2. t = [s EXCEPT !.selected = goal, !.content = content, !.diff = fresh]
  OBVIOUS
<1> HIDE DEF content, fresh
<1>3. /\ t.selected = goal /\ t.content = content /\ t.diff = fresh
      /\ t.fatal = s.fatal /\ t.requested = s.requested /\ t.status = s.status
      /\ t.error = s.error /\ t.expanded = s.expanded /\ t.dirs = s.dirs
      /\ t.calls = s.calls
  BY <1>2 DEF IsPanel
<1>4. IsPanel(t)
  BY <1>1, <1>2, <1>3 DEF IsPanel
<1>5. QED
  BY <1>1, <1>3, <1>4 DEF Goes, ViewerOf

\* The order in which the panel's signals are set does not show.
LEMMA OpenFileGoes ==
  ASSUME NEW s, IsPanel(s), NEW at \in Terminal, NEW goal \in Path
  PROVE  Goes(s, openFile(s, at, goal), at)
<1> DEFINE r == [s EXCEPT !.selected = goal, !.content = [kind |-> "loading", path |-> goal]]
           t == Send(r, at, "file.read", goal, "view", goal)
           u == [t EXCEPT !.diff = [kind |-> "loading", path |-> goal]]
           v == Send(u, at, "repo.diff", goal, "view", goal)
           content == [kind |-> "loading", path |-> goal]
<1>1. v = openFile(s, at, goal)
  BY DEF openFile, readDiff, readFile, Send
<1>2. content \in Shown /\ content.path = goal
  BY DEF Shown
<1>3. /\ "file.read" \in Method /\ "view" \in Thens["file.read"]
      /\ "repo.diff" \in Method /\ "view" \in Thens["repo.diff"]
  BY ThensOfMethods DEF Method
<1>4. r = [s EXCEPT !.selected = goal, !.content = content]
      /\ u = [t EXCEPT !.diff = content]
  OBVIOUS
<1> HIDE DEF content, u
<1>5. /\ IsPanel(r)
      /\ r.selected = goal /\ r.content = content /\ r.diff = s.diff
      /\ r.fatal = s.fatal /\ r.requested = s.requested /\ r.status = s.status
      /\ r.error = s.error /\ r.expanded = s.expanded /\ r.dirs = s.dirs
      /\ r.calls = s.calls
  <2> HIDE DEF r
  <2>1. /\ r.selected = goal /\ r.content = content /\ r.diff = s.diff
        /\ r.fatal = s.fatal /\ r.requested = s.requested /\ r.status = s.status
        /\ r.error = s.error /\ r.expanded = s.expanded /\ r.dirs = s.dirs
        /\ r.calls = s.calls
    BY <1>4 DEF IsPanel
  <2>2. IsPanel(r)
    BY <1>2, <1>4, <2>1 DEF IsPanel
  <2>3. QED
    BY <2>1, <2>2
<1> HIDE DEF r
<1>6. IsPanel(t) /\ SameButCalls(r, t) /\ DOMAIN r.calls \subseteq DOMAIN t.calls
  BY <1>3, <1>5, SendMeans
<1> HIDE DEF t
<1>7. /\ u.diff = content /\ u.selected = t.selected /\ u.content = t.content
      /\ u.fatal = t.fatal /\ u.requested = t.requested /\ u.status = t.status
      /\ u.error = t.error /\ u.expanded = t.expanded /\ u.dirs = t.dirs
      /\ u.calls = t.calls
  BY <1>4, <1>6 DEF IsPanel
<1>8. IsPanel(u)
  BY <1>2, <1>4, <1>6, <1>7 DEF IsPanel
<1>9. IsPanel(v) /\ SameButCalls(u, v) /\ DOMAIN u.calls \subseteq DOMAIN v.calls
  BY <1>3, <1>8, SendMeans
<1> HIDE DEF v
<1>10. Goes(s, v, at)
  BY <1>2, <1>5, <1>6, <1>7, <1>9 DEF Goes, SameButCalls, ViewerOf
<1>11. QED
  BY <1>1, <1>10
LEMMA LargeFileGoes ==
  ASSUME NEW s, IsPanel(s), NEW at \in Terminal, NEW goal \in Path
  PROVE  Goes(s, Finish(s, at, "large", goal), at)
<1> DEFINE r == [s EXCEPT !.selected = goal, !.content = [kind |-> "too-large", path |-> goal]]
           t == [r EXCEPT !.diff = [kind |-> "loading", path |-> goal]]
           u == Send(t, at, "repo.diff", goal, "view", goal)
<1>1. u = Finish(s, at, "large", goal)
  BY DEF Finish, readDiff
<1>2. t = [s EXCEPT !.selected = goal, !.content = [kind |-> "too-large", path |-> goal],
                    !.diff = [kind |-> "loading", path |-> goal]]
  BY DEF IsPanel
<1> HIDE DEF t
<1>3. Goes(s, t, at)
  BY <1>2, SelectingShows
<1>4. IsPanel(t)
  BY <1>3 DEF Goes
<1>5. "repo.diff" \in Method /\ "view" \in Thens["repo.diff"]
  BY ThensOfMethods DEF Method
<1>6. Goes(t, u, at)
  BY <1>4, <1>5, SendGoes
<1> HIDE DEF u
<1>7. Goes(s, u, at)
  BY <1>3, <1>6, GoesOn
<1>8. QED
  BY <1>1, <1>7

LEMMA OpenDirGoes ==
  ASSUME NEW s, IsPanel(s), Root \in Path, NEW at \in Terminal, NEW p \in Path
  PROVE  Goes(s, openDir(s, at, p), at)
<1> DEFINE t == [s EXCEPT !.expanded = s.expanded \cup {p}]
           u == loadDir(t, at, p, "stop", p)
<1>1. /\ t.fatal = s.fatal /\ t.requested = s.requested /\ t.status = s.status
      /\ t.error = s.error /\ t.selected = s.selected /\ t.dirs = s.dirs
      /\ t.content = s.content /\ t.diff = s.diff /\ t.calls = s.calls
      /\ t.expanded = s.expanded \cup {p} /\ IsPanel(t)
  BY DEF IsPanel
<1>2. openDir(s, at, p) = IF s.dirs[p].known THEN t ELSE u
  BY DEF openDir
<1> HIDE DEF t
<1>3. CASE s.dirs[p].known
  <2>1. Goes(s, t, at)
    BY <1>1, <1>3 DEF Goes, ViewerOf
  <2>2. QED
    BY <1>2, <1>3, <2>1
<1>4. CASE ~s.dirs[p].known
  <2>1. "stop" \in Thens["repo.tree"]
    BY ThensOfMethods
  <2>2. Goes(t, u, at) /\ u.dirs[p].known /\ u.expanded = t.expanded
    BY <1>1, <2>1, LoadDirGoes
  <2> HIDE DEF u
  <2>3. Goes(s, u, at)
    BY <1>1, <2>2 DEF Goes, ViewerOf
  <2>4. QED
    BY <1>2, <1>4, <2>3
<1>5. QED
  BY <1>3, <1>4

LEMMA FinishGoes ==
  ASSUME NEW s, IsPanel(s), Root \in Path, NEW at \in Terminal, NEW goal \in Path,
         NEW then \in Thens["repo.tree"]
  PROVE  Goes(s, Finish(s, at, then, goal), at)
<1>1. then \in {"stop", "open", "enter", "large"}
  BY ThensOfMethods
<1>2. CASE then = "open"
  <2>1. Finish(s, at, then, goal) = openFile(s, at, goal)
    BY <1>2 DEF Finish
  <2>2. QED
    BY <2>1, OpenFileGoes
<1>3. CASE then = "enter"
  <2>1. Finish(s, at, then, goal) = openDir(s, at, goal)
    BY <1>3 DEF Finish
  <2>2. QED
    BY <2>1, OpenDirGoes
<1>4. CASE then = "large"
  BY <1>4, LargeFileGoes
<1>5. CASE then = "stop"
  <2>1. Finish(s, at, then, goal) = s
    BY <1>5 DEF Finish
  <2>2. QED
    BY <2>1 DEF Goes
<1>6. QED
  BY <1>1, <1>2, <1>3, <1>4, <1>5

LEMMA SomeNumberIsLeast ==
  ASSUME NEW S, S \subseteq Nat, S # {}
  PROVE  \E n \in S : \A m \in S : ~(m < n)
<1>1. PICK n \in S : \A m \in S : <<m, n>> \notin OpToRel(<, Nat)
  BY WFMin, NatLessThanWellFounded, Zenon
<1>2. QED
  BY <1>1 DEF OpToRel

\* Of directories that are not read, one has none of them above it: the one
\* with the fewest above it.
LEMMA SomeLevelIsNext ==
  ASSUME PathAssumption, NEW unread \in SUBSET Path, unread # {}
  PROVE  \E p \in unread : Above[p] \cap unread = {}
<1> DEFINE depth(p) == Cardinality(Above[p])
           Depths == {depth(p) : p \in unread}
<1>0. \A p \in Path : /\ IsFiniteSet(Above[p]) /\ p \notin Above[p] /\ Above[p] \subseteq Path
                      /\ \A a \in Above[p] : Above[a] \subseteq Above[p]
  BY Zenon DEF PathAssumption, IsFiniteSet, IsFiniteSet
<1>1. \A p \in Path : depth(p) \in Nat
  BY <1>0, FS_CardinalityType
<1>2. \A p \in Path : \A a \in Above[p] : depth(a) < depth(p)
  <2> SUFFICES ASSUME NEW p \in Path, NEW a \in Above[p] PROVE depth(a) < depth(p)
    OBVIOUS
  <2>1. /\ IsFiniteSet(Above[p]) /\ Above[a] \subseteq Above[p] /\ a \notin Above[a]
    BY <1>0
  <2>2. Above[a] # Above[p]
    BY <2>1
  <2>3. QED
    BY <1>1, <2>1, <2>2, FS_Subset
<1> HIDE DEF depth
<1>3. PICK n \in Depths : \A m \in Depths : ~(m < n)
  <2>1. Depths \subseteq Nat /\ Depths # {}
    BY <1>1
  <2> HIDE DEF Depths
  <2>2. QED
    BY <2>1, SomeNumberIsLeast
<1>4. PICK p \in unread : depth(p) = n
  BY <1>3
<1>5. \A a \in unread : ~(depth(a) < depth(p))
  BY <1>3, <1>4
<1>6. QED
  BY <1>0, <1>2, <1>5
\* What opens the way to a path has read it, or asks for it.
LEMMA RevealGoes ==
  ASSUME PathAssumption, NEW s, IsPanel(s), NEW at \in Terminal,
         NEW from \in Path, NEW then \in Thens["repo.tree"], NEW goal \in Path
  PROVE  Goes(s, reveal(s, at, from, then, goal), at)
<1> DEFINE levels == Above[goal] \ (Above[from] \cup {from, Root})
           unread == {p \in levels : ~s.dirs[p].known}
           next == CHOOSE p \in unread : Above[p] \cap unread = {}
           all == s.expanded \cup levels
           some == s.expanded \cup (levels \cap Above[next]) \cup {next}
           r == [s EXCEPT !.expanded = all]
           t == [s EXCEPT !.expanded = some]
<1>1. reveal(s, at, from, then, goal) =
        IF unread = {} THEN Finish(r, at, then, goal)
        ELSE loadDir(t, at, next, then, goal)
  BY DEF reveal
<1>2. levels \subseteq Path /\ unread \subseteq levels /\ Root \in Path
  BY DEF PathAssumption
<1>3. \A p \in levels \ unread : s.dirs[p].known
  OBVIOUS
<1>4. s.expanded \subseteq Path
  BY DEF IsPanel
<1> HIDE DEF levels, unread
<1>5. ASSUME NEW open \in SUBSET Path
      PROVE  LET x == [s EXCEPT !.expanded = open]
             IN /\ x.fatal = s.fatal /\ x.requested = s.requested /\ x.status = s.status
                /\ x.error = s.error /\ x.selected = s.selected /\ x.dirs = s.dirs
                /\ x.content = s.content /\ x.diff = s.diff /\ x.calls = s.calls
                /\ x.expanded = open /\ IsPanel(x)
  BY DEF IsPanel
<1>6. CASE unread = {}
  <2>1. all \in SUBSET Path
    BY <1>2, <1>4
  <2>2. /\ r.fatal = s.fatal /\ r.requested = s.requested /\ r.status = s.status
        /\ r.error = s.error /\ r.selected = s.selected /\ r.dirs = s.dirs
        /\ r.content = s.content /\ r.diff = s.diff /\ r.calls = s.calls
        /\ r.expanded = all /\ IsPanel(r)
    BY <1>5, <2>1
  <2> HIDE DEF r
  <2>3. Goes(s, r, at)
    BY <1>3, <1>6, <2>2 DEF Goes, ViewerOf
  <2>4. Goes(r, Finish(r, at, then, goal), at)
    BY <1>2, <2>2, FinishGoes
  <2>5. Goes(s, Finish(r, at, then, goal), at)
    BY <2>3, <2>4, GoesOn
  <2>6. QED
    BY <1>1, <1>6, <2>5
<1>7. CASE unread # {}
  <2>1. next \in unread /\ Above[next] \cap unread = {}
    <3>1. unread \in SUBSET Path
      BY <1>2
    <3>2. \E p \in unread : Above[p] \cap unread = {}
      BY <1>7, <3>1, SomeLevelIsNext
    <3>3. QED
      BY <3>2
  <2> HIDE DEF next
  <2>2. some \in SUBSET Path /\ next \in Path
    BY <1>2, <1>4, <2>1
  <2>3. /\ t.fatal = s.fatal /\ t.requested = s.requested /\ t.status = s.status
        /\ t.error = s.error /\ t.selected = s.selected /\ t.dirs = s.dirs
        /\ t.content = s.content /\ t.diff = s.diff /\ t.calls = s.calls
        /\ t.expanded = some /\ IsPanel(t)
    BY <1>5, <2>2
  <2> DEFINE u == loadDir(t, at, next, then, goal)
  <2> HIDE DEF t
  <2>4. Goes(t, u, at) /\ u.dirs[next].known /\ u.expanded = t.expanded
    BY <1>2, <2>2, <2>3, LoadDirGoes
  <2> HIDE DEF u
  <2>5. \A p \in u.expanded : p \in s.expanded \/ u.dirs[p].known
    <3> SUFFICES ASSUME NEW p \in u.expanded, p \notin s.expanded PROVE u.dirs[p].known
      OBVIOUS
    <3>1. p = next \/ p \in levels \ unread
      BY <2>1, <2>3, <2>4
    <3>2. p \in levels \ unread => t.dirs[p].known /\ p \in Path
      BY <1>2, <1>3, <2>3
    <3>3. QED
      BY <2>4, <3>1, <3>2 DEF Goes
  <2>6. Goes(s, u, at)
    BY <2>3, <2>4, <2>5 DEF Goes, ViewerOf
  <2>7. QED
    BY <1>1, <1>7, <2>6 DEF u
<1>8. QED
  BY <1>6, <1>7
\* What the bridge answers.
LEMMA AnswerType ==
  ASSUME PanelAssumption, NEW method \in Method, NEW p \in Path,
         NEW a \in Answer[method][p]
  PROVE  /\ a.ok \in BOOLEAN
         /\ a.ok /\ method \in {"repo.status", "repo.tree"} => a.entries \in Entries
         /\ a.ok /\ method = "file.read" => a.kind \in {"text", "binary"}
<1>1. a \in AnswersTo(method, p)
  BY DEF Answer
<1>2. \A code : LET r == Refuse(code) IN ~r.ok /\ r.ok \in BOOLEAN
  BY DEF Refuse
<1>3. ASSUME NEW t, NEW S \in SUBSET Path
      PROVE  {Entry(t, q) : q \in S} \in Entries
  <2>1. ASSUME NEW q \in S PROVE Entry(t, q) \in [path: Path, directory: BOOLEAN]
    <3>1. (t.node[q] = "directory") \in BOOLEAN
      OBVIOUS
    <3>2. QED
      BY <3>1 DEF Entry
  <2>2. QED
    BY <2>1 DEF Entries
<1>4. ASSUME NEW S, NEW cap, NEW U \in Cut(S, cap) PROVE U \subseteq S
  BY DEF Cut
<1>5. ASSUME NEW t, a \in status(t)
      PROVE  \/ \E code : a = Refuse(code)
             \/ \E S \in SUBSET Path : a = [ok |-> TRUE, entries |-> {Entry(t, q) : q \in S}]
  <2> DEFINE changed == {q \in Path : t.git[q] \in {"modified", "added", "deleted", "type_changed"}}
             untracked == {q \in Path : /\ t.git[q] = "untracked"
                                        /\ \A b \in Above[q] : t.git[b] # "untracked"}
             cuts == Cut(changed \cup untracked, StatusMax)
  <2>1. changed \cup untracked \subseteq Path
    OBVIOUS
  <2>2. status(t) = IF t.works # "ok" THEN {Refuse(t.works)}
                          ELSE {[ok |-> TRUE, entries |-> {Entry(t, q) : q \in S}] : S \in cuts}
    BY Zenon DEF status
  <2>3. \A S \in cuts : S \in SUBSET Path
    <3> SUFFICES ASSUME NEW S \in cuts PROVE S \subseteq Path
      OBVIOUS
    <3>1. S \subseteq changed \cup untracked
      BY <1>4
    <3>2. QED
      BY <2>1, <3>1
  <2> HIDE DEF cuts, changed, untracked
  <2>4. QED
    BY <1>5, <2>2, <2>3
<1>6. ASSUME NEW t, a \in tree(t, p)
      PROVE  \/ \E code : a = Refuse(code)
             \/ \E S \in SUBSET Path : a = [ok |-> TRUE, entries |-> {Entry(t, q) : q \in S}]
  <2> DEFINE children == {q \in Path : p \in Above[q] /\ Above[q] = Above[p] \cup {p}
                                       /\ t.node[q] # "absent"}
             cuts == Cut(children, TreeMax)
  <2>1. \/ \E code : tree(t, p) = {Refuse(code)}
        \/ tree(t, p)
             = {[ok |-> TRUE, entries |-> {Entry(t, q) : q \in S}] : S \in cuts}
    BY Zenon DEF tree
  <2>2. \A S \in cuts : S \in SUBSET Path
    <3> SUFFICES ASSUME NEW S \in cuts PROVE S \subseteq Path
      OBVIOUS
    <3>1. S \subseteq children
      BY <1>4
    <3>2. QED
      BY <3>1
  <2> HIDE DEF cuts, children
  <2>3. QED
    BY <1>6, <2>1, <2>2
<1>7. ASSUME NEW t \in Checkouts, a = read(t, p)
      PROVE  \/ \E code : a = Refuse(code)
             \/ a.ok = TRUE /\ a.kind \in {"text", "binary"}
  <2>1. t.node[p] \in Node
    BY DEF PanelAssumption, Checkout
  <2>2. CASE confinePath(t, p) # "ok"
    BY <1>7, <2>2 DEF read
  <2>3. CASE confinePath(t, p) = "ok" /\ t.node[p] \in {"absent", "directory", "other", "large"}
    BY <1>7, <2>3 DEF read
  <2>4. CASE confinePath(t, p) = "ok" /\ t.node[p] \notin {"absent", "directory", "other", "large"}
    <3>1. t.node[p] # "outside"
      BY <2>4 DEF confinePath
    <3>2. a = [ok |-> TRUE, kind |-> t.node[p]]
      BY <1>7, <2>4 DEF read
    <3>3. QED
      BY <2>1, <2>4, <3>1, <3>2 DEF Node
  <2>5. QED
    BY <2>2, <2>3, <2>4
<1>8. ASSUME NEW t, a = diff(t, p) PROVE a.ok \in BOOLEAN
  BY <1>8 DEF diff, Refuse
<1>9. \/ \E code : a = Refuse(code)
      \/ method = "repo.status" /\ \E t \in Checkouts : a \in status(t)
      \/ method = "repo.tree" /\ \E t \in Checkouts : a \in tree(t, p)
      \/ method = "file.read" /\ \E t \in Checkouts : a = read(t, p)
      \/ method = "repo.diff" /\ \E t \in Checkouts : a = diff(t, p)
  BY <1>1 DEF AnswersTo, Method
<1>10. CASE \E code : a = Refuse(code)
  BY <1>2, <1>10
<1>11. CASE \E t, S : /\ S \in SUBSET Path
                      /\ a = [ok |-> TRUE, entries |-> {Entry(t, q) : q \in S}]
                      /\ method \in {"repo.status", "repo.tree"}
  BY <1>3, <1>11
<1>12. CASE method = "file.read" /\ \E t \in Checkouts : a = read(t, p)
  BY <1>7, <1>10, <1>12
<1>13. CASE method = "repo.diff" /\ \E t \in Checkouts : a = diff(t, p)
  BY <1>8, <1>13
<1>14. QED
  BY <1>5, <1>6, <1>9, <1>10, <1>11, <1>12, <1>13
\* PanelInv, of any panel.
RootAsked(s, at) == s.dirs[Root].loading => Asked(s, at, "repo.tree", Root)
StatusAsked(s, at) == s.status.known \/ s.error \/ Asked(s, at, "repo.status", Root)
SoundPanel(s, at) ==
  /\ IsPanel(s) /\ ViewerOf(s)
  /\ s.requested /\ s.fatal = "none" => RootAsked(s, at) /\ StatusAsked(s, at)
  /\ \A p \in s.expanded : s.dirs[p].known \/ (p = Root /\ ~s.requested)
\* A panel that may show files is one whose first reads were asked for.
AsReady(s, t) == t.requested = s.requested /\ (t.fatal = s.fatal \/ t.fatal \in Gates \ {"none"})

LEMMA InvOfThePanel ==
  PanelInv <=>
    /\ beside \in Terminal /\ project \in Project /\ paused \in BOOLEAN
    /\ SoundPanel(panel, beside)
    /\ gate(project, panel) = "ready" => panel.requested
<1>1. ViewerShowsSelected <=> ViewerOf(panel)
  BY DEF ViewerShowsSelected, ViewerOf, None
<1>2. FirstReadsAreAsked <=>
        /\ panel.requested /\ panel.fatal = "none" => RootAsked(panel, beside) /\ StatusAsked(panel, beside)
        /\ gate(project, panel) = "ready" => panel.requested
  BY DEF FirstReadsAreAsked, Ready, CallInFlight, RootAsked, StatusAsked, Asked,
         None
<1>3. QED
  BY <1>1, <1>2 DEF PanelInv, PanelTypeOK, OpenIsAsked, SoundPanel

LEMMA InvOfTheNextPanel ==
  ASSUME beside' \in Terminal, project' \in Project, paused' \in BOOLEAN,
         SoundPanel(panel', beside'),
         gate(project', panel') = "ready" => panel'.requested
  PROVE  PanelInv'
<1>1. ViewerShowsSelected'
  BY DEF ViewerShowsSelected, SoundPanel, ViewerOf, None
<1>2. FirstReadsAreAsked'
  BY DEF FirstReadsAreAsked, Ready, CallInFlight, SoundPanel, RootAsked, StatusAsked,
         Asked, None
<1>3. PanelTypeOK' /\ OpenIsAsked'
  BY DEF PanelTypeOK, OpenIsAsked, SoundPanel
<1>4. QED
  BY <1>1, <1>2, <1>3 DEF PanelInv

LEMMA GoesKeeps ==
  ASSUME NEW s, NEW t, NEW at, SoundPanel(s, at), Goes(s, t, at), Root \in Path
  PROVE  SoundPanel(t, at) /\ AsReady(s, t)
<1>1. \A method, p : Asked(s, at, method, p) => Asked(t, at, method, p)
  BY DEF Asked, Goes
<1>2. RootAsked(s, at) => RootAsked(t, at)
  BY <1>1 DEF RootAsked, Goes
<1>3. StatusAsked(s, at) => StatusAsked(t, at)
  BY <1>1 DEF StatusAsked, Goes
<1>4. \A p \in t.expanded : t.dirs[p].known \/ (p = Root /\ ~t.requested)
  <2> SUFFICES ASSUME NEW p \in t.expanded, ~t.dirs[p].known PROVE p = Root /\ ~t.requested
    OBVIOUS
  <2>1. p \in s.expanded /\ p \in Path
    BY DEF Goes, IsPanel
  <2>2. ~s.dirs[p].known
    BY <2>1 DEF Goes
  <2>3. QED
    BY <2>1, <2>2 DEF SoundPanel, Goes
<1>5. QED
  BY <1>2, <1>3, <1>4 DEF SoundPanel, Goes, AsReady

LEMMA ReadyAsBefore ==
  ASSUME NEW s, NEW t, NEW proj, AsReady(s, t),
         gate(proj, s) = "ready" => s.requested
  PROVE  gate(proj, t) = "ready" => t.requested
<1>1. \A f \in Gates : f # "ready"
  BY DEF Gates, FATAL, None
<1>2. QED
  BY <1>1 DEF AsReady, gate, None

\* An answer that ends the conversation shows nothing and opens nothing.
LEMMA FatalKeeps ==
  ASSUME NEW s, IsPanel(s), ViewerOf(s),
         \A p \in s.expanded : s.dirs[p].known \/ (p = Root /\ ~s.requested),
         NEW a, IsFatal(a), NEW at
  PROVE  LET t == takeFatal(s, a.code) IN SoundPanel(t, at) /\ AsReady(s, t)
<1> DEFINE f == FATAL[a.code]
           t == takeFatal(s, a.code)
<1>1. f \in Gates \ {"none"}
  BY DEF IsFatal, Gates, FATAL, None
<1>2. t = [s EXCEPT !.fatal = f]
  BY DEF takeFatal, IsFatal
<1> HIDE DEF f, t
<1>3. /\ t.fatal = f /\ t.requested = s.requested /\ t.expanded = s.expanded
      /\ t.dirs = s.dirs /\ t.content = s.content /\ t.diff = s.diff
      /\ t.selected = s.selected /\ t.calls = s.calls
  BY <1>2 DEF IsPanel
<1>4. IsPanel(t)
  BY <1>1, <1>2, <1>3 DEF IsPanel
<1>5. SoundPanel(t, at) /\ AsReady(s, t)
  BY <1>1, <1>3, <1>4 DEF SoundPanel, ViewerOf, AsReady
<1>6. QED
  BY <1>5 DEF t

\* What is left when an answer has come: all but the call it answers.
AllBut(s, c, at) ==
  /\ IsPanel(s) /\ ViewerOf(s)
  /\ \A p \in s.expanded : s.dirs[p].known \/ (p = Root /\ ~s.requested)
  /\ s.requested /\ s.fatal = "none" =>
       /\ RootAsked(s, at) \/ (c.method = "repo.tree" /\ c.path = Root)
       /\ StatusAsked(s, at) \/ c.method = "repo.status"

LEMMA SettleKeeps ==
  ASSUME SoundPanel(panel, beside), NEW c \in DOMAIN panel.calls
  PROVE  /\ AllBut(Settle(c), c, beside) /\ AsReady(panel, Settle(c))
         /\ c \in Call
<1> DEFINE b == Calls!BagRemove(panel.calls, c)
           s == Settle(c)
<1>1. /\ b \in [DOMAIN b -> Nat \ {0}] /\ DOMAIN b \subseteq DOMAIN panel.calls
      /\ DOMAIN panel.calls \ {c} \subseteq DOMAIN b
  BY CallsRemove DEF SoundPanel, IsPanel
<1>2. s = [panel EXCEPT !.calls = b]
  BY DEF Settle
<1> HIDE DEF b, s
<1>3. s.calls = b /\ SameButCalls(panel, s)
  BY <1>2 DEF SoundPanel, IsPanel, SameButCalls
<1>4. IsPanel(s)
  BY <1>1, <1>2, <1>3 DEF SoundPanel, IsPanel
<1>5. \A method, p : Asked(panel, beside, method, p) =>
        Asked(s, beside, method, p) \/ (c.method = method /\ c.path = p)
  BY <1>1, <1>3 DEF Asked
<1>6. RootAsked(panel, beside) => RootAsked(s, beside) \/ (c.method = "repo.tree" /\ c.path = Root)
  BY <1>3, <1>5 DEF RootAsked, SameButCalls
<1>7. StatusAsked(panel, beside) => StatusAsked(s, beside) \/ c.method = "repo.status"
  BY <1>3, <1>5 DEF StatusAsked, SameButCalls
<1>8. ViewerOf(s) /\ \A p \in s.expanded : s.dirs[p].known \/ (p = Root /\ ~s.requested)
  BY <1>3 DEF SoundPanel, ViewerOf, SameButCalls
<1>9. AllBut(s, c, beside) /\ AsReady(panel, s)
  BY <1>3, <1>4, <1>6, <1>7, <1>8 DEF AllBut, AsReady, SoundPanel, SameButCalls
<1>10. c \in Call
  BY DEF SoundPanel, IsPanel
<1>11. QED
  BY <1>9, <1>10 DEF s
LEMMA CallsByMethod ==
  ASSUME NEW c \in Call
  PROVE  /\ c.method \in Method /\ c.path \in Path /\ c.goal \in Path
         /\ c.then \in Thens[c.method]
  BY DEF Call

LEMMA StatusAnswerKeeps ==
  ASSUME NEW s, NEW c, AllBut(s, c, beside), c.method = "repo.status",
         NEW a, a.ok \in BOOLEAN, a.ok => a.entries \in Entries
  PROVE  LET t == StatusAnswer(s, c, a) IN SoundPanel(t, beside) /\ AsReady(s, t)
<1> DEFINE t == StatusAnswer(s, c, a)
           now == [known |-> TRUE, entries |-> a.entries]
<1>1. CASE IsFatal(a)
  <2>1. t = takeFatal(s, a.code)
    BY <1>1 DEF StatusAnswer
  <2>2. QED
    BY <1>1, <2>1, FatalKeeps DEF AllBut
<1>2. CASE ~IsFatal(a) /\ a.ok
  <2>1. t = [s EXCEPT !.error = FALSE, !.status = now]
    BY <1>2 DEF StatusAnswer
  <2>2. now \in [known: BOOLEAN, entries: Entries] /\ now.known
    BY <1>2
  <2> HIDE DEF now, t
  <2>3. /\ t.status = now /\ t.fatal = s.fatal /\ t.requested = s.requested
        /\ t.expanded = s.expanded /\ t.dirs = s.dirs /\ t.calls = s.calls
        /\ t.content = s.content /\ t.diff = s.diff /\ t.selected = s.selected
    BY <2>1 DEF AllBut, IsPanel
  <2>4. IsPanel(t)
    BY <2>1, <2>2, <2>3 DEF AllBut, IsPanel
  <2>5. SoundPanel(t, beside) /\ AsReady(s, t)
    BY <2>2, <2>3, <2>4 DEF AllBut, SoundPanel, ViewerOf, AsReady, RootAsked, StatusAsked, Asked
  <2>6. QED
    BY <2>5 DEF t
<1>3. CASE ~IsFatal(a) /\ ~a.ok
  <2>1. t = [s EXCEPT !.error = TRUE]
    BY <1>3 DEF StatusAnswer
  <2> HIDE DEF t
  <2>2. /\ t.error /\ t.fatal = s.fatal /\ t.requested = s.requested
        /\ t.expanded = s.expanded /\ t.dirs = s.dirs /\ t.calls = s.calls
        /\ t.content = s.content /\ t.diff = s.diff /\ t.selected = s.selected
    BY <2>1 DEF AllBut, IsPanel
  <2>3. IsPanel(t)
    BY <2>1, <2>2 DEF AllBut, IsPanel
  <2>4. SoundPanel(t, beside) /\ AsReady(s, t)
    BY <2>2, <2>3 DEF AllBut, SoundPanel, ViewerOf, AsReady, RootAsked, StatusAsked, Asked
  <2>5. QED
    BY <2>4 DEF t
<1>4. QED
  BY <1>1, <1>2, <1>3

LEMMA TreeAnswerKeeps ==
  ASSUME PathAssumption, beside \in Terminal, NEW s, NEW c \in Call,
         AllBut(s, c, beside), c.method = "repo.tree",
         NEW a, a.ok \in BOOLEAN, a.ok => a.entries \in Entries
  PROVE  LET t == TreeAnswer(s, c, a) IN SoundPanel(t, beside) /\ AsReady(s, t)
<1> DEFINE state == [loading |-> FALSE, error |-> ~a.ok,
                     entries |-> IF a.ok THEN a.entries ELSE {}]
           r == IF IsFatal(a) THEN takeFatal(s, a.code)
                ELSE patchDir(s, c.path, state)
           t == reveal(r, beside, c.path, c.then, c.goal)
<1>1. TreeAnswer(s, c, a) = IF c.goal = c.path THEN r ELSE t
  BY DEF TreeAnswer
<1>2. Root \in Path /\ c.path \in Path /\ c.goal \in Path /\ c.then \in Thens["repo.tree"]
  BY CallsByMethod DEF PathAssumption
<1>3. ~state.loading /\ state.loading \in BOOLEAN /\ state.error \in BOOLEAN
      /\ state.entries \in Entries
  <2>1. {} \in Entries
    BY DEF Entries
  <2>2. QED
    BY <2>1
<1> HIDE DEF state
<1>4. SoundPanel(r, beside) /\ AsReady(s, r)
  <2>1. CASE IsFatal(a)
    BY <2>1, FatalKeeps DEF AllBut
  <2>2. CASE ~IsFatal(a)
    <3>1. r = patchDir(s, c.path, state)
      BY <2>2
    <3> HIDE DEF r
    <3>2. Patched(s, r, c.path) /\ r.dirs[c.path].loading = state.loading
      BY <1>2, <1>3, <3>1, PatchMeans DEF AllBut
    <3>3. r.requested /\ r.fatal = "none" => RootAsked(r, beside)
      <4>1. CASE c.path = Root
        BY <1>3, <3>2, <4>1 DEF RootAsked
      <4>2. CASE c.path # Root
        BY <1>2, <3>2, <4>2 DEF AllBut, RootAsked, Asked, Patched
      <4>3. QED
        BY <4>1, <4>2
    <3>4. r.requested /\ r.fatal = "none" => StatusAsked(r, beside)
      BY <3>2 DEF AllBut, StatusAsked, Asked, Patched
    <3>5. \A p \in r.expanded : r.dirs[p].known \/ (p = Root /\ ~r.requested)
      <4>1. \A p \in r.expanded : p \in Path
        BY <3>2 DEF Patched, IsPanel
      <4>2. QED
        BY <3>2, <4>1 DEF AllBut, Patched
    <3>6. QED
      BY <3>2, <3>3, <3>4, <3>5 DEF AllBut, SoundPanel, ViewerOf, AsReady, Patched
  <2>3. QED
    BY <2>1, <2>2
<1> HIDE DEF r
<1>5. Goes(r, t, beside)
  BY <1>2, <1>4, RevealGoes DEF SoundPanel
<1> HIDE DEF t
<1>6. SoundPanel(t, beside) /\ AsReady(r, t)
  BY <1>2, <1>4, <1>5, GoesKeeps
<1>7. AsReady(s, t)
  BY <1>4, <1>6 DEF AsReady
<1>8. QED
  BY <1>1, <1>4, <1>6, <1>7

\* An answer about another file than the one selected is dropped.
LEMMA ReadAnswerKeeps ==
  ASSUME NEW s, NEW c \in Call, AllBut(s, c, beside), c.method = "file.read",
         NEW a, a.ok \in BOOLEAN, a.ok => a.kind \in {"text", "binary"}
  PROVE  LET t == ReadAnswer(s, c, a) IN SoundPanel(t, beside) /\ AsReady(s, t)
<1> DEFINE kind == IF a.ok THEN a.kind
                   ELSE CASE a.code = "file_too_large" -> "too-large"
                          [] a.code \in {"not_found", "not_a_file"} -> "gone"
                          [] OTHER -> "failed"
           content == [kind |-> kind, path |-> c.path]
           t == ReadAnswer(s, c, a)
<1>1. kind \in {"text", "binary", "too-large", "gone", "failed"}
  OBVIOUS
<1>2. t = IF s.selected # c.path THEN s
          ELSE IF IsFatal(a) THEN takeFatal(s, a.code)
          ELSE [s EXCEPT !.content = content]
  BY DEF ReadAnswer
<1> HIDE DEF kind
<1>3. content \in Shown /\ content.path = c.path
  BY <1>1, CallsByMethod DEF Shown
<1>4. SoundPanel(s, beside) /\ AsReady(s, s)
  BY DEF AllBut, SoundPanel, AsReady
<1> HIDE DEF content, t
<1>5. CASE s.selected # c.path
  BY <1>2, <1>4, <1>5 DEF t
<1>6. CASE s.selected = c.path /\ IsFatal(a)
  <2>1. t = takeFatal(s, a.code)
    BY <1>2, <1>6
  <2>2. QED
    BY <1>6, <2>1, FatalKeeps DEF AllBut, t
<1>7. CASE s.selected = c.path /\ ~IsFatal(a)
  <2>1. t = [s EXCEPT !.content = content]
    BY <1>2, <1>7
  <2>2. /\ t.status = s.status /\ t.error = s.error /\ t.fatal = s.fatal /\ t.requested = s.requested
        /\ t.expanded = s.expanded /\ t.dirs = s.dirs /\ t.calls = s.calls
        /\ t.content = content /\ t.diff = s.diff /\ t.selected = s.selected
    BY <2>1 DEF AllBut, IsPanel
  <2>3. IsPanel(t)
    BY <1>3, <2>1, <2>2 DEF AllBut, IsPanel
  <2>4. SoundPanel(t, beside) /\ AsReady(s, t)
    BY <1>3, <1>4, <1>7, <2>2, <2>3
       DEF SoundPanel, ViewerOf, AsReady, RootAsked, StatusAsked, Asked
  <2>5. QED
    BY <2>4 DEF t
<1>8. QED
  BY <1>5, <1>6, <1>7

LEMMA DiffAnswerKeeps ==
  ASSUME NEW s, NEW c \in Call, AllBut(s, c, beside), c.method = "repo.diff",
         NEW a, a.ok \in BOOLEAN
  PROVE  LET t == DiffAnswer(s, c, a) IN SoundPanel(t, beside) /\ AsReady(s, t)
<1> DEFINE kind == IF a.ok THEN "diff" ELSE IF a.code = "not_found" THEN "gone" ELSE "failed"
           fresh == [kind |-> kind, path |-> c.path]
           t == DiffAnswer(s, c, a)
<1>1. kind \in {"diff", "gone", "failed"}
  OBVIOUS
<1>2. t = IF s.selected # c.path THEN s
          ELSE IF IsFatal(a) THEN takeFatal(s, a.code)
          ELSE [s EXCEPT !.diff = fresh]
  BY DEF DiffAnswer
<1> HIDE DEF kind
<1>3. fresh \in Shown /\ fresh.path = c.path
  BY <1>1, CallsByMethod DEF Shown
<1>4. SoundPanel(s, beside) /\ AsReady(s, s)
  BY DEF AllBut, SoundPanel, AsReady
<1> HIDE DEF fresh, t
<1>5. CASE s.selected # c.path
  BY <1>2, <1>4, <1>5 DEF t
<1>6. CASE s.selected = c.path /\ IsFatal(a)
  <2>1. t = takeFatal(s, a.code)
    BY <1>2, <1>6
  <2>2. QED
    BY <1>6, <2>1, FatalKeeps DEF AllBut, t
<1>7. CASE s.selected = c.path /\ ~IsFatal(a)
  <2>1. t = [s EXCEPT !.diff = fresh]
    BY <1>2, <1>7
  <2>2. /\ t.status = s.status /\ t.error = s.error /\ t.fatal = s.fatal /\ t.requested = s.requested
        /\ t.expanded = s.expanded /\ t.dirs = s.dirs /\ t.calls = s.calls
        /\ t.content = s.content /\ t.diff = fresh /\ t.selected = s.selected
    BY <2>1 DEF AllBut, IsPanel
  <2>3. IsPanel(t)
    BY <1>3, <2>1, <2>2 DEF AllBut, IsPanel
  <2>4. SoundPanel(t, beside) /\ AsReady(s, t)
    BY <1>3, <1>4, <1>7, <2>2, <2>3
       DEF SoundPanel, ViewerOf, AsReady, RootAsked, StatusAsked, Asked
  <2>5. QED
    BY <2>4 DEF t
<1>8. QED
  BY <1>5, <1>6, <1>7

LEMMA GotoAnswerKeeps ==
  ASSUME PathAssumption, beside \in Terminal, NEW s, NEW c \in Call,
         AllBut(s, c, beside), c.method = "file.read", NEW a, a.ok \in BOOLEAN
  PROVE  LET t == GotoAnswer(s, c, a) IN SoundPanel(t, beside) /\ AsReady(s, t)
<1> DEFINE t == GotoAnswer(s, c, a)
           opened(then) == reveal(s, beside, Root, then, c.path)
<1>1. Root \in Path /\ c.path \in Path
  BY CallsByMethod DEF PathAssumption
<1>2. SoundPanel(s, beside) /\ AsReady(s, s)
  BY DEF AllBut, SoundPanel, AsReady
<1>3. \A then \in {"open", "enter", "large"} :
        SoundPanel(opened(then), beside) /\ AsReady(s, opened(then))
  <2> SUFFICES ASSUME NEW then \in {"open", "enter", "large"}
               PROVE  SoundPanel(opened(then), beside) /\ AsReady(s, opened(then))
    OBVIOUS
  <2>1. then \in Thens["repo.tree"]
    BY ThensOfMethods
  <2>2. Goes(s, opened(then), beside)
    BY <1>1, <1>2, <2>1, RevealGoes DEF SoundPanel
  <2> HIDE DEF opened
  <2>3. QED
    BY <1>1, <1>2, <2>2, GoesKeeps
<1>4. t = IF a.ok THEN opened("open")
          ELSE IF IsFatal(a) THEN takeFatal(s, a.code)
          ELSE CASE a.code = "not_a_file" -> opened("enter")
                 [] a.code = "file_too_large" -> opened("large")
                 [] OTHER -> s
  BY DEF GotoAnswer
<1> HIDE DEF opened, t
<1>5. \/ t \in {opened(then) : then \in {"open", "enter", "large"}}
      \/ IsFatal(a) /\ t = takeFatal(s, a.code)
      \/ t = s
  BY <1>4
<1>6. SoundPanel(t, beside) /\ AsReady(s, t)
  <2>1. CASE IsFatal(a) /\ t = takeFatal(s, a.code)
    BY <2>1, FatalKeeps DEF AllBut
  <2>2. QED
    BY <1>2, <1>3, <1>5, <2>1
<1>7. QED
  BY <1>6 DEF t
\* The root and the status are asked for, and nothing else has changed.
LEMMA FirstReadsAsk ==
  ASSUME Root \in Path, NEW at \in Terminal, NEW r, IsPanel(r), ViewerOf(r),
         \A p \in r.expanded : r.dirs[p].known \/ p = Root,
         NEW t, t = pollStatus(loadDir(r, at, Root, "stop", Root), at)
  PROVE  SoundPanel(t, at) /\ t.requested = r.requested /\ Goes(r, t, at)
<1> DEFINE u == loadDir(r, at, Root, "stop", Root)
           c == [method |-> "repo.status", path |-> Root, of |-> at, then |-> "poll", goal |-> Root]
<1>1. /\ "stop" \in Thens["repo.tree"] /\ "poll" \in Thens["repo.status"]
      /\ "repo.status" \in Method
  BY ThensOfMethods DEF Method
<1>2. Goes(r, u, at) /\ u.dirs[Root].known /\ Asked(u, at, "repo.tree", Root) /\ u.expanded = r.expanded
  BY <1>1, LoadDirGoes
<1>3. t = Send(u, at, "repo.status", Root, "poll", Root)
  BY DEF pollStatus
<1> HIDE DEF u
<1>4. IsPanel(u)
  BY <1>2 DEF Goes
<1>5. IsPanel(t) /\ SameButCalls(u, t) /\ DOMAIN t.calls = DOMAIN u.calls \cup {c}
  BY <1>1, <1>3, <1>4, SendMeans
<1>6. c.method = "repo.status" /\ c.path = Root /\ c.of = at
  OBVIOUS
<1> HIDE DEF c
<1>7. Asked(t, at, "repo.status", Root) /\ Asked(t, at, "repo.tree", Root)
  BY <1>2, <1>5, <1>6 DEF Asked
<1>8. \A p \in t.expanded : t.dirs[p].known
  <2>1. r.expanded \subseteq Path
    BY DEF IsPanel
  <2>2. QED
    BY <1>2, <1>5, <2>1 DEF Goes, SameButCalls
<1>9. ViewerOf(t) /\ t.requested = r.requested
  BY <1>2, <1>5 DEF Goes, ViewerOf, SameButCalls
<1>10. Goes(r, t, at)
  <2>1. Goes(u, t, at)
    BY <1>1, <1>3, <1>4, SendGoes
  <2>2. QED
    BY <1>2, <2>1, GoesOn
<1>11. QED
  BY <1>5, <1>7, <1>8, <1>9, <1>10 DEF SoundPanel, RootAsked, StatusAsked

LEMMA FirstReadKeeps ==
  ASSUME Root \in Path, NEW at \in Terminal, NEW proj, NEW s, SoundPanel(s, at),
         NEW t, t = FirstRead(s, at, proj)
  PROVE  SoundPanel(t, at) /\ (gate(proj, t) = "ready" => t.requested)
<1>1. CASE gate(proj, s) = "ready" /\ ~s.requested
  <2> DEFINE r == [s EXCEPT !.requested = TRUE]
  <2>1. t = pollStatus(loadDir(r, at, Root, "stop", Root), at)
    BY <1>1 DEF FirstRead
  <2>2. /\ r.requested /\ r.fatal = s.fatal /\ r.expanded = s.expanded /\ r.dirs = s.dirs
        /\ r.content = s.content /\ r.diff = s.diff /\ r.selected = s.selected
    BY DEF SoundPanel, IsPanel
  <2>3. IsPanel(r)
    <3>1. r.calls = s.calls
      BY DEF SoundPanel, IsPanel
    <3>2. QED
      BY <3>1 DEF SoundPanel, IsPanel
  <2> HIDE DEF r
  <2>4. ViewerOf(r) /\ \A p \in r.expanded : r.dirs[p].known \/ p = Root
    BY <2>2 DEF SoundPanel, ViewerOf
  <2>5. SoundPanel(t, at) /\ t.requested = r.requested
    BY <2>1, <2>3, <2>4, FirstReadsAsk
  <2>6. QED
    BY <2>2, <2>5
<1>2. CASE ~(gate(proj, s) = "ready" /\ ~s.requested)
  <2>1. t = s
    BY <1>2 DEF FirstRead
  <2>2. QED
    BY <1>2, <2>1
<1>3. QED
  BY <1>1, <1>2

LEMMA FreshIsSound ==
  ASSUME Root \in Path, NEW at, NEW B, B \in [DOMAIN B -> Nat \ {0}], DOMAIN B \subseteq Call
  PROVE  SoundPanel(FreshBut(B), at)
<1> DEFINE s == FreshBut(B)
<1>1. /\ s.fatal = "none" /\ s.requested = FALSE
      /\ s.status = [known |-> FALSE, entries |-> {}]
      /\ s.error = FALSE /\ s.changedOnly = FALSE
      /\ s.dirs = [p \in Path |-> Unread] /\ s.expanded = {Root}
      /\ s.selected = "none" /\ s.content = Blank /\ s.diff = Blank /\ s.calls = B
  BY DEF FreshBut, None
<1>2. s = [fatal |-> s.fatal, requested |-> s.requested, status |-> s.status,
           error |-> s.error, changedOnly |-> s.changedOnly, dirs |-> s.dirs,
           expanded |-> s.expanded, selected |-> s.selected, content |-> s.content,
           diff |-> s.diff, calls |-> s.calls]
  BY DEF FreshBut
<1> HIDE DEF s
<1>3. s.fatal \in Gates /\ s.requested \in BOOLEAN /\ s.error \in BOOLEAN
      /\ s.changedOnly \in BOOLEAN
  BY <1>1 DEF Gates, None
<1>4. s.status \in [known: BOOLEAN, entries: Entries] /\ s.dirs \in [Path -> Dir]
  BY <1>1 DEF Entries, Unread, Dir
<1>5. /\ s.expanded \in SUBSET Path /\ s.selected \in Path \cup {None}
      /\ s.content \in Shown /\ s.diff \in Shown
  BY <1>1 DEF Shown, None
<1>6. IsPanel(s)
  BY <1>1, <1>2, <1>3, <1>4, <1>5 DEF IsPanel
<1>7. ViewerOf(s)
  BY <1>1 DEF ViewerOf, Blank, None
<1>8. SoundPanel(s, at)
  BY <1>1, <1>6, <1>7 DEF SoundPanel
<1>9. QED
  BY <1>8 DEF s

LEMMA FreshStartsSound ==
  ASSUME Root \in Path, NEW at PROVE SoundPanel(Fresh, at)
<1> DEFINE B == NoCalls
<1>1. B \in [DOMAIN B -> Nat \ {0}] /\ DOMAIN B \subseteq Call
  BY DEF NoCalls
<1>2. Fresh = FreshBut(B)
  BY DEF Fresh
<1> HIDE DEF B
<1>3. QED
  BY <1>1, <1>2, FreshIsSound

LEMMA PanelStarts ==
  ASSUME PathAssumption, PanelAssumption, PanelInit PROVE PanelInv
<1>1. Root \in Path /\ beside \in Terminal
  BY DEF PathAssumption, PanelInit
<1>2. SoundPanel(panel, beside) /\ (gate(project, panel) = "ready" => panel.requested)
  BY <1>1, FreshStartsSound, FirstReadKeeps DEF PanelInit
<1>3. QED
  BY <1>1, <1>2, InvOfThePanel DEF PanelInit
\* What the operator does next.
LEMMA InputsKeep ==
  ASSUME PathAssumption, SoundPanel(panel, beside), beside \in Terminal,
         gate(project, panel) = "ready" => panel.requested,
         NEW t, Goes(panel, t, beside)
  PROVE  SoundPanel(t, beside) /\ (gate(project, t) = "ready" => t.requested)
<1>1. Root \in Path
  BY DEF PathAssumption
<1>2. SoundPanel(t, beside) /\ AsReady(panel, t)
  BY <1>1, GoesKeeps
<1>3. QED
  BY <1>2, ReadyAsBefore

LEMMA FilterGoes ==
  ASSUME NEW s, IsPanel(s), NEW only \in BOOLEAN, NEW at,
         NEW t, t = [s EXCEPT !.changedOnly = only]
  PROVE  Goes(s, t, at) /\ IsPanel(t) /\ t.selected = s.selected
<1>1. /\ t.status = s.status /\ t.error = s.error /\ t.fatal = s.fatal /\ t.requested = s.requested
      /\ t.expanded = s.expanded /\ t.dirs = s.dirs /\ t.calls = s.calls
      /\ t.content = s.content /\ t.diff = s.diff /\ t.selected = s.selected
  BY DEF IsPanel
<1>2. IsPanel(t)
  BY <1>1 DEF IsPanel
<1>3. QED
  BY <1>1, <1>2 DEF Goes, ViewerOf

LEMMA RetryKeeps ==
  ASSUME PathAssumption, beside \in Terminal, SoundPanel(panel, beside), retry
  PROVE  SoundPanel(panel', beside) /\ panel'.requested
<1> DEFINE r == [panel EXCEPT !.fatal = None, !.error = FALSE, !.requested = TRUE]
<1>1. panel' = pollStatus(loadDir(r, beside, Root, "stop", Root), beside)
  BY DEF retry
<1>2. /\ r.fatal = "none" /\ r.requested /\ r.error = FALSE
      /\ r.status = panel.status /\ r.expanded = panel.expanded /\ r.dirs = panel.dirs
      /\ r.content = panel.content /\ r.diff = panel.diff /\ r.selected = panel.selected
      /\ r.calls = panel.calls /\ r.changedOnly = panel.changedOnly
  BY DEF SoundPanel, IsPanel, None
<1>3. "none" \in Gates
  BY DEF Gates, None
<1>4. IsPanel(r)
  BY <1>2, <1>3 DEF SoundPanel, IsPanel, None
<1> HIDE DEF r
<1>5. ViewerOf(r) /\ \A p \in r.expanded : r.dirs[p].known \/ p = Root
  BY <1>2 DEF SoundPanel, ViewerOf
<1>6. Root \in Path
  BY DEF PathAssumption
<1>7. QED
  BY <1>1, <1>2, <1>4, <1>5, <1>6, FirstReadsAsk

LEMMA AnswersKeep ==
  ASSUME PathAssumption, PanelAssumption, beside \in Terminal,
         SoundPanel(panel, beside), NEW c \in DOMAIN panel.calls,
         NEW a \in Answer[c.method][c.path], Answered(c, a)
  PROVE  SoundPanel(panel', beside) /\ AsReady(panel, panel')
<1> DEFINE s == Settle(c)
<1>1. AllBut(s, c, beside) /\ AsReady(panel, s) /\ c \in Call
  BY SettleKeeps
<1> HIDE DEF s
<1>2. c.method \in Method /\ c.path \in Path /\ c.then \in Thens[c.method]
  BY <1>1, CallsByMethod
<1>3. /\ a.ok \in BOOLEAN
      /\ a.ok /\ c.method \in {"repo.status", "repo.tree"} => a.entries \in Entries
      /\ a.ok /\ c.method = "file.read" => a.kind \in {"text", "binary"}
  BY <1>2, AnswerType
<1>4. \/ c.method = "repo.status" /\ c.then = "poll"
      \/ c.method = "repo.tree" /\ c.then \in {"stop", "open", "enter", "large"}
      \/ c.method = "file.read" /\ c.then = "view"
      \/ c.method = "file.read" /\ c.then = "goto"
      \/ c.method = "repo.diff" /\ c.then = "view"
  BY <1>2, ThensOfMethods DEF Method
<1>5. panel' = CASE c.then = "goto" -> GotoAnswer(s, c, a)
                 [] c.method = "repo.status" -> StatusAnswer(s, c, a)
                 [] c.method = "repo.tree" -> TreeAnswer(s, c, a)
                 [] c.method = "file.read" /\ c.then = "view" -> ReadAnswer(s, c, a)
                 [] c.method = "repo.diff" -> DiffAnswer(s, c, a)
  BY DEF Answered, s
<1>6. SoundPanel(panel', beside) /\ AsReady(s, panel')
  <2>1. CASE c.method = "repo.status" /\ c.then = "poll"
    <3>1. panel' = StatusAnswer(s, c, a)
      BY <1>5, <2>1
    <3>2. QED
      BY <1>1, <1>3, <2>1, <3>1, StatusAnswerKeeps
  <2>2. CASE c.method = "repo.tree" /\ c.then \in {"stop", "open", "enter", "large"}
    <3>1. panel' = TreeAnswer(s, c, a)
      BY <1>5, <2>2
    <3>2. QED
      BY <1>1, <1>3, <2>2, <3>1, TreeAnswerKeeps
  <2>3. CASE c.method = "file.read" /\ c.then = "view"
    <3>1. panel' = ReadAnswer(s, c, a)
      BY <1>5, <2>3
    <3>2. QED
      BY <1>1, <1>3, <2>3, <3>1, ReadAnswerKeeps
  <2>4. CASE c.method = "file.read" /\ c.then = "goto"
    <3>1. panel' = GotoAnswer(s, c, a)
      BY <1>5, <2>4
    <3>2. QED
      BY <1>1, <1>3, <2>4, <3>1, GotoAnswerKeeps
  <2>5. CASE c.method = "repo.diff" /\ c.then = "view"
    <3>1. panel' = DiffAnswer(s, c, a)
      BY <1>5, <2>5
    <3>2. QED
      BY <1>1, <1>3, <2>5, <3>1, DiffAnswerKeeps
  <2>6. QED
    BY <1>4, <2>1, <2>2, <2>3, <2>4, <2>5
<1>7. QED
  BY <1>1, <1>6 DEF AsReady

LEMMA PanelSteps ==
  ASSUME PathAssumption, PanelAssumption, PanelInv,
         [PanelNext]_panelVars
  PROVE  PanelInv'
<1>1. /\ beside \in Terminal /\ project \in Project /\ paused \in BOOLEAN
      /\ SoundPanel(panel, beside) /\ IsPanel(panel)
      /\ gate(project, panel) = "ready" => panel.requested
  BY InvOfThePanel DEF SoundPanel
<1>2. Root \in Path
  BY DEF PathAssumption
<1> DEFINE Kept == SoundPanel(panel', beside')
                   /\ (gate(project', panel') = "ready" => panel'.requested)
           Typed == beside' \in Terminal /\ project' \in Project /\ paused' \in BOOLEAN
<1> SUFFICES Typed /\ Kept
  BY InvOfTheNextPanel
<1>3. ASSUME NEW p \in Terminal, SwitchPane(p) PROVE Typed /\ Kept
  <2>1. PICK proj \in Project : project' = proj /\ panel' = FirstRead(reset(panel), p, proj)
    BY <1>3 DEF SwitchPane
  <2>2. beside' = p /\ paused' = paused
    BY <1>3 DEF SwitchPane
  <2>3. SoundPanel(reset(panel), p)
    BY <1>1, <1>2, FreshIsSound DEF reset, IsPanel
  <2>4. QED
    BY <1>1, <1>2, <2>1, <2>2, <2>3, FirstReadKeeps
<1>4. ASSUME NEW proj \in Project, ProjectChanges(proj) PROVE Typed /\ Kept
  BY <1>1, <1>2, <1>4, FirstReadKeeps DEF ProjectChanges
<1>5. CASE PausedChanges
  BY <1>1, <1>5 DEF PausedChanges
<1>6. CASE toggleFilePanel
  BY <1>1, <1>2, <1>6, FreshStartsSound, FirstReadKeeps DEF toggleFilePanel
<1>7. ASSUME Goes(panel, panel', beside), UNCHANGED <<beside, project, paused>>
      PROVE  Typed /\ Kept
  BY <1>1, <1>7, InputsKeep
<1>8. CASE PollTimer
  <2>1. "repo.status" \in Method /\ "poll" \in Thens["repo.status"]
    BY ThensOfMethods DEF Method
  <2>2. Goes(panel, panel', beside)
    BY <1>1, <1>2, <1>8, <2>1, SendGoes DEF PollTimer, pollStatus
  <2>3. QED
    BY <1>7, <1>8, <2>2 DEF PollTimer
<1>9. CASE retry
  BY <1>1, <1>9, RetryKeeps DEF retry
<1>10. CASE toggleChangedOnly
  <2>1. panel' = [panel EXCEPT !.changedOnly = ~panel.changedOnly]
    BY <1>10 DEF toggleChangedOnly
  <2>2. (~panel.changedOnly) \in BOOLEAN
    OBVIOUS
  <2>3. Goes(panel, panel', beside)
    BY <1>1, <2>1, <2>2, FilterGoes
  <2>4. QED
    BY <1>7, <1>10, <2>3 DEF toggleChangedOnly
<1>11. /\ "stop" \in Thens["repo.tree"] /\ "enter" \in Thens["repo.tree"]
  BY ThensOfMethods
<1>12. CASE showEveryFile
  <2> DEFINE t == [panel EXCEPT !.changedOnly = FALSE]
  <2>1. panel' = IF panel.selected = None THEN t
                 ELSE reveal(t, beside, Root, "stop", panel.selected)
    BY <1>12 DEF showEveryFile
  <2>2. Goes(panel, t, beside) /\ IsPanel(t)
    BY <1>1, FilterGoes
  <2>3. panel.selected \in Path \cup {None}
    BY <1>1 DEF IsPanel
  <2> HIDE DEF t
  <2>4. CASE panel.selected = None
    BY <1>7, <1>12, <2>1, <2>2, <2>4 DEF showEveryFile
  <2>5. CASE panel.selected # None
    <3> DEFINE u == reveal(t, beside, Root, "stop", panel.selected)
    <3>1. Goes(t, u, beside)
      BY <1>1, <1>2, <1>11, <2>2, <2>3, <2>5, RevealGoes
    <3>2. panel' = u
      BY <2>1, <2>5
    <3> HIDE DEF u
    <3>3. Goes(panel, u, beside)
      BY <1>1, <2>2, <3>1, GoesOn
    <3>4. QED
      BY <1>7, <1>12, <3>2, <3>3 DEF showEveryFile
  <2>6. QED
    BY <2>4, <2>5
<1>13. ASSUME NEW p \in Path, toggleDir(p) PROVE Typed /\ Kept
  <2> DEFINE t == [panel EXCEPT !.changedOnly = FALSE]
             u == reveal(t, beside, Root, "enter", p)
             v == [panel EXCEPT !.expanded = panel.expanded \ {p}]
             w == openDir(panel, beside, p)
  <2>1. panel' = IF panel.changedOnly THEN u ELSE IF p \in panel.expanded THEN v ELSE w
    BY <1>13 DEF toggleDir
  <2>2. Goes(panel, t, beside) /\ IsPanel(t)
    BY <1>1, FilterGoes
  <2> HIDE DEF t
  <2>3. Goes(t, u, beside)
    BY <1>1, <1>2, <1>11, <2>2, RevealGoes
  <2>4. Goes(panel, w, beside)
    BY <1>1, <1>2, OpenDirGoes
  <2> HIDE DEF u, w
  <2>5. Goes(panel, u, beside)
    BY <1>1, <2>2, <2>3, GoesOn
  <2>6. Goes(panel, v, beside)
    <3>1. /\ v.status = panel.status /\ v.error = panel.error /\ v.fatal = panel.fatal
          /\ v.requested = panel.requested
          /\ v.expanded = panel.expanded \ {p} /\ v.dirs = panel.dirs /\ v.calls = panel.calls
          /\ v.content = panel.content /\ v.diff = panel.diff /\ v.selected = panel.selected
      BY <1>1 DEF IsPanel
    <3>2. IsPanel(v)
      BY <1>1, <3>1 DEF IsPanel
    <3> HIDE DEF v
    <3>3. QED
      BY <3>1, <3>2 DEF Goes, ViewerOf
  <2> HIDE DEF v
  <2>7. Goes(panel, panel', beside)
    BY <2>1, <2>4, <2>5, <2>6
  <2>8. QED
    BY <1>7, <1>13, <2>7 DEF toggleDir
<1>14. ASSUME NEW p \in Path, OpenRow(p) PROVE Typed /\ Kept
  <2>1. Goes(panel, panel', beside)
    BY <1>1, <1>14, OpenFileGoes DEF OpenRow
  <2>2. QED
    BY <1>7, <1>14, <2>1 DEF OpenRow
<1>15. ASSUME NEW p \in Path, submitGoto(p) PROVE Typed /\ Kept
  <2>1. "file.read" \in Method /\ "goto" \in Thens["file.read"]
    BY ThensOfMethods DEF Method
  <2>2. Goes(panel, panel', beside)
    BY <1>1, <1>15, <2>1, SendGoes DEF submitGoto
  <2>3. QED
    BY <1>7, <1>15, <2>2 DEF submitGoto
<1>16. ASSUME NEW c \in DOMAIN panel.calls, NEW a \in Answer[c.method][c.path],
              Answered(c, a)
       PROVE  Typed /\ Kept
  <2>1. beside' = beside /\ project' = project /\ paused' = paused
    BY <1>16 DEF Answered
  <2>2. SoundPanel(panel', beside) /\ AsReady(panel, panel')
    BY <1>1, <1>16, AnswersKeep
  <2>3. gate(project, panel') = "ready" => panel'.requested
    BY <1>1, <2>2, ReadyAsBefore
  <2>4. QED
    BY <1>1, <2>1, <2>2, <2>3
<1>17. CASE UNCHANGED panelVars
  BY <1>1, <1>17 DEF panelVars
<1>18. QED
  BY <1>3, <1>4, <1>5, <1>6, <1>8, <1>9, <1>10, <1>12, <1>13, <1>14, <1>15, <1>16, <1>17
     DEF PanelNext
LEMMA PanelIsSound == PanelSpec => []PanelInv
<1>1. PanelInit => PanelInv
  BY PathAssumption, PanelAssumption, PanelStarts
<1>2. PanelInv /\ [PanelNext]_panelVars => PanelInv'
  BY PathAssumption, PanelAssumption, PanelSteps
<1>3. QED
  BY <1>1, <1>2, PTL DEF PanelSpec

\* The viewer is about the file that is selected, and about no other, whatever
\* was opened, pasted or left while its read and its diff were in flight
\* (readFile and readDiff of file-panel.ts, after their await).
THEOREM ViewerFollowsTheSelection == PanelSpec => []ViewerShowsSelected
<1>1. PanelInv => ViewerShowsSelected
  BY DEF PanelInv
<1>2. QED
  BY <1>1, PanelIsSound, PTL

\* The first tree and the first status of a pane are on their way for as long
\* as the panel waits for them (the effect of file-panel.ts, retry).
THEOREM FirstReadsAreUnderWay == PanelSpec => []FirstReadsEnd
<1>1. PanelInv => FirstReadsEnd
  <2> SUFFICES ASSUME PanelInv, Ready PROVE FirstReadsEnd
    BY DEF FirstReadsEnd
  <2>1. panel.requested /\ FirstReadsAreAsked
    BY DEF PanelInv, FirstReadsAreAsked
  <2>2. panel.fatal = None
    <3>1. \A f \in Gates : f # "ready"
      BY DEF Gates, FATAL, None
    <3>2. panel.fatal \in Gates
      BY DEF PanelInv, PanelTypeOK, IsPanel
    <3>3. QED
      BY <3>1, <3>2 DEF Ready, gate
  <2>3. QED
    BY <2>1, <2>2 DEF FirstReadsAreAsked, FirstReadsEnd
<1>2. QED
  BY <1>1, PanelIsSound, PTL

\* Of a panel beside the pane at: p says it is loading, with no call on its way.
Lost(s, at, p) == s.dirs[p].loading /\ ~Asked(s, at, "repo.tree", p)
\* From s to t, a call is lost only with the conversation.
Waits(s, t, at) == t.fatal # "none" \/ \A p \in Path : Lost(t, at, p) => Lost(s, at, p)

LEMMA GoesWaits ==
  ASSUME NEW s, NEW t, NEW at, Goes(s, t, at) PROVE Waits(s, t, at)
<1>1. \A p \in Path : Asked(s, at, "repo.tree", p) => Asked(t, at, "repo.tree", p)
  BY DEF Asked, Goes
<1>2. QED
  BY <1>1 DEF Goes, Waits, Lost

LEMMA FirstReadWaits ==
  ASSUME Root \in Path, NEW at \in Terminal, NEW proj, NEW s, SoundPanel(s, at),
         NEW t, t = FirstRead(s, at, proj)
  PROVE  Waits(s, t, at)
<1>1. CASE gate(proj, s) = "ready" /\ ~s.requested
  <2> DEFINE r == [s EXCEPT !.requested = TRUE]
  <2>1. t = pollStatus(loadDir(r, at, Root, "stop", Root), at)
    BY <1>1 DEF FirstRead
  <2>2. /\ r.fatal = s.fatal /\ r.expanded = s.expanded /\ r.dirs = s.dirs /\ r.calls = s.calls
        /\ r.content = s.content /\ r.diff = s.diff /\ r.selected = s.selected
    BY DEF SoundPanel, IsPanel
  <2>3. IsPanel(r)
    BY <2>2 DEF SoundPanel, IsPanel
  <2> HIDE DEF r
  <2>4. ViewerOf(r) /\ \A p \in r.expanded : r.dirs[p].known \/ p = Root
    BY <2>2 DEF SoundPanel, ViewerOf
  <2>5. Waits(r, t, at)
    BY <2>1, <2>3, <2>4, FirstReadsAsk, GoesWaits
  <2>6. QED
    BY <2>2, <2>5 DEF Waits, Lost, Asked
<1>2. CASE ~(gate(proj, s) = "ready" /\ ~s.requested)
  BY <1>2 DEF FirstRead, Waits
<1>3. QED
  BY <1>1, <1>2

LEMMA FatalWaits ==
  ASSUME NEW s, IsPanel(s), NEW a, IsFatal(a), NEW at PROVE Waits(s, takeFatal(s, a.code), at)
<1> DEFINE f == FATAL[a.code]
<1>1. f # "none" /\ takeFatal(s, a.code) = [s EXCEPT !.fatal = f]
  BY DEF IsFatal, FATAL, takeFatal
<1>2. takeFatal(s, a.code).fatal = f
  <2> HIDE DEF f
  <2>1. QED
    BY <1>1 DEF IsPanel
<1>3. QED
  BY <1>1, <1>2 DEF Waits

\* The answer to the load of a directory: it has been read, or could not be.
LEMMA TreeAnswerWaits ==
  ASSUME PathAssumption, beside \in Terminal, NEW s, IsPanel(s), NEW c \in Call,
         c.method = "repo.tree", NEW a, a.ok \in BOOLEAN, a.ok => a.entries \in Entries,
         NEW t, t = TreeAnswer(s, c, a)
  PROVE  t.fatal # "none" \/ \A p \in Path : Lost(t, beside, p) => p # c.path /\ Lost(s, beside, p)
<1> DEFINE state == [loading |-> FALSE, error |-> ~a.ok,
                     entries |-> IF a.ok THEN a.entries ELSE {}]
           r == IF IsFatal(a) THEN takeFatal(s, a.code) ELSE patchDir(s, c.path, state)
           u == reveal(r, beside, c.path, c.then, c.goal)
           Ends(x) == x.fatal # "none" \/ \A p \in Path : Lost(x, beside, p) => p # c.path /\ Lost(s, beside, p)
<1>1. t = IF c.goal = c.path THEN r ELSE u
  BY DEF TreeAnswer
<1>2. Root \in Path /\ c.path \in Path /\ c.goal \in Path /\ c.then \in Thens["repo.tree"]
  BY CallsByMethod DEF PathAssumption
<1>3. /\ ~state.loading /\ state.loading \in BOOLEAN /\ state.error \in BOOLEAN
      /\ state.entries \in Entries
  <2>1. {} \in Entries
    BY DEF Entries
  <2>2. QED
    BY <2>1
<1> HIDE DEF state
<1>4. IsPanel(r) /\ Ends(r)
  <2>1. CASE IsFatal(a)
    <3> DEFINE f == FATAL[a.code]
    <3>1. f \in Gates \ {"none"} /\ r = [s EXCEPT !.fatal = f]
      BY <2>1 DEF IsFatal, takeFatal, Gates, FATAL, None
    <3> HIDE DEF f, r
    <3>2. r.fatal = f /\ r.calls = s.calls
      BY <3>1 DEF IsPanel
    <3>3. IsPanel(r)
      BY <3>1, <3>2 DEF IsPanel
    <3>4. QED
      BY <3>1, <3>2, <3>3
  <2>2. CASE ~IsFatal(a)
    <3>1. r = patchDir(s, c.path, state)
      BY <2>2
    <3> HIDE DEF r
    <3>2. Patched(s, r, c.path) /\ r.dirs[c.path].loading = state.loading
      BY <1>2, <1>3, <3>1, PatchMeans
    <3>3. QED
      BY <1>3, <3>2 DEF Patched, Lost, Asked
  <2>3. QED
    BY <2>1, <2>2
<1> HIDE DEF r
<1>5. Goes(r, u, beside)
  BY <1>2, <1>4, RevealGoes
<1> HIDE DEF u
<1>6. u.fatal = r.fatal /\ \A p \in Path : Lost(u, beside, p) => Lost(r, beside, p)
  <2>1. \A p \in Path : Asked(r, beside, "repo.tree", p) => Asked(u, beside, "repo.tree", p)
    BY <1>5 DEF Asked, Goes
  <2>2. QED
    BY <1>5, <2>1 DEF Goes, Lost
<1>7. Ends(u)
  BY <1>4, <1>6
<1> HIDE DEF Ends
<1>8. Ends(t)
  BY <1>1, <1>4, <1>7
<1>9. QED
  BY <1>8 DEF Ends

LEMMA AnswersWait ==
  ASSUME PathAssumption, PanelAssumption, beside \in Terminal,
         SoundPanel(panel, beside), NEW c \in DOMAIN panel.calls,
         NEW a \in Answer[c.method][c.path], Answered(c, a)
  PROVE  Waits(panel, panel', beside)
<1> DEFINE s == Settle(c)
           b == Calls!BagRemove(panel.calls, c)
<1>1. c \in Call /\ AllBut(s, c, beside) /\ IsPanel(s)
  BY SettleKeeps DEF AllBut
<1>2. \A p \in Path : Lost(s, beside, p) =>
        Lost(panel, beside, p) \/ (c.method = "repo.tree" /\ c.path = p)
  <2>1. /\ b \in [DOMAIN b -> Nat \ {0}] /\ DOMAIN panel.calls \ {c} \subseteq DOMAIN b
    BY CallsRemove DEF SoundPanel, IsPanel
  <2>2. s = [panel EXCEPT !.calls = b]
    BY DEF Settle
  <2> HIDE DEF b, s
  <2>3. s.calls = b /\ s.dirs = panel.dirs
    BY <2>2 DEF SoundPanel, IsPanel
  <2>4. QED
    BY <2>1, <2>3 DEF Lost, Asked
<1> HIDE DEF s, b
<1>3. c.method \in Method /\ c.path \in Path /\ c.goal \in Path /\ c.then \in Thens[c.method]
  BY <1>1, CallsByMethod
<1>4. /\ a.ok \in BOOLEAN
      /\ a.ok /\ c.method \in {"repo.status", "repo.tree"} => a.entries \in Entries
  BY <1>3, AnswerType
<1>5. \/ c.method = "repo.status" /\ c.then = "poll"
      \/ c.method = "repo.tree" /\ c.then \in {"stop", "open", "enter", "large"}
      \/ c.method = "file.read" /\ c.then = "view"
      \/ c.method = "file.read" /\ c.then = "goto"
      \/ c.method = "repo.diff" /\ c.then = "view"
  BY <1>3, ThensOfMethods DEF Method
<1>6. panel' = CASE c.then = "goto" -> GotoAnswer(s, c, a)
                 [] c.method = "repo.status" -> StatusAnswer(s, c, a)
                 [] c.method = "repo.tree" -> TreeAnswer(s, c, a)
                 [] c.method = "file.read" /\ c.then = "view" -> ReadAnswer(s, c, a)
                 [] c.method = "repo.diff" -> DiffAnswer(s, c, a)
  BY DEF Answered, s
<1>7. CASE c.method = "repo.tree"
  <2>1. panel' = TreeAnswer(s, c, a)
    BY <1>5, <1>6, <1>7
  <2>2. panel'.fatal # "none" \/ \A p \in Path :
          Lost(panel', beside, p) => p # c.path /\ Lost(s, beside, p)
    BY <1>1, <1>4, <1>7, <2>1, TreeAnswerWaits
  <2>3. QED
    BY <1>2, <2>2 DEF Waits
\* Another answer loses no call, or asks for more, or ends the conversation.
<1>8. CASE c.method # "repo.tree"
  <2>1. Waits(s, panel', beside)
    <3>1. IsFatal(a) => Waits(s, takeFatal(s, a.code), beside)
      BY <1>1, FatalWaits
    <3>2. \A t : t.dirs = s.dirs /\ t.calls = s.calls => Waits(s, t, beside)
      BY DEF Waits, Lost, Asked
    <3>3. CASE c.then = "goto"
      <4>1. ASSUME NEW then \in {"open", "enter", "large"}
            PROVE  Waits(s, reveal(s, beside, Root, then, c.path), beside)
        <5>1. then \in Thens["repo.tree"] /\ Root \in Path
          BY ThensOfMethods DEF PathAssumption
        <5>2. QED
          BY <1>1, <1>3, <5>1, RevealGoes, GoesWaits
      <4>2. panel' = GotoAnswer(s, c, a)
        BY <1>5, <1>6, <3>3
      <4>3. QED
        BY <3>1, <3>2, <4>1, <4>2 DEF GotoAnswer
    <3>4. CASE c.method = "repo.status"
      <4>1. panel' = StatusAnswer(s, c, a)
        BY <1>5, <1>6, <3>4
      <4> DEFINE now == [known |-> TRUE, entries |-> a.entries]
      <4>2. \/ IsFatal(a) /\ panel' = takeFatal(s, a.code)
            \/ panel' = [s EXCEPT !.error = FALSE, !.status = now]
            \/ panel' = [s EXCEPT !.error = TRUE]
        BY <4>1 DEF StatusAnswer
      <4> HIDE DEF now
      <4>3. \/ IsFatal(a) /\ panel' = takeFatal(s, a.code)
            \/ panel'.dirs = s.dirs /\ panel'.calls = s.calls
        BY <1>1, <4>2 DEF IsPanel
      <4>4. QED
        BY <3>1, <3>2, <4>3
    <3>5. CASE c.method = "file.read" /\ c.then = "view"
      <4>1. panel' = ReadAnswer(s, c, a)
        BY <1>6, <3>5
      <4>2. \/ IsFatal(a) /\ panel' = takeFatal(s, a.code)
            \/ panel' = s \/ \E content : panel' = [s EXCEPT !.content = content]
        BY <4>1 DEF ReadAnswer
      <4>3. \/ IsFatal(a) /\ panel' = takeFatal(s, a.code)
            \/ panel'.dirs = s.dirs /\ panel'.calls = s.calls
        BY <1>1, <4>2 DEF IsPanel
      <4>4. QED
        BY <3>1, <3>2, <4>3
    <3>6. CASE c.method = "repo.diff"
      <4>1. panel' = DiffAnswer(s, c, a)
        BY <1>5, <1>6, <3>6
      <4>2. \/ IsFatal(a) /\ panel' = takeFatal(s, a.code)
            \/ panel' = s \/ \E content : panel' = [s EXCEPT !.diff = content]
        BY <4>1 DEF DiffAnswer
      <4>3. \/ IsFatal(a) /\ panel' = takeFatal(s, a.code)
            \/ panel'.dirs = s.dirs /\ panel'.calls = s.calls
        BY <1>1, <4>2 DEF IsPanel
      <4>4. QED
        BY <3>1, <3>2, <4>3
    <3>7. QED
      BY <1>5, <1>8, <3>3, <3>4, <3>5, <3>6
  <2>2. QED
    BY <1>2, <1>8, <2>1 DEF Waits
<1>9. QED
  BY <1>7, <1>8

\* Whoever opens a pane's panel, or comes back to it, starts with no call lost.
LEMMA StepsWait ==
  ASSUME PathAssumption, PanelAssumption, PanelInv, PanelNext
  PROVE  panel'.fatal # "none" \/ \A p \in Path : Lost(panel', beside', p) => Lost(panel, beside, p)
<1>1. beside \in Terminal /\ SoundPanel(panel, beside) /\ IsPanel(panel) /\ Root \in Path
  BY InvOfThePanel DEF SoundPanel, PathAssumption
<1> DEFINE Kept == panel'.fatal # "none"
                   \/ \A p \in Path : Lost(panel', beside', p) => Lost(panel, beside, p)
<1>2. ASSUME beside' = beside, Waits(panel, panel', beside) PROVE Kept
  BY <1>2 DEF Waits
<1>3. ASSUME beside' = beside, Goes(panel, panel', beside) PROVE Kept
  BY <1>2, <1>3, GoesWaits
<1>4. ASSUME NEW at \in Terminal, NEW proj, beside' = at, NEW s, SoundPanel(s, at),
             \A p \in Path : ~s.dirs[p].loading, panel' = FirstRead(s, at, proj)
      PROVE  Kept
  BY <1>1, <1>4, FirstReadWaits DEF Waits, Lost
<1>5. ASSUME NEW B PROVE \A p \in Path : ~FreshBut(B).dirs[p].loading
  BY DEF FreshBut, Unread
<1>6. ASSUME NEW p \in Terminal, SwitchPane(p) PROVE Kept
  <2>1. PICK proj \in Project : panel' = FirstRead(reset(panel), p, proj)
    BY <1>6 DEF SwitchPane
  <2>2. SoundPanel(reset(panel), p) /\ \A q \in Path : ~reset(panel).dirs[q].loading
    BY <1>1, <1>5, FreshIsSound DEF reset, IsPanel
  <2>3. QED
    BY <1>4, <1>6, <2>1, <2>2 DEF SwitchPane
<1>7. ASSUME NEW proj \in Project, ProjectChanges(proj) PROVE Kept
  BY <1>1, <1>2, <1>7, FirstReadWaits DEF ProjectChanges
<1>8. CASE PausedChanges
  BY <1>8 DEF PausedChanges
<1>9. CASE toggleFilePanel
  <2>1. SoundPanel(Fresh, beside) /\ \A q \in Path : ~Fresh.dirs[q].loading
    BY <1>1, <1>5, FreshStartsSound DEF Fresh
  <2>2. QED
    BY <1>1, <1>4, <1>9, <2>1 DEF toggleFilePanel
<1>10. CASE PollTimer
  <2>1. "repo.status" \in Method /\ "poll" \in Thens["repo.status"]
    BY ThensOfMethods DEF Method
  <2>2. Goes(panel, panel', beside)
    BY <1>1, <1>10, <2>1, SendGoes DEF PollTimer, pollStatus
  <2>3. QED
    BY <1>3, <1>10, <2>2 DEF PollTimer
<1>11. CASE retry
  <2> DEFINE r == [panel EXCEPT !.fatal = None, !.error = FALSE, !.requested = TRUE]
  <2>1. panel' = pollStatus(loadDir(r, beside, Root, "stop", Root), beside) /\ beside' = beside
    BY <1>11 DEF retry
  <2>2. /\ r.fatal = "none" /\ r.requested /\ r.error = FALSE
        /\ r.status = panel.status /\ r.expanded = panel.expanded /\ r.dirs = panel.dirs
        /\ r.content = panel.content /\ r.diff = panel.diff /\ r.selected = panel.selected
        /\ r.calls = panel.calls /\ r.changedOnly = panel.changedOnly
    BY <1>1 DEF IsPanel, None
  <2>3. IsPanel(r)
    <3>1. "none" \in Gates
      BY DEF Gates, None
    <3>2. QED
      BY <1>1, <2>2, <3>1 DEF IsPanel, None
  <2> HIDE DEF r
  <2>4. ViewerOf(r) /\ \A p \in r.expanded : r.dirs[p].known \/ p = Root
    BY <1>1, <2>2 DEF SoundPanel, ViewerOf
  <2>5. Waits(r, panel', beside)
    BY <1>1, <2>1, <2>3, <2>4, FirstReadsAsk, GoesWaits
  <2>6. QED
    BY <2>1, <2>2, <2>5 DEF Waits, Lost, Asked
<1>12. CASE toggleChangedOnly
  BY <1>1, <1>3, <1>12, FilterGoes DEF toggleChangedOnly
<1>13. CASE showEveryFile
  <2> DEFINE t == [panel EXCEPT !.changedOnly = FALSE]
             u == reveal(t, beside, Root, "stop", panel.selected)
  <2>1. panel' = IF panel.selected = None THEN t ELSE u
    BY <1>13 DEF showEveryFile
  <2>2. Goes(panel, t, beside) /\ IsPanel(t)
    BY <1>1, FilterGoes
  <2> HIDE DEF t
  <2>3. panel.selected # None => Goes(t, u, beside)
    <3>1. panel.selected \in Path \cup {None} /\ "stop" \in Thens["repo.tree"]
      BY <1>1, ThensOfMethods DEF IsPanel
    <3>2. QED
      BY <1>1, <2>2, <3>1, RevealGoes
  <2> HIDE DEF u
  <2>4. Goes(panel, panel', beside)
    BY <1>1, <2>1, <2>2, <2>3, GoesOn
  <2>5. QED
    BY <1>3, <1>13, <2>4 DEF showEveryFile
<1>14. ASSUME NEW p \in Path, toggleDir(p) PROVE Kept
  <2> DEFINE t == [panel EXCEPT !.changedOnly = FALSE]
             u == reveal(t, beside, Root, "enter", p)
             v == [panel EXCEPT !.expanded = panel.expanded \ {p}]
             w == openDir(panel, beside, p)
  <2>1. panel' = IF panel.changedOnly THEN u ELSE IF p \in panel.expanded THEN v ELSE w
    BY <1>14 DEF toggleDir
  <2>2. Goes(panel, t, beside) /\ IsPanel(t)
    BY <1>1, FilterGoes
  <2> HIDE DEF t
  <2>3. Goes(t, u, beside)
    <3>1. "enter" \in Thens["repo.tree"]
      BY ThensOfMethods
    <3>2. QED
      BY <1>1, <2>2, <3>1, RevealGoes
  <2>4. Goes(panel, w, beside)
    BY <1>1, OpenDirGoes
  <2> HIDE DEF u, w
  <2>5. Waits(panel, u, beside) /\ Waits(panel, w, beside)
    BY <1>1, <2>2, <2>3, <2>4, GoesOn, GoesWaits
  <2>6. Waits(panel, v, beside)
    <3>1. v.dirs = panel.dirs /\ v.calls = panel.calls
      BY <1>1 DEF IsPanel
    <3> HIDE DEF v
    <3>2. QED
      BY <3>1 DEF Waits, Lost, Asked
  <2> HIDE DEF v
  <2>7. Waits(panel, panel', beside)
    BY <2>1, <2>5, <2>6
  <2>8. QED
    BY <1>2, <1>14, <2>7 DEF toggleDir
<1>15. ASSUME NEW p \in Path, OpenRow(p) PROVE Kept
  BY <1>1, <1>3, <1>15, OpenFileGoes DEF OpenRow
<1>16. ASSUME NEW p \in Path, submitGoto(p) PROVE Kept
  <2>1. "file.read" \in Method /\ "goto" \in Thens["file.read"]
    BY ThensOfMethods DEF Method
  <2>2. Goes(panel, panel', beside)
    BY <1>1, <1>16, <2>1, SendGoes DEF submitGoto
  <2>3. QED
    BY <1>3, <1>16, <2>2 DEF submitGoto
<1>17. ASSUME NEW c \in DOMAIN panel.calls, NEW a \in Answer[c.method][c.path], Answered(c, a)
       PROVE  Kept
  <2>1. Waits(panel, panel', beside) /\ beside' = beside
    BY <1>1, <1>17, AnswersWait DEF Answered
  <2>2. QED
    BY <1>2, <2>1
<1>18. QED
  BY <1>6, <1>7, <1>8, <1>9, <1>10, <1>11, <1>12, <1>13, <1>14, <1>15, <1>16, <1>17 DEF PanelNext

\* What stands open was asked for, and its answer is waited for until it has
\* come or the conversation has ended (toggleDir, reveal, loadDir, the effect
\* of file-panel.ts).
THEOREM OpenDirectoriesAreRead == PanelSpec => OpenIsRead
<1> DEFINE Kept == \A p \in Path : GivenUp(p)' => GivenUp(p) \/ panel'.fatal # None
<1>1. PanelInv /\ PanelInv' /\ [PanelNext]_panelVars => [OpenIsAsked' /\ Kept]_panelVars
  <2> SUFFICES ASSUME PanelInv, PanelInv', PanelNext PROVE OpenIsAsked' /\ Kept
    OBVIOUS
  <2>1. panel'.fatal # "none" \/ \A p \in Path : Lost(panel', beside', p) => Lost(panel, beside, p)
    BY PathAssumption, PanelAssumption, StepsWait
  <2>2. Kept
    BY <2>1 DEF GivenUp, CallInFlight, Lost, Asked, None
  <2>3. QED
    BY <2>2 DEF PanelInv
<1>2. [OpenIsAsked' /\ Kept]_panelVars =>
        [OpenIsAsked' /\ \A p \in Path : GivenUp(p)' => GivenUp(p) \/ panel'.fatal # None]_panelVars
  OBVIOUS
<1> HIDE DEF Kept
<1>3. QED
  BY <1>1, <1>2, PanelIsSound, PTL DEF PanelSpec, OpenIsRead

\* The panel keeps its types: what it shows, has opened and waits for is of
\* paths there are, whatever answers come in whatever order (file-panel.ts).
THEOREM PanelTypeCorrect == PanelSpec => []PanelTypeOK
<1>1. PanelInv => PanelTypeOK
  BY DEF PanelInv
<1>2. QED
  BY <1>1, PanelIsSound, PTL

-----------------------------------------------------------------------------
(* What was read stays drawn: FilePanel.                                   *)

\* A directory that was never asked for has nothing to draw.
UnreadIsEmpty(s) == \A p \in Path : ~s.dirs[p].known => s.dirs[p].entries = {}
\* s has the two signals that are drawn, and what the bridge said is in them.
HasRead(s) == "status" \in DOMAIN s /\ "dirs" \in DOMAIN s /\ s.dirs \in [Path -> Dir]
\* A directory as loadDir leaves it that was not read before.
FirstAsked == [known |-> TRUE, loading |-> TRUE, entries |-> {}, error |-> FALSE]
\* From s to t, at most one directory starts to load, and that was never read.
AsksForOne(s, t) ==
  /\ t.status = s.status
  /\ \/ t.dirs = s.dirs
     \/ \E p \in Path : ~s.dirs[p].known /\ t.dirs = [s.dirs EXCEPT ![p] = FirstAsked]
\* From s to t, nothing that is drawn goes away for want of an answer.
Lasts(s, t) ==
  /\ s.status.known => t.status.known
  /\ \A p \in Path : t.dirs[p].loading /\ ~s.dirs[p].loading
                      => t.dirs[p].entries = s.dirs[p].entries

LEMMA PanelsHaveRead ==
  ASSUME NEW s, IsPanel(s) PROVE HasRead(s)
  BY DEF IsPanel, HasRead

LEMMA SendLeavesWhatIsRead ==
  ASSUME NEW s, HasRead(s), NEW at, NEW method, NEW p, NEW then, NEW goal,
         NEW t, t = Send(s, at, method, p, then, goal)
  PROVE  HasRead(t) /\ t.status = s.status /\ t.dirs = s.dirs
<1> DEFINE b == Calls!BagAdd(s.calls, [method |-> method, path |-> p, of |-> at,
                                       then |-> then, goal |-> goal])
<1>1. t = [s EXCEPT !.calls = b]
  BY DEF Send
<1> HIDE DEF b
<1>2. QED
  BY <1>1 DEF HasRead

\* A load keeps what the directory lists, and so does a second one.
LEMMA LoadsKeepEntries ==
  ASSUME NEW s, HasRead(s), NEW at, NEW p \in Path, NEW then, NEW goal,
         NEW t, t = loadDir(s, at, p, then, goal)
  PROVE  /\ t.status = s.status
         /\ t.dirs = [s.dirs EXCEPT ![p] =
                        [known |-> TRUE, loading |-> TRUE, error |-> FALSE,
                         entries |-> IF s.dirs[p].known THEN s.dirs[p].entries ELSE {}]]
<1> DEFINE d == [known |-> TRUE, loading |-> TRUE, error |-> FALSE,
                 entries |-> IF s.dirs[p].known THEN s.dirs[p].entries ELSE {}]
           r == [s EXCEPT !.dirs = [s.dirs EXCEPT ![p] = d]]
<1>1. patchDir(s, p, [loading |-> TRUE, entries |-> {}, error |-> FALSE]) = r
  BY DEF patchDir, HasRead
<1>2. t = Send(r, at, "repo.tree", p, then, goal)
  BY <1>1 DEF loadDir
<1>3. d \in Dir
  <2>1. s.dirs[p].entries \in Entries /\ {} \in Entries
    BY DEF HasRead, Dir, Entries
  <2>2. QED
    BY <2>1 DEF Dir
<1> HIDE DEF d
<1>4. HasRead(r) /\ r.status = s.status /\ r.dirs = [s.dirs EXCEPT ![p] = d]
  BY <1>3 DEF HasRead
<1> HIDE DEF r
<1>5. t.status = r.status /\ t.dirs = r.dirs
  BY <1>2, <1>4, SendLeavesWhatIsRead
<1>6. QED
  BY <1>4, <1>5 DEF d

LEMMA FirstLoadsAskForOne ==
  ASSUME NEW s, HasRead(s), NEW at, NEW p \in Path, NEW then, NEW goal, ~s.dirs[p].known
  PROVE  AsksForOne(s, loadDir(s, at, p, then, goal))
<1> DEFINE t == loadDir(s, at, p, then, goal)
           d == [known |-> TRUE, loading |-> TRUE, error |-> FALSE,
                 entries |-> IF s.dirs[p].known THEN s.dirs[p].entries ELSE {}]
<1>1. FirstAsked = d
  BY DEF FirstAsked
<1>2. t.status = s.status /\ t.dirs = [s.dirs EXCEPT ![p] = d]
  BY LoadsKeepEntries
<1> HIDE DEF t, d
<1>3. AsksForOne(s, t)
  BY <1>1, <1>2 DEF AsksForOne
<1>4. QED
  BY <1>3 DEF t

LEMMA FilesAskForNoDirectory ==
  ASSUME NEW s, HasRead(s), NEW at, NEW goal
  PROVE  /\ AsksForOne(s, openFile(s, at, goal))
         /\ AsksForOne(s, Finish(s, at, "large", goal))
<1>1. ASSUME NEW r, HasRead(r) PROVE AsksForOne(r, readDiff(r, at, goal))
  <2> DEFINE d == [r EXCEPT !.diff = [kind |-> "loading", path |-> goal]]
  <2>1. HasRead(d) /\ d.status = r.status /\ d.dirs = r.dirs
    BY <1>1 DEF HasRead
  <2>2. readDiff(r, at, goal) = Send(d, at, "repo.diff", goal, "view", goal)
    BY DEF readDiff
  <2> HIDE DEF d
  <2>3. QED
    BY <2>1, <2>2, SendLeavesWhatIsRead DEF AsksForOne
<1>2. AsksForOne(s, openFile(s, at, goal))
  <2> DEFINE q == [s EXCEPT !.selected = goal]
             r == [q EXCEPT !.content = [kind |-> "loading", path |-> goal]]
             u == Send(r, at, "file.read", goal, "view", goal)
  <2>1. openFile(s, at, goal) = readDiff(u, at, goal)
    BY DEF openFile, readFile
  <2>2. HasRead(r) /\ r.status = s.status /\ r.dirs = s.dirs
    BY DEF HasRead
  <2> HIDE DEF r
  <2>3. HasRead(u) /\ u.status = s.status /\ u.dirs = s.dirs
    BY <2>2, SendLeavesWhatIsRead
  <2> HIDE DEF u
  <2>4. AsksForOne(u, readDiff(u, at, goal))
    BY <1>1, <2>3
  <2>5. QED
    BY <2>1, <2>3, <2>4 DEF AsksForOne
<1>3. AsksForOne(s, Finish(s, at, "large", goal))
  <2> DEFINE r == [s EXCEPT !.selected = goal,
                            !.content = [kind |-> "too-large", path |-> goal]]
  <2>1. Finish(s, at, "large", goal) = readDiff(r, at, goal)
    BY DEF Finish
  <2>2. HasRead(r) /\ r.status = s.status /\ r.dirs = s.dirs
    BY DEF HasRead
  <2> HIDE DEF r
  <2>3. QED
    BY <1>1, <2>1, <2>2 DEF AsksForOne
<1>4. QED
  BY <1>2, <1>3

LEMMA OpenDirAsksForOne ==
  ASSUME NEW s, HasRead(s), NEW at, NEW p \in Path
  PROVE  AsksForOne(s, openDir(s, at, p))
<1> DEFINE t == [s EXCEPT !.expanded = s.expanded \cup {p}]
<1>1. openDir(s, at, p) = IF s.dirs[p].known THEN t ELSE loadDir(t, at, p, "stop", p)
  BY DEF openDir
<1>2. HasRead(t) /\ t.status = s.status /\ t.dirs = s.dirs
  BY DEF HasRead
<1> HIDE DEF t
<1>3. CASE s.dirs[p].known
  BY <1>1, <1>2, <1>3 DEF AsksForOne
<1>4. CASE ~s.dirs[p].known
  BY <1>1, <1>2, <1>4, FirstLoadsAskForOne DEF AsksForOne
<1>5. QED
  BY <1>3, <1>4

LEMMA FinishAsksForOne ==
  ASSUME NEW s, HasRead(s), NEW at, NEW goal \in Path, NEW then \in Thens["repo.tree"]
  PROVE  AsksForOne(s, Finish(s, at, then, goal))
<1>1. then \in {"stop", "open", "enter", "large"}
  BY ThensOfMethods
<1>2. CASE then = "open"
  <2>1. Finish(s, at, then, goal) = openFile(s, at, goal)
    BY <1>2 DEF Finish
  <2>2. QED
    BY <2>1, FilesAskForNoDirectory
<1>3. CASE then = "enter"
  <2>1. Finish(s, at, then, goal) = openDir(s, at, goal)
    BY <1>3 DEF Finish
  <2>2. QED
    BY <2>1, OpenDirAsksForOne
<1>4. CASE then = "large"
  BY <1>4, FilesAskForNoDirectory
<1>5. CASE then = "stop"
  <2>1. Finish(s, at, then, goal) = s
    BY <1>5 DEF Finish
  <2>2. QED
    BY <2>1 DEF AsksForOne
<1>6. QED
  BY <1>1, <1>2, <1>3, <1>4, <1>5

LEMMA RevealAsksForOne ==
  ASSUME PathAssumption, NEW s, HasRead(s), NEW at,
         NEW from \in Path, NEW then \in Thens["repo.tree"], NEW goal \in Path
  PROVE  AsksForOne(s, reveal(s, at, from, then, goal))
<1> DEFINE levels == Above[goal] \ (Above[from] \cup {from, Root})
           unread == {p \in levels : ~s.dirs[p].known}
           next == CHOOSE p \in unread : Above[p] \cap unread = {}
           opened(x) == [s EXCEPT !.expanded = x]
           all == s.expanded \cup levels
           some == s.expanded \cup (levels \cap Above[next]) \cup {next}
<1>1. reveal(s, at, from, then, goal) =
        IF unread = {} THEN Finish(opened(all), at, then, goal)
        ELSE loadDir(opened(some), at, next, then, goal)
  BY DEF reveal
<1>2. \A x : HasRead(opened(x)) /\ opened(x).status = s.status /\ opened(x).dirs = s.dirs
  BY DEF HasRead
<1>3. unread \in SUBSET Path /\ \A p \in unread : ~s.dirs[p].known
  BY DEF PathAssumption
<1> HIDE DEF levels, unread, opened, all, some
<1>4. CASE unread = {}
  <2>1. AsksForOne(opened(all), Finish(opened(all), at, then, goal))
    BY <1>2, FinishAsksForOne
  <2>2. QED
    BY <1>1, <1>2, <1>4, <2>1 DEF AsksForOne
<1>5. CASE unread # {}
  <2>1. \E p \in unread : Above[p] \cap unread = {}
    BY <1>3, <1>5, SomeLevelIsNext
  <2>2. next \in unread
    BY <2>1
  <2> HIDE DEF next
  <2>3. next \in Path /\ ~opened(some).dirs[next].known
    BY <1>2, <1>3, <2>2
  <2>4. AsksForOne(opened(some), loadDir(opened(some), at, next, then, goal))
    BY <1>2, <2>3, FirstLoadsAskForOne
  <2>5. QED
    BY <1>1, <1>2, <1>5, <2>4 DEF AsksForOne
<1>6. QED
  BY <1>4, <1>5

\* What was never read is empty, so asking for it takes nothing away.
LEMMA AskingForOneLasts ==
  ASSUME NEW s, HasRead(s), UnreadIsEmpty(s), NEW t, AsksForOne(s, t)
  PROVE  UnreadIsEmpty(t) /\ Lasts(s, t)
<1>1. CASE t.dirs = s.dirs
  BY <1>1 DEF AsksForOne, UnreadIsEmpty, Lasts
<1>2. ASSUME NEW p \in Path, ~s.dirs[p].known, t.dirs = [s.dirs EXCEPT ![p] = FirstAsked]
      PROVE  UnreadIsEmpty(t) /\ Lasts(s, t)
  <2>1. \A q \in Path : t.dirs[q] = IF q = p THEN FirstAsked ELSE s.dirs[q]
    BY <1>2 DEF HasRead
  <2>2. FirstAsked.entries = {} /\ FirstAsked.known /\ s.dirs[p].entries = {}
    BY <1>2 DEF FirstAsked, UnreadIsEmpty
  <2>3. \A q \in Path : t.dirs[q] = s.dirs[q] \/ (q = p /\ t.dirs[q] = FirstAsked)
    BY <2>1
  <2> HIDE DEF FirstAsked
  <2>4. UnreadIsEmpty(t)
    BY <2>2, <2>3 DEF UnreadIsEmpty
  <2>5. Lasts(s, t)
    BY <2>2, <2>3 DEF Lasts, AsksForOne
  <2>6. QED
    BY <2>4, <2>5
<1>3. QED
  BY <1>1, <1>2 DEF AsksForOne

\* The first read of a pane, and a retry, ask for the root, read before or not.
LEMMA FirstReadsLast ==
  ASSUME Root \in Path, NEW s, HasRead(s), UnreadIsEmpty(s), NEW at,
         NEW t, t = pollStatus(loadDir(s, at, Root, "stop", Root), at)
  PROVE  UnreadIsEmpty(t) /\ Lasts(s, t)
<1> DEFINE d == [known |-> TRUE, loading |-> TRUE, error |-> FALSE,
                 entries |-> IF s.dirs[Root].known THEN s.dirs[Root].entries ELSE {}]
           u == loadDir(s, at, Root, "stop", Root)
<1>1. u.status = s.status /\ u.dirs = [s.dirs EXCEPT ![Root] = d]
  BY LoadsKeepEntries
<1>2. d.known /\ d.entries = s.dirs[Root].entries
  BY DEF UnreadIsEmpty
<1>3. DOMAIN u = DOMAIN s
  BY DEF loadDir, Send, patchDir
<1>4. d \in Dir
  <2>1. s.dirs[Root].entries \in Entries
    BY DEF HasRead, Dir
  <2>2. QED
    BY <1>2, <2>1 DEF Dir
<1> HIDE DEF d, u
<1>5. HasRead(u)
  BY <1>1, <1>3, <1>4 DEF HasRead
<1>6. t.status = u.status /\ t.dirs = u.dirs
  BY <1>5, SendLeavesWhatIsRead DEF pollStatus, u
<1>7. \A q \in Path : t.dirs[q] = s.dirs[q] \/ (q = Root /\ t.dirs[q] = d)
  BY <1>1, <1>6 DEF HasRead
<1>8. UnreadIsEmpty(t)
  BY <1>2, <1>7 DEF UnreadIsEmpty
<1>9. Lasts(s, t)
  BY <1>1, <1>2, <1>6, <1>7 DEF Lasts
<1>10. QED
  BY <1>8, <1>9

LEMMA FirstReadLasts ==
  ASSUME Root \in Path, NEW s, HasRead(s), UnreadIsEmpty(s), NEW at, NEW proj,
         NEW t, t = FirstRead(s, at, proj)
  PROVE  UnreadIsEmpty(t) /\ Lasts(s, t)
<1> DEFINE r == [s EXCEPT !.requested = TRUE]
<1>1. t = IF gate(proj, s) = "ready" /\ ~s.requested
          THEN pollStatus(loadDir(r, at, Root, "stop", Root), at) ELSE s
  BY DEF FirstRead
<1>2. HasRead(r) /\ UnreadIsEmpty(r) /\ r.status = s.status /\ r.dirs = s.dirs
  BY DEF HasRead, UnreadIsEmpty
<1> HIDE DEF r
<1>3. CASE gate(proj, s) = "ready" /\ ~s.requested
  <2>1. UnreadIsEmpty(t) /\ Lasts(r, t)
    BY <1>1, <1>2, <1>3, FirstReadsLast
  <2>2. QED
    BY <1>2, <2>1 DEF Lasts
<1>4. CASE ~(gate(proj, s) = "ready" /\ ~s.requested)
  BY <1>1, <1>4 DEF Lasts
<1>5. QED
  BY <1>3, <1>4

LEMMA FreshIsUnread ==
  ASSUME NEW B PROVE HasRead(FreshBut(B)) /\ UnreadIsEmpty(FreshBut(B))
<1> DEFINE s == FreshBut(B)
<1>1. s.dirs = [p \in Path |-> Unread] /\ "status" \in DOMAIN s /\ "dirs" \in DOMAIN s
  BY DEF FreshBut
<1>2. Unread \in Dir /\ Unread.entries = {}
  BY DEF Unread, Dir, Entries
<1> HIDE DEF s
<1>3. HasRead(s) /\ UnreadIsEmpty(s)
  BY <1>1, <1>2 DEF HasRead, UnreadIsEmpty
<1>4. QED
  BY <1>3 DEF s

\* An answer replaces what it is about, and shows at once what it brings.
LEMMA AnswersLast ==
  ASSUME PathAssumption, PanelAssumption, beside \in Terminal,
         SoundPanel(panel, beside), UnreadIsEmpty(panel), NEW c \in DOMAIN panel.calls,
         NEW a \in Answer[c.method][c.path], Answered(c, a)
  PROVE  UnreadIsEmpty(panel') /\ Lasts(panel, panel')
<1> DEFINE s == Settle(c)
           b == Calls!BagRemove(panel.calls, c)
<1>1. c \in Call
  BY SettleKeeps
<1>2. HasRead(s) /\ UnreadIsEmpty(s) /\ s.status = panel.status /\ s.dirs = panel.dirs
  <2>1. s = [panel EXCEPT !.calls = b]
    BY DEF Settle
  <2> HIDE DEF b, s
  <2>2. s.status = panel.status /\ s.dirs = panel.dirs /\ DOMAIN s = DOMAIN panel
    BY <2>1 DEF SoundPanel, IsPanel
  <2>3. HasRead(panel)
    BY PanelsHaveRead DEF SoundPanel
  <2>4. QED
    BY <2>2, <2>3 DEF HasRead, UnreadIsEmpty
<1> HIDE DEF s
<1>3. /\ c.method \in Method /\ c.path \in Path /\ c.goal \in Path
      /\ c.then \in Thens[c.method]
  BY <1>1, CallsByMethod
<1>4. /\ a.ok \in BOOLEAN
      /\ a.ok /\ c.method \in {"repo.status", "repo.tree"} => a.entries \in Entries
  BY <1>3, AnswerType
<1>5. Root \in Path
  BY DEF PathAssumption
<1>6. AsksForOne(s, s) /\ AsksForOne(s, takeFatal(s, a.code))
  BY <1>2 DEF AsksForOne, takeFatal, HasRead
<1>7. \/ c.method = "repo.status" /\ c.then = "poll"
      \/ c.method = "repo.tree" /\ c.then \in {"stop", "open", "enter", "large"}
      \/ c.method = "file.read" /\ c.then = "view"
      \/ c.method = "file.read" /\ c.then = "goto"
      \/ c.method = "repo.diff" /\ c.then = "view"
  BY <1>3, ThensOfMethods DEF Method
<1>8. panel' = CASE c.then = "goto" -> GotoAnswer(s, c, a)
                 [] c.method = "repo.status" -> StatusAnswer(s, c, a)
                 [] c.method = "repo.tree" -> TreeAnswer(s, c, a)
                 [] c.method = "file.read" /\ c.then = "view" -> ReadAnswer(s, c, a)
                 [] c.method = "repo.diff" -> DiffAnswer(s, c, a)
  BY DEF Answered, s
<1> DEFINE Kept(t) == UnreadIsEmpty(t) /\ Lasts(s, t)
<1> SUFFICES Kept(panel')
  BY <1>2 DEF Lasts
<1>9. ASSUME NEW t, AsksForOne(s, t) PROVE Kept(t)
  BY <1>2, <1>9, AskingForOneLasts
<1>10. CASE c.method = "repo.status" /\ c.then = "poll"
  <2>1. panel' = StatusAnswer(s, c, a)
    BY <1>8, <1>10
  <2>2. CASE IsFatal(a)
    BY <1>6, <1>9, <2>1, <2>2 DEF StatusAnswer
  <2>3. CASE ~IsFatal(a)
    <3>1. panel'.dirs = s.dirs /\ (panel'.status = s.status \/ panel'.status.known)
      BY <1>2, <2>1, <2>3 DEF StatusAnswer, HasRead
    <3>2. QED
      BY <1>2, <3>1 DEF UnreadIsEmpty, Lasts
  <2>4. QED
    BY <2>2, <2>3
<1>11. CASE c.method = "repo.tree" /\ c.then \in {"stop", "open", "enter", "large"}
  <2> DEFINE entries == IF a.ok THEN a.entries ELSE {}
             d == [known |-> TRUE, loading |-> FALSE, error |-> ~a.ok, entries |-> entries]
             state == [loading |-> FALSE, error |-> ~a.ok, entries |-> entries]
             r == IF IsFatal(a) THEN takeFatal(s, a.code) ELSE patchDir(s, c.path, state)
             t == reveal(r, beside, c.path, c.then, c.goal)
  <2>1. panel' = IF c.goal = c.path THEN r ELSE t
    <3>1. panel' = TreeAnswer(s, c, a)
      BY <1>8, <1>11
    <3>2. QED
      BY <3>1 DEF TreeAnswer
  <2>2. d \in Dir /\ d.known /\ ~d.loading
    <3>1. {} \in Entries
      BY DEF Entries
    <3>2. QED
      BY <1>4, <1>11, <3>1 DEF Dir
  <2>3. ~IsFatal(a) => r = [s EXCEPT !.dirs = [s.dirs EXCEPT ![c.path] = d]]
    BY <1>2 DEF patchDir, HasRead
  <2>4. IsFatal(a) => r = takeFatal(s, a.code)
    OBVIOUS
  <2> HIDE DEF d, r
  <2>5. HasRead(r) /\ r.status = s.status
    BY <1>2, <2>2, <2>3, <2>4 DEF HasRead, takeFatal
  <2>6. \A q \in Path : r.dirs[q] = s.dirs[q] \/ (q = c.path /\ r.dirs[q] = d)
    BY <1>2, <1>3, <2>3, <2>4 DEF HasRead, takeFatal
  <2>7. UnreadIsEmpty(r)
    BY <1>2, <2>2, <2>6 DEF UnreadIsEmpty
  <2>8. \A q \in Path : ~(r.dirs[q].loading /\ ~s.dirs[q].loading)
    BY <2>2, <2>6
  <2>9. CASE c.goal = c.path
    BY <2>1, <2>5, <2>7, <2>8, <2>9 DEF Lasts
  <2>10. CASE c.goal # c.path
    <3>1. AsksForOne(r, t)
      BY <1>3, <1>11, <2>5, RevealAsksForOne
    <3> HIDE DEF t
    <3>2. UnreadIsEmpty(t) /\ Lasts(r, t)
      BY <2>5, <2>7, <3>1, AskingForOneLasts
    <3>3. Lasts(s, t)
      <4>1. ASSUME NEW q \in Path, t.dirs[q].loading, ~s.dirs[q].loading
            PROVE  t.dirs[q].entries = s.dirs[q].entries
        <5>1. r.dirs[q] = s.dirs[q] \/ (q = c.path /\ r.dirs[q] = d)
          BY <2>6
        <5>2. ~r.dirs[q].loading /\ t.dirs[q] # r.dirs[q]
          BY <2>2, <4>1, <5>1
        <5>3. ~r.dirs[q].known
          <6>1. PICK p \in Path : ~r.dirs[p].known /\ t.dirs = [r.dirs EXCEPT ![p] = FirstAsked]
            BY <3>1, <5>2 DEF AsksForOne
          <6>2. q = p
            BY <2>5, <5>2, <6>1 DEF HasRead
          <6>3. QED
            BY <6>1, <6>2
        <5>4. r.dirs[q] = s.dirs[q]
          BY <2>2, <5>1, <5>3
        <5>5. QED
          BY <3>2, <4>1, <5>2, <5>4 DEF Lasts
      <4>2. QED
        BY <2>5, <3>2, <4>1 DEF Lasts
    <3>4. QED
      BY <2>1, <2>10, <3>2, <3>3
  <2>11. QED
    BY <2>9, <2>10
<1>12. CASE c.method = "file.read" /\ c.then = "view"
  <2>1. panel' = ReadAnswer(s, c, a)
    BY <1>8, <1>12
  <2>2. AsksForOne(s, panel')
    BY <1>2, <1>6, <2>1 DEF ReadAnswer, AsksForOne, HasRead
  <2>3. QED
    BY <1>9, <2>2
<1>13. CASE c.method = "repo.diff" /\ c.then = "view"
  <2>1. panel' = DiffAnswer(s, c, a)
    BY <1>8, <1>13
  <2>2. AsksForOne(s, panel')
    BY <1>2, <1>6, <2>1 DEF DiffAnswer, AsksForOne, HasRead
  <2>3. QED
    BY <1>9, <2>2
<1>14. CASE c.method = "file.read" /\ c.then = "goto"
  <2> DEFINE opened(then) == reveal(s, beside, Root, then, c.path)
  <2>1. panel' = GotoAnswer(s, c, a)
    BY <1>8, <1>14
  <2>2. \A then \in {"open", "enter", "large"} : AsksForOne(s, opened(then))
    BY <1>2, <1>3, <1>5, RevealAsksForOne, ThensOfMethods
  <2>3. panel' \in {opened("open"), opened("enter"), opened("large"),
                    takeFatal(s, a.code), s}
    BY <2>1 DEF GotoAnswer
  <2> HIDE DEF opened
  <2>4. AsksForOne(s, panel')
    BY <1>6, <2>2, <2>3
  <2>5. QED
    BY <1>9, <2>4
<1>15. QED
  BY <1>7, <1>10, <1>11, <1>12, <1>13, <1>14

\* What the operator, the poll and the pane's project may do to the panel that
\* is open, but for the answers.
LEMMA StepsLast ==
  ASSUME PathAssumption, PanelAssumption, PanelInv, UnreadIsEmpty(panel),
         [PanelNext]_panelVars
  PROVE  /\ UnreadIsEmpty(panel')
         /\ beside' = beside /\ ~toggleFilePanel => Lasts(panel, panel')
<1>1. /\ beside \in Terminal /\ SoundPanel(panel, beside) /\ IsPanel(panel)
  BY InvOfThePanel DEF SoundPanel
<1>2. Root \in Path
  BY DEF PathAssumption
<1>3. HasRead(panel)
  BY <1>1, PanelsHaveRead
<1> DEFINE Kept == UnreadIsEmpty(panel') /\ Lasts(panel, panel')
<1>4. ASSUME AsksForOne(panel, panel') PROVE Kept
  BY <1>3, <1>4, AskingForOneLasts
<1>5. ASSUME NEW s, HasRead(s), s.status = panel.status, s.dirs = panel.dirs,
             AsksForOne(s, panel')
      PROVE  Kept
  BY <1>4, <1>5 DEF AsksForOne
<1>6. ASSUME NEW p \in Terminal, SwitchPane(p)
      PROVE  UnreadIsEmpty(panel') /\ beside' # beside
  <2>1. PICK proj \in Project : panel' = FirstRead(reset(panel), p, proj)
    BY <1>6 DEF SwitchPane
  <2>2. HasRead(reset(panel)) /\ UnreadIsEmpty(reset(panel))
    BY FreshIsUnread DEF reset
  <2>3. UnreadIsEmpty(panel')
    BY <1>2, <2>1, <2>2, FirstReadLasts
  <2>4. QED
    BY <1>6, <2>3 DEF SwitchPane
<1>7. ASSUME NEW proj \in Project, ProjectChanges(proj) PROVE Kept
  BY <1>2, <1>3, <1>7, FirstReadLasts DEF ProjectChanges
<1>8. CASE PausedChanges
  BY <1>8 DEF PausedChanges, Lasts
<1>9. ASSUME toggleFilePanel PROVE UnreadIsEmpty(panel')
  <2>1. HasRead(Fresh) /\ UnreadIsEmpty(Fresh)
    BY FreshIsUnread DEF Fresh
  <2>2. QED
    BY <1>2, <1>9, <2>1, FirstReadLasts DEF toggleFilePanel
<1>10. CASE PollTimer
  <2>1. panel' = Send(panel, beside, "repo.status", Root, "poll", Root)
    BY <1>10 DEF PollTimer, pollStatus
  <2>2. AsksForOne(panel, panel')
    BY <1>3, <2>1, SendLeavesWhatIsRead DEF AsksForOne
  <2>3. QED
    BY <1>4, <2>2
<1>11. CASE retry
  <2> DEFINE r == [panel EXCEPT !.fatal = None, !.error = FALSE, !.requested = TRUE]
  <2>1. panel' = pollStatus(loadDir(r, beside, Root, "stop", Root), beside)
    BY <1>11 DEF retry
  <2>2. HasRead(r) /\ UnreadIsEmpty(r) /\ r.status = panel.status /\ r.dirs = panel.dirs
    BY <1>3 DEF HasRead, UnreadIsEmpty
  <2> HIDE DEF r
  <2>3. UnreadIsEmpty(panel') /\ Lasts(r, panel')
    BY <1>2, <2>1, <2>2, FirstReadsLast
  <2>4. QED
    BY <2>2, <2>3 DEF Lasts
<1>12. CASE toggleChangedOnly
  <2>1. AsksForOne(panel, panel')
    BY <1>3, <1>12 DEF toggleChangedOnly, AsksForOne, HasRead
  <2>2. QED
    BY <1>4, <2>1
<1>13. "stop" \in Thens["repo.tree"] /\ "enter" \in Thens["repo.tree"]
  BY ThensOfMethods
<1> DEFINE all == [panel EXCEPT !.changedOnly = FALSE]
<1>14. HasRead(all) /\ all.status = panel.status /\ all.dirs = panel.dirs
       /\ all.selected = panel.selected
  BY <1>1, <1>3 DEF HasRead, IsPanel
<1>15. CASE showEveryFile
  <2>1. panel' = IF panel.selected = None THEN all
                 ELSE reveal(all, beside, Root, "stop", panel.selected)
    BY <1>15 DEF showEveryFile
  <2> HIDE DEF all
  <2>2. AsksForOne(all, panel')
    <3>1. CASE panel.selected = None
      BY <2>1, <3>1 DEF AsksForOne
    <3>2. CASE panel.selected # None
      <4>1. panel.selected \in Path
        BY <1>1, <3>2 DEF IsPanel
      <4>2. QED
        BY <1>2, <1>13, <1>14, <2>1, <3>2, <4>1, RevealAsksForOne
    <3>3. QED
      BY <3>1, <3>2
  <2>3. QED
    BY <1>5, <1>14, <2>2
<1>16. ASSUME NEW p \in Path, toggleDir(p) PROVE Kept
  <2> DEFINE shut == [panel EXCEPT !.expanded = panel.expanded \ {p}]
  <2>1. panel' = IF panel.changedOnly THEN reveal(all, beside, Root, "enter", p)
                 ELSE IF p \in panel.expanded THEN shut ELSE openDir(panel, beside, p)
    BY <1>16 DEF toggleDir
  <2> HIDE DEF all
  <2>2. CASE panel.changedOnly
    <3>1. AsksForOne(all, panel')
      BY <1>2, <1>13, <1>14, <2>1, <2>2, RevealAsksForOne
    <3>2. QED
      BY <1>5, <1>14, <3>1
  <2>3. CASE ~panel.changedOnly /\ p \in panel.expanded
    <3>1. AsksForOne(panel, shut)
      BY <1>3 DEF AsksForOne, HasRead
    <3>2. QED
      BY <1>4, <2>1, <2>3, <3>1
  <2>4. CASE ~panel.changedOnly /\ p \notin panel.expanded
    <3>1. AsksForOne(panel, openDir(panel, beside, p))
      BY <1>3, OpenDirAsksForOne
    <3>2. QED
      BY <1>4, <2>1, <2>4, <3>1
  <2>5. QED
    BY <2>2, <2>3, <2>4
<1>17. ASSUME NEW p \in Path, OpenRow(p) PROVE Kept
  <2>1. AsksForOne(panel, panel')
    BY <1>3, <1>17, FilesAskForNoDirectory DEF OpenRow
  <2>2. QED
    BY <1>4, <2>1
<1>18. ASSUME NEW p \in Path, submitGoto(p) PROVE Kept
  <2>1. panel' = Send(panel, beside, "file.read", p, "goto", p)
    BY <1>18 DEF submitGoto
  <2>2. AsksForOne(panel, panel')
    BY <1>3, <2>1, SendLeavesWhatIsRead DEF AsksForOne
  <2>3. QED
    BY <1>4, <2>2
<1>19. ASSUME NEW c \in DOMAIN panel.calls, NEW a \in Answer[c.method][c.path],
              Answered(c, a)
       PROVE  Kept
  BY <1>1, <1>19, AnswersLast
<1>20. CASE UNCHANGED panelVars
  BY <1>20 DEF panelVars, Lasts
<1> HIDE DEF all
<1>21. QED
  BY <1>6, <1>7, <1>8, <1>9, <1>10, <1>11, <1>12, <1>15, <1>16, <1>17, <1>18, <1>19, <1>20
     DEF PanelNext

\* A failed poll, a retry and a reload leave on screen what was read of this
\* pane, until something newer comes (patchDir and retry of file-panel.ts).
THEOREM WhatWasReadStays == PanelSpec => NothingBlinks
<1> DEFINE NeverFilled == UnreadIsEmpty(panel)
<1>1. PanelInit => NeverFilled
  <2> SUFFICES ASSUME PanelInit PROVE NeverFilled
    OBVIOUS
  <2>1. HasRead(Fresh) /\ UnreadIsEmpty(Fresh)
    BY FreshIsUnread DEF Fresh
  <2>2. Root \in Path
    BY PathAssumption DEF PathAssumption
  <2>3. QED
    BY <2>1, <2>2, FirstReadLasts DEF PanelInit
<1>2. PanelInv /\ NeverFilled /\ [PanelNext]_panelVars => NeverFilled'
  BY PathAssumption, PanelAssumption, StepsLast
<1> DEFINE Stays ==
      /\ beside' = beside
      /\ panel'.requested
      /\ ~toggleFilePanel
      => /\ panel.status.known => panel'.status.known
         /\ \A p \in Path : panel'.dirs[p].loading /\ ~panel.dirs[p].loading
                             => panel'.dirs[p].entries = panel.dirs[p].entries
<1>3. PanelInv /\ NeverFilled /\ [PanelNext]_panelVars => [Stays]_panelVars
  BY PathAssumption, PanelAssumption, StepsLast DEF Lasts
<1> HIDE DEF NeverFilled
<1>4. QED
  BY <1>1, <1>2, <1>3, PanelIsSound, PTL DEF PanelSpec, NothingBlinks
=============================================================================
