--------------------------- MODULE HostLinkProofs ---------------------------
(***************************************************************************)
(* Proofs about HostLink for any number of overlapping attempts and any    *)
(* number of outages.                                                      *)
(*                                                                         *)
(* The properties are not inductive: an acknowledgement ends the           *)
(* subscription that was there when its attempt began to subscribe, so it  *)
(* must be the one there is now (PreviousIsLast); a superseded attempt     *)
(* ends without a retry, so somebody else must be on the way               *)
(* (Responsible); an attempt owns no socket before it is acknowledged      *)
(* (Unborn); and the socket whose end is heeded is the subscription's      *)
(* (Watched).                                                              *)
(*                                                                         *)
(* The second part is about the other link, the browser's: CardActions     *)
(* with its Connection and its ToastStack, for any cards, views and        *)
(* requests; the two share no variable.                                    *)
(***************************************************************************)
EXTENDS HostLink, CardActions, WellFoundedInduction, TLAPS

\* The subscription the current attempt will end is the one there is.
PreviousIsLast ==
  \A a \in Attempt : phase[a] = "subscribing" /\ generation = a =>
                       subscription \in {previous[a], NoAttempt}

\* The call that connects next: it is seeding, or it is the current one.
Responsible ==
  started /\ ~stopped /\ ~connected =>
    \/ timer \/ lostTimers > 0
    \/ \E a \in Attempt : phase[a] = "seeding"
    \/ \E a \in Attempt : phase[a] = "subscribing" /\ generation = a

\* An attempt under way has no subscription yet.
Unborn == \A a \in Attempt : phase[a] # "idle" => socket[a] = "closed" /\ subscription # a

\* The current attempt's open socket is the subscription, if there is one.
Watched ==
  \A a \in Attempt : phase[a] = "idle" /\ generation = a /\ socket[a] # "closed" =>
                       subscription \in {a, NoAttempt}

IInv ==
  /\ TypeOK
  /\ OneSubscription
  /\ PreviousIsLast
  /\ Responsible
  /\ ConnectedIsWatched
  /\ Unborn
  /\ Watched

-----------------------------------------------------------------------------

\* The markers are no attempts.
LEMMA Markers == NoAttempt \notin Attempt /\ Stopping \notin Attempt
  BY LinkAssumption

\* The runtime starts in the invariant.
LEMMA InitHolds == Init => IInv
<1> SUFFICES ASSUME Init PROVE IInv
  OBVIOUS
<1>1. TypeOK
  BY DEF Init, TypeOK
<1>2. OneSubscription /\ PreviousIsLast /\ Unborn /\ Watched
  BY Markers DEF Init, OneSubscription, PreviousIsLast, Unborn, Watched
<1>3. ~started /\ ~connected
  BY DEF Init
<1>4. Responsible /\ ConnectedIsWatched
  BY <1>3 DEF Responsible, ConnectedIsWatched
<1> QED
  BY <1>1, <1>2, <1>4 DEF IInv

\* Half-closing a socket keeps the type and touches no other socket.
LEMMA EndedType ==
  ASSUME TypeOK, NEW a \in Attempt \cup {NoAttempt}
  PROVE  /\ Ended(a) \in [Attempt -> {"closed", "live", "ending", "failing"}]
         /\ \A b \in Attempt : b # a => Ended(a)[b] = socket[b]
         /\ a \in Attempt => Ended(a)[a] # "live"
         /\ \A b \in Attempt : socket[b] = "closed" => Ended(a)[b] = "closed"
  BY Markers DEF Ended, TypeOK

\* A retry is pending afterwards, unless the runtime was stopped.
LEMMA Schedules ==
  ASSUME TypeOK, ScheduleReconnect
  PROVE  timer' \in BOOLEAN /\ lostTimers' \in Nat /\ (~stopped => timer')
<1>1. timer' \in BOOLEAN
  BY Zenon DEF ScheduleReconnect, TypeOK
<1>2. lostTimers' \in Nat
  BY DEF ScheduleReconnect, TypeOK
<1>3. ~stopped => timer'
  BY Zenon DEF ScheduleReconnect, TypeOK
<1> QED
  BY <1>1, <1>2, <1>3

\* A call of connectOnce begins: Start, TimerFires, LostTimerFires.
LEMMA BeginStep ==
  ASSUME IInv, NEW a \in Attempt, Start(a) \/ TimerFires(a) \/ LostTimerFires(a)
  PROVE  IInv'
<1>1. /\ phase' = [phase EXCEPT ![a] = "seeding"]
      /\ phase[a] = "idle" /\ socket[a] = "closed" /\ subscription # a
      /\ UNCHANGED <<up, stopped, generation, connected, subscription, previous, socket>>
  BY DEF Start, TimerFires, LostTimerFires, ConnectOnce, Free
<1>2. TypeOK'
  <2>1. lostTimers' \in Nat
    BY DEF IInv, TypeOK, Start, TimerFires, LostTimerFires
  <2>2. timer' \in BOOLEAN /\ started' \in BOOLEAN
    BY Zenon DEF IInv, TypeOK, Start, TimerFires, LostTimerFires
  <2> QED
    BY <1>1, <2>1, <2>2 DEF IInv, TypeOK
<1>3. OneSubscription' /\ PreviousIsLast' /\ ConnectedIsWatched'
  BY <1>1 DEF IInv, TypeOK, OneSubscription, PreviousIsLast, ConnectedIsWatched, Current
<1>5. Unborn' /\ Watched'
  BY <1>1 DEF IInv, TypeOK, Unborn, Watched
<1>4. Responsible'
  <2>1. phase'[a] = "seeding"
    BY <1>1 DEF IInv, TypeOK
  <2> QED
    BY <2>1, Zenon DEF Responsible
<1> QED
  BY <1>2, <1>3, <1>4, <1>5 DEF IInv

\* An attempt becomes the current one.
LEMMA SeededStep == ASSUME IInv, NEW a \in Attempt, Seeded(a) PROVE IInv'
<1>1. /\ phase' = [phase EXCEPT ![a] = "subscribing"] /\ phase[a] = "seeding"
      /\ previous' = [previous EXCEPT ![a] = subscription]
      /\ generation' = a
      /\ UNCHANGED <<up, started, stopped, connected, subscription, timer, lostTimers, socket>>
  BY DEF Seeded
<1> QED
  BY <1>1 DEF IInv, TypeOK, OneSubscription, PreviousIsLast, Responsible,
     ConnectedIsWatched, Unborn, Watched, Current

\* The current attempt's subscription replaces the one before it.
LEMMA KeptStep ==
  ASSUME IInv, NEW a \in Attempt, Acknowledged(a), Current(a)
  PROVE  IInv'
<1>1. /\ phase[a] = "subscribing" /\ generation = a
      /\ phase' = [phase EXCEPT ![a] = "idle"]
      /\ previous' = [previous EXCEPT ![a] = NoAttempt]
      /\ subscription' = a /\ connected' = TRUE
      /\ socket' = [Ended(previous[a]) EXCEPT ![a] = "live"]
      /\ UNCHANGED <<up, started, stopped, generation, timer, lostTimers>>
  BY DEF Acknowledged, Current
<1>2. previous[a] \in Attempt \cup {NoAttempt} /\ TypeOK
  BY DEF IInv, TypeOK
<1>3. TypeOK'
  BY <1>1, <1>2, EndedType DEF TypeOK
<1>4. \A b \in Attempt : b # a => socket'[b] # "live"
  <2> SUFFICES ASSUME NEW b \in Attempt, b # a PROVE Ended(previous[a])[b] # "live"
    BY <1>1, <1>2, EndedType
  <2>1. CASE b = previous[a]
    BY <1>2, <2>1, EndedType
  <2>2. CASE b # previous[a]
    <3>1. socket[b] = "live" => b = subscription
      BY DEF IInv, OneSubscription
    <3>2. subscription \in {previous[a], NoAttempt}
      BY <1>1 DEF IInv, PreviousIsLast
    <3> QED
      BY <1>2, <2>2, <3>1, <3>2, EndedType, Markers
  <2> QED
    BY <2>1, <2>2
<1>5. socket'[a] = "live" /\ \A b \in Attempt : phase'[b] # "idle" => socket'[b] = "closed" /\ b # a
  BY <1>1, <1>2, EndedType DEF IInv, Unborn, TypeOK
<1>6. OneSubscription' /\ Unborn' /\ ConnectedIsWatched' /\ Responsible'
  BY <1>1, <1>4, <1>5, Markers DEF OneSubscription, Unborn, ConnectedIsWatched, Responsible, Current
<1>7. PreviousIsLast' /\ Watched'
  BY <1>1, <1>2 DEF PreviousIsLast, Watched, TypeOK
<1> QED
  BY <1>3, <1>6, <1>7 DEF IInv

\* The subscription of a superseded attempt is closed at once.
LEMMA SupersededStep ==
  ASSUME IInv, NEW a \in Attempt, Acknowledged(a), ~Current(a)
  PROVE  IInv'
<1>1. /\ phase[a] = "subscribing" /\ generation # a
      /\ phase' = [phase EXCEPT ![a] = "idle"]
      /\ previous' = [previous EXCEPT ![a] = NoAttempt]
      /\ socket' = [socket EXCEPT ![a] = "ending"]
      /\ UNCHANGED <<up, started, stopped, generation, connected, subscription, timer, lostTimers>>
  BY DEF Acknowledged, Current
<1>2. subscription # a
  BY <1>1 DEF IInv, Unborn
<1> QED
  BY <1>1, <1>2 DEF IInv, TypeOK, OneSubscription, PreviousIsLast, Responsible,
     ConnectedIsWatched, Unborn, Watched, Current

\* A failed attempt leaves a retry behind.
LEMMA FailsStep == ASSUME IInv, NEW a \in Attempt, Fails(a) PROVE IInv'
<1>1. /\ phase' = [phase EXCEPT ![a] = "idle"]
      /\ previous' = [previous EXCEPT ![a] = NoAttempt]
      /\ connected' = FALSE
      /\ UNCHANGED <<up, started, stopped, generation, subscription, socket>>
  BY DEF Fails
<1>2. timer' \in BOOLEAN /\ lostTimers' \in Nat /\ (~stopped => timer')
  BY Schedules DEF IInv, Fails
<1> QED
  BY <1>1, <1>2 DEF IInv, TypeOK, OneSubscription, PreviousIsLast, Responsible,
     ConnectedIsWatched, Unborn, Watched

\* The end of a socket is noticed if it is the current one.
LEMMA SocketStep ==
  ASSUME IInv, NEW a \in Attempt, SocketError(a) \/ SocketClose(a)
  PROVE  IInv'
<1>1. /\ \E s \in {"failing", "closed"} : socket' = [socket EXCEPT ![a] = s]
      /\ socket[a] # "closed"
      /\ Disconnect(a)
      /\ UNCHANGED <<up, started, stopped, generation, phase, previous>>
  BY DEF SocketError, SocketClose
<1>2. phase[a] = "idle"
  BY <1>1 DEF IInv, Unborn, TypeOK
<1>3. CASE Current(a)
  <2>1. subscription' = NoAttempt /\ connected' = FALSE /\ ScheduleReconnect
    BY <1>1, <1>3 DEF Disconnect
  <2>2. timer' \in BOOLEAN /\ lostTimers' \in Nat /\ (~stopped => timer')
    BY <2>1, Schedules DEF IInv
  <2>3. \A b \in Attempt : socket'[b] # "live"
    <3>1. \A b \in Attempt : socket[b] = "live" => b = subscription
      BY DEF IInv, OneSubscription
    <3>2. subscription # NoAttempt /\ socket[subscription] = "live" => subscription = a
      BY <1>1, <1>2, <1>3, Markers DEF IInv, Watched, Current
    <3> QED
      BY <1>1, <3>1, <3>2, Markers DEF IInv, TypeOK
  <2> QED
    BY <1>1, <1>2, <2>1, <2>2, <2>3, Markers
    DEF IInv, TypeOK, OneSubscription, PreviousIsLast, Responsible, ConnectedIsWatched, Unborn, Watched
<1>4. CASE ~Current(a)
  <2>1. UNCHANGED <<subscription, connected, timer, lostTimers>>
    BY <1>1, <1>4 DEF Disconnect
  <2> QED
    BY <1>1, <1>2, <1>4, <2>1
    DEF IInv, TypeOK, OneSubscription, PreviousIsLast, Responsible, ConnectedIsWatched, Unborn, Watched, Current
<1> QED
  BY <1>3, <1>4

\* stop() closes the one subscription and lets nothing be current.
LEMMA StopStep == ASSUME IInv, Stop PROVE IInv'
<1>1. /\ stopped' /\ generation' = Stopping /\ timer' = FALSE
      /\ socket' = Ended(subscription) /\ subscription' = NoAttempt
      /\ UNCHANGED <<up, started, connected, lostTimers, phase, previous>>
  BY DEF Stop
<1>2. TypeOK /\ subscription \in Attempt \cup {NoAttempt} /\ stopped' \in BOOLEAN
  BY DEF IInv, TypeOK, Stop
<1>3. TypeOK'
  BY <1>1, <1>2, EndedType DEF TypeOK
<1>4. \A b \in Attempt : socket'[b] # "live"
  <2>1. \A b \in Attempt : socket[b] = "live" => b = subscription
    BY DEF IInv, OneSubscription
  <2> QED
    BY <1>1, <1>2, <2>1, EndedType
<1>5. Unborn'
  BY <1>1, <1>2, EndedType, Markers DEF IInv, Unborn
<1> QED
  BY <1>1, <1>3, <1>4, <1>5, Markers
  DEF IInv, OneSubscription, PreviousIsLast, Responsible, ConnectedIsWatched, Watched

\* The invariant is inductive.
LEMMA Inductive == IInv /\ [Next]_vars => IInv'
<1> SUFFICES ASSUME IInv, [Next]_vars PROVE IInv'
  OBVIOUS
<1>1. CASE Stop
  BY <1>1, StopStep
<1>2. CASE HerdrFlips
  BY <1>2 DEF HerdrFlips, IInv, TypeOK, OneSubscription, PreviousIsLast, Responsible,
     ConnectedIsWatched, Unborn, Watched, Current
<1>3. ASSUME NEW a \in Attempt, Start(a) \/ TimerFires(a) \/ LostTimerFires(a) PROVE IInv'
  BY <1>3, BeginStep
<1>4. ASSUME NEW a \in Attempt, Seeded(a) PROVE IInv'
  BY <1>4, SeededStep
<1>5. ASSUME NEW a \in Attempt, Acknowledged(a) PROVE IInv'
  BY <1>5, KeptStep, SupersededStep
<1>6. ASSUME NEW a \in Attempt, Fails(a) PROVE IInv'
  BY <1>6, FailsStep
<1>7. ASSUME NEW a \in Attempt, SocketError(a) \/ SocketClose(a) PROVE IInv'
  BY <1>7, SocketStep
<1>8. CASE UNCHANGED vars
  BY <1>8 DEF vars, IInv, TypeOK, OneSubscription, PreviousIsLast, Responsible,
     ConnectedIsWatched, Unborn, Watched, Current
<1> QED
  BY <1>1, <1>2, <1>3, <1>4, <1>5, <1>6, <1>7, <1>8 DEF Next

\* The invariant holds in every reachable state.
THEOREM Invariance == Spec => []IInv
  BY InitHolds, Inductive, PTL DEF Spec

\* Every variable of the link keeps its type.
THEOREM TypeCorrect == Spec => []TypeOK
<1>1. IInv => TypeOK
  BY DEF IInv
<1> QED
  BY <1>1, Invariance, PTL

\* However many attempts overlap, at most one subscription is open, and it is
\* the runtime's own (establishSubscription, hosts.ts:745-774).
THEOREM OnlyOneSubscription == Spec => []OneSubscription
<1>1. IInv => OneSubscription
  BY DEF IInv
<1> QED
  BY <1>1, Invariance, PTL

\* A runtime that is not connected and was not stopped has a retry pending or
\* an attempt under way (connectOnce's catch and the 'disconnect' handler).
THEOREM NeverAbandoned == Spec => []SomebodyRetries
<1>1. IInv => SomebodyRetries
  BY DEF IInv, Responsible, SomebodyRetries, UnderWay
<1> QED
  BY <1>1, Invariance, PTL

\* A runtime that calls itself connected watches an open subscription, or is
\* about to replace it (the generation check, hosts.ts:759).
THEOREM NoBlindConnection == Spec => []ConnectedIsWatched
<1>1. IInv => ConnectedIsWatched
  BY DEF IInv
<1> QED
  BY <1>1, Invariance, PTL

-----------------------------------------------------------------------------
(* The other link of the system: the browser's connection to the bridge and   *)
(* the actions of the board's cards over it, CardActions.                     *)

\* What a step of the cards is to their connection.
Carries ==
  \/ SocketOpens \/ SocketCloses \/ Reopen \/ UNCHANGED connection
  \/ \E r \in Request : \/ Send(r) \/ Refuse(r) \/ Deliver(r)
                        \/ \E result : result # NoAnswer /\ Handle(r, result)

\* Whatever a call of the host's runtime ends with, its request is answered.
LEMMA EveryRequestIsAnswered ==
  ASSUME ConnectionAssumption, NEW method, NEW given, NEW hostKnown, NEW outcome
  PROVE  dispatch(method, given, hostKnown, outcome) # NoAnswer
<1>1. caught(outcome) # NoAnswer
  BY DEF caught, ConnectionAssumption, Answer
<1>2. QED
  BY <1>1 DEF dispatch, ConnectionAssumption, Answer

LEMMA CarriesPromises ==
  ASSUME PromiseInv, Carries
  PROVE  PromiseInv'
<1> USE DEF PromiseInv, PromisesCanSettle, SocketIsRetried
<1>1. CASE SocketOpens
  BY <1>1 DEF SocketOpens
<1>2. CASE SocketCloses
  BY <1>2 DEF SocketCloses, rejectAllPending
<1>3. CASE Reopen
  BY <1>3 DEF Reopen
<1>4. CASE UNCHANGED connection
  BY <1>4 DEF connection
<1>5. ASSUME NEW r \in Request, Send(r) PROVE PromiseInv'
  BY <1>5 DEF Send
<1>6. ASSUME NEW r \in Request, Refuse(r) PROVE PromiseInv'
  BY <1>6 DEF Refuse, connection
<1>7. ASSUME NEW r \in Request, Deliver(r) PROVE PromiseInv'
  BY <1>7 DEF Deliver
<1>8. ASSUME NEW r \in Request, NEW result, result # NoAnswer, Handle(r, result)
      PROVE  PromiseInv'
  BY <1>8 DEF Handle
<1>9. QED
  BY <1>1, <1>2, <1>3, <1>4, <1>5, <1>6, <1>7, <1>8 DEF Carries

\* Most steps of the cards are none of the connection's.
LEMMA CardsCarry ==
  ASSUME ConnectionAssumption, [CardsNext]_cardsVars
  PROVE  Carries
<1>1. CASE Opens \/ Closes \/ Reopens
  BY <1>1 DEF Opens, Closes, Reopens, Carries
<1>2. ASSUME NEW r \in Request, BridgeHandles(r) PROVE Carries
  <2>1. "same_tab" # NoAnswer /\ "zoomed_tab" # NoAnswer
    BY DEF ConnectionAssumption, Answer
  <2>2. QED
    BY <1>2, <2>1, EveryRequestIsAnswered DEF BridgeHandles, Carries
<1>3. ASSUME NEW r \in Request, Answered(r) PROVE Carries
  BY <1>3 DEF Answered, Carries
<1>4. ASSUME NEW v, NEW verb, NEW asked, Ask(v, verb, asked) PROVE Carries
  BY <1>4 DEF Ask, Unsent, Carries
<1>5. ASSUME NEW v, \/ doMove(v) \/ doSplit(v)
                    \/ confirmClose(v) \/ onRenameSaved(v)
      PROVE  Carries
  BY <1>4, <1>5 DEF doMove, doSplit, confirmClose, onRenameSaved
<1>6. ASSUME NEW v, \/ \E menu \in Menu : toggleMenu(v, menu)
                    \/ closeMenu(v) \/ onCloseClick(v) \/ onRenameClick(v)
                    \/ onRenameCancelled(v) \/ CloseCancelled(v) \/ Leaves(v)
      PROVE  UNCHANGED connection
  BY <1>6 DEF toggleMenu, closeMenu, onCloseClick, onRenameClick,
              onRenameCancelled, CloseCancelled, Leaves
<1>7. CASE TimerEnds \/ UserDismisses \/ UNCHANGED cardsVars
  BY <1>7 DEF TimerEnds, UserDismisses, cardsVars, Carries
<1>8. ASSUME NEW r, DelayEnds(r) PROVE Carries
  BY <1>8 DEF DelayEnds, Carries
<1>9. ASSUME NEW p, Enters(p) PROVE Carries
  BY <1>9 DEF Enters, Carries
<1>10. CASE \E v \in View :
              \/ \E menu \in Menu : toggleMenu(v, menu)
              \/ closeMenu(v) \/ onCloseClick(v) \/ onRenameClick(v)
              \/ onRenameCancelled(v) \/ CloseCancelled(v)
              \/ doMove(v) \/ doSplit(v) \/ confirmClose(v)
              \/ onRenameSaved(v) \/ Leaves(v)
  <2>1. UNCHANGED connection => Carries
    BY DEF Carries
  <2>2. QED
    BY <1>5, <1>6, <1>10, <2>1
<1>11. QED
  BY <1>1, <1>2, <1>3, <1>7, <1>8, <1>9, <1>10 DEF CardsNext

LEMMA PromiseInvariance == CardsSpec => []PromiseInv
<1>1. CardsInit => PromiseInv
  BY DEF CardsInit, ConnectionInit, PromiseInv, SocketIsRetried,
         PromisesCanSettle
<1>2. PromiseInv /\ [CardsNext]_cardsVars => PromiseInv'
  BY ConnectionAssumption, CardsCarry, CarriesPromises
<1>3. QED
  BY <1>1, <1>2, PTL DEF CardsSpec

\* Every promise is kept in sight: its request went out on the socket that is
\* open now, and it or its answer is still on its way there, for any requests
\* and any number of sockets.  A close rejects what it leaves behind and
\* dispatch answers whatever the host's call ends in (rejectAllPending, the
\* catch clause of dispatch.ts).
THEOREM PromisesAreInSight == CardsSpec => []PromisesCanSettle
<1>1. PromiseInv => PromisesCanSettle
  BY DEF PromiseInv
<1>2. QED
  BY <1>1, PromiseInvariance, PTL

\* How the end of an action is told.
LEMMA WhatAnEndTells ==
  ASSUME NEW page, page.card \in [View -> CardState],
         page.attempt \in [Request -> Action],
         NEW r \in Request, NEW result, NEW e,
         e = ended(page, r, result)
  PROVE  /\ result = "done" => e.toasts = resolve(page.toasts, page.attempt[r])
         /\ result = "same_tab" =>
              e.toasts = dismiss(page.toasts, noticeKey("move", Held(page.attempt[r])))
         /\ result \notin {"done", "same_tab"} => e.toasts = fail(page.toasts, page.attempt[r])
<1>2. CASE result = "done"
  BY <1>2 DEF ended
<1>3. CASE result = "same_tab"
  BY <1>3 DEF ended
<1>4. CASE result \notin {"done", "same_tab"}
  BY <1>4 DEF ended
<1>5. QED
  BY <1>2, <1>3, <1>4

LEMMA SettledIsAnAction ==
  ASSUME NEW a
  PROVE  LET d == Settled(a)
         IN d \in Action /\ d.settled /\ ~d.delay /\ ~d.declined /\ d.verb # "none"
  BY DEF Settled, Unasked, Action

LEMMA ReopenedIsACard ==
  ASSUME NEW c \in CardState, NEW p \in Pane \cup {None}
  PROVE  Reopened(c, p) \in CardState
         /\ Reopened(c, p).for = IF c.for = None THEN p ELSE c.for
  BY DEF CardState, Reopened

\* The end of an action ends it, and leaves every other alone.
LEMMA AnEndEndsOne ==
  ASSUME NEW page, page.card \in [View -> CardState],
         page.attempt \in [Request -> Action],
         NEW r \in Request, NEW result, Running(page.attempt[r]), NEW e,
         e = ended(page, r, result)
  PROVE  /\ e.attempt \in [Request -> Action]
         /\ \A q \in Request \ {r} : e.attempt[q] = page.attempt[q]
         /\ ~Running(e.attempt[r]) /\ e.attempt[r].verb # "none"
         /\ e.attempt[r].settled => ~e.attempt[r].delay /\ ~e.attempt[r].declined
<1> DEFINE a == page.attempt[r]
           b == IF result = "same_tab" THEN [a EXCEPT !.declined = TRUE] ELSE Settled(a)
           new == e.attempt
<1>1. a \in Action /\ ~a.settled /\ a.verb # "none"
  BY DEF Running
<1>2. new = [page.attempt EXCEPT ![r] = b]
  <2>1. CASE result = "done"
    BY <2>1 DEF ended
  <2>2. CASE result = "same_tab"
    BY <2>2 DEF ended
  <2>3. CASE result \notin {"done", "same_tab"}
    BY <2>3 DEF ended
  <2>4. QED
    BY <2>1, <2>2, <2>3
<1>3. ASSUME NEW c \in Action, ~c.settled, c.verb # "none"
      PROVE  LET d == [c EXCEPT !.declined = TRUE]
             IN d \in Action /\ d.declined /\ ~d.settled /\ d.verb # "none"
  BY <1>3 DEF Action
<1>4. LET d == Settled(a)
      IN d \in Action /\ d.settled /\ ~d.delay /\ ~d.declined /\ d.verb # "none"
  BY SettledIsAnAction
<1>5. /\ b \in Action /\ b.verb # "none"
      /\ b.declined \/ b.settled
      /\ b.settled => ~b.delay /\ ~b.declined
  <2>1. CASE result = "same_tab"
    <3>1. b = [a EXCEPT !.declined = TRUE]
      BY <2>1
    <3>2. QED
      BY <1>1, <1>3, <3>1
  <2>2. CASE result # "same_tab"
    BY <1>4, <2>2
  <2>3. QED
    BY <2>1, <2>2
<1> HIDE DEF b, new
<1>6. new[r] = b /\ new \in [Request -> Action] /\ \A q \in Request \ {r} : new[q] = page.attempt[q]
  BY <1>2, <1>5
<1>7. QED
  BY <1>5, <1>6 DEF Running, new

\* An action is asked for under a number of its own.
LEMMA AskedIsAnAction ==
  ASSUME bound \in [View -> Pane \cup {None}], card \in [View -> CardState],
         NEW v \in View, NEW verb \in Verb
  PROVE  /\ Asked(v, verb) \in Action /\ Running(Asked(v, verb))
         /\ Asked(v, verb).verb # "none" /\ ~Asked(v, verb).settled
         /\ ~Asked(v, verb).shown
<1>1. For(v) \in Pane \cup {None}
  BY DEF For, CardState
<1>2. bound[v] \in Pane \cup {None}
  OBVIOUS
<1>3. QED
  BY <1>1, <1>2 DEF Asked, Unasked, Action, Running, Verb

\* A continuation keeps the cards' types: it opens the dialog of one view.
LEMMA AnEndKeepsTheCards ==
  ASSUME NEW page, page.card \in [View -> CardState],
         page.attempt \in [Request -> Action],
         NEW r \in Request, NEW result, NEW e,
         e = ended(page, r, result)
  PROVE  /\ e.card \in [View -> CardState]
         /\ \A v \in View : v # page.attempt[r].view => e.card[v] = page.card[v]
         /\ \A v \in View : e.card[v].for \in {page.card[v].for, page.attempt[r].meant}
<1> DEFINE a == page.attempt[r]
           new == e.card
<1>0. a \in Action
  OBVIOUS
<1> HIDE DEF a
<1>1. CASE a.verb # "rename" \/ a.view = None \/ result = "same_tab"
  <2>1. new = page.card
    BY <1>1 DEF ended, a
  <2>2. QED
    BY <2>1
<1>2. CASE a.verb = "rename" /\ a.view # None /\ result = "done"
  <2>1. new = [page.card EXCEPT ![a.view].draft = FALSE]
    BY <1>2 DEF ended, a
  <2> HIDE DEF new
  <2>2. a.view \in View
    BY <1>0, <1>2 DEF Action
  <2>3. new = [page.card EXCEPT ![a.view] = [page.card[a.view] EXCEPT !.draft = FALSE]]
    BY <2>1, <2>2
  <2>4. [page.card[a.view] EXCEPT !.draft = FALSE] \in CardState
        /\ [page.card[a.view] EXCEPT !.draft = FALSE].for = page.card[a.view].for
    BY <2>2 DEF CardState
  <2>5. QED
    BY <2>2, <2>3, <2>4 DEF new, a
<1>3. CASE a.verb = "rename" /\ a.view # None /\ result \notin {"done", "same_tab"}
  <2> DEFINE c == page.card[a.view]
             d == Reopened(c, a.meant)
  <2>1. a.view \in View
    BY <1>0, <1>3 DEF Action
  <2>2. new = [page.card EXCEPT ![a.view] = d]
    BY <1>3, <2>1 DEF ended, a
  <2>3. d \in CardState /\ d.for \in {c.for, a.meant}
    <3>1. c \in CardState /\ a.meant \in Pane \cup {None}
      BY <1>0, <2>1 DEF Action
    <3> HIDE DEF c
    <3>2. QED
      BY <3>1 DEF CardState, Reopened
  <2> HIDE DEF d, new
  <2>4. QED
    BY <2>1, <2>2, <2>3 DEF new, a
<1>4. QED
  BY <1>1, <1>2, <1>3

LEMMA SomeRequestIsFirst ==
  ASSUME NEW S \in SUBSET Nat, S # {}
  PROVE  \E n \in S : \A m \in S : n <= m
<1>1. PICK n \in S : \A m \in S : <<m, n>> \notin OpToRel(<, Nat)
  BY WFMin, NatLessThanWellFounded, Zenon
<1>2. \A m \in S : ~(m < n)
  BY <1>1 DEF OpToRel
<1>3. QED
  BY <1>2

\* What a close comes to: every action it rejects is settled and told, and a
\* view with a rename among them shows it again.
LEMMA WhatACloseDoes ==
  ASSUME CardAssumption, NEW ts, NEW rs \in SUBSET Request, NEW all,
         all = endedAll([toasts |-> ts, card |-> card, attempt |-> attempt], rs)
  PROVE  /\ all.attempt = [r \in Request |-> IF r \in rs THEN Settled(attempt[r])
                                           ELSE attempt[r]]
         /\ all.card = [v \in View |-> all.card[v]]
         /\ \A v \in View : \/ all.card[v] = card[v]
                           \/ \E r \in rs : /\ attempt[r].view = v
                                           /\ all.card[v] =
                                                Reopened(card[v], attempt[r].meant)
<1> DEFINE renames(v) == {r \in rs : attempt[r].verb = "rename" /\ attempt[r].view = v}
           first(v) == CHOOSE r \in renames(v) : \A q \in renames(v) : r <= q
<1>1. all.card = [v \in View |-> IF renames(v) = {} THEN card[v]
                               ELSE Reopened(card[v], attempt[first(v)].meant)]
  BY DEF endedAll
<1>2. ASSUME NEW v \in View, renames(v) # {} PROVE first(v) \in renames(v)
  <2>1. renames(v) \in SUBSET Nat
    BY DEF CardAssumption
  <2>2. \E r \in renames(v) : \A q \in renames(v) : r <= q
    BY <1>2, <2>1, SomeRequestIsFirst
  <2>3. QED
    BY <2>2
<1>3. ASSUME NEW v \in View
      PROVE  \/ all.card[v] = card[v]
             \/ \E r \in rs : /\ attempt[r].view = v
                             /\ all.card[v] = Reopened(card[v], attempt[r].meant)
  <2>1. CASE renames(v) = {}
    BY <1>1, <2>1
  <2>2. CASE renames(v) # {}
    <3>1. first(v) \in rs /\ attempt[first(v)].view = v
      BY <1>2, <2>2
    <3>2. all.card[v] = Reopened(card[v], attempt[first(v)].meant)
      BY <1>1, <2>2
    <3> HIDE DEF first
    <3>3. QED
      BY <3>1, <3>2
  <2>3. QED
    BY <2>1, <2>2
<1>4. all.card = [v \in View |-> all.card[v]]
  BY <1>1
<1>5. all.attempt = [r \in Request |-> IF r \in rs THEN Settled(attempt[r])
                                     ELSE attempt[r]]
  BY DEF endedAll
<1>6. QED
  BY <1>3, <1>4, <1>5

\* A close leaves no promise, and ends every action.
LEMMA CloseStep ==
  ASSUME CardAssumption, PromiseInv, ActionInv, Closes
  PROVE  ActionInv'
<1> DEFINE told == IF readyState = "open" /\ ~connectionLost
                   THEN push(toasts, CONNECTION_NOTICE_KEY, "warn", TRUE) ELSE toasts
           all == endedAll([toasts |-> told, card |-> card, attempt |-> attempt], pending)
<1>1. pending' = {} /\ UNCHANGED <<bound, shown>> /\ card' = all.card /\ attempt' = all.attempt
  BY DEF Closes, SocketCloses, rejectAllPending, Become
<1>2. /\ pending \in SUBSET Request /\ card \in [View -> CardState]
      /\ attempt \in [Request -> Action]
  BY DEF PromiseInv, ActionInv, CardTypes
<1> HIDE DEF told
<1>3. all = endedAll([toasts |-> told, card |-> card, attempt |-> attempt], pending)
  OBVIOUS
<1> HIDE DEF all
<1>4. /\ all.attempt = [r \in Request |-> IF r \in pending THEN Settled(attempt[r])
                                        ELSE attempt[r]]
      /\ all.card = [v \in View |-> all.card[v]]
      /\ \A v \in View : \/ all.card[v] = card[v]
                        \/ \E r \in pending : /\ attempt[r].view = v
                                             /\ all.card[v] =
                                                  Reopened(card[v], attempt[r].meant)
  BY <1>2, <1>3, WhatACloseDoes
<1>5. ASSUME NEW v \in View PROVE all.card[v] \in CardState
  <2>1. CASE all.card[v] = card[v]
    BY <1>2, <2>1
  <2>2. ASSUME NEW r \in pending, all.card[v] = Reopened(card[v], attempt[r].meant)
        PROVE  all.card[v] \in CardState
    <3>1. attempt[r].meant \in Pane \cup {None}
      BY <1>2 DEF Action
    <3>2. QED
      BY <1>2, <2>2, <3>1, ReopenedIsACard
  <2>3. QED
    BY <1>4, <2>1, <2>2
<1>6. card' \in [View -> CardState]
  BY <1>1, <1>4, <1>5
<1>7. ASSUME NEW r \in Request
      PROVE  /\ attempt'[r] \in Action /\ ~Running(attempt'[r])
             /\ attempt'[r].verb = "none" =>
                  ~attempt'[r].delay /\ ~attempt'[r].shown /\ ~attempt'[r].settled /\ ~attempt'[r].declined
             /\ attempt'[r].settled => ~attempt'[r].delay /\ ~attempt'[r].declined
  <2>1. CASE r \in pending
    <3>1. attempt'[r] = Settled(attempt[r])
      BY <1>1, <1>4, <2>1
    <3>2. QED
      BY <3>1, SettledIsAnAction DEF Running
  <2>2. CASE r \notin pending
    <3>1. attempt'[r] = attempt[r]
      BY <1>1, <1>4, <2>2
    <3>2. QED
      BY <1>2, <2>2, <3>1 DEF ActionInv, ActionsAreAskedOnce,
         ActionsEndWithTheirPromises
  <2>3. QED
    BY <2>1, <2>2
<1>8. attempt' \in [Request -> Action]
  BY <1>1, <1>4, <1>7
<1>9. pending' = {r \in Request : Running(attempt'[r])}
  BY <1>1, <1>7
<1>10. QED
  BY <1>1, <1>6, <1>7, <1>8, <1>9 DEF ActionInv, CardTypes, ActionsAreAskedOnce,
     ActionsEndWithTheirPromises, Running

\* An action asked for gets a promise of its own, or ends at once.
LEMMA AskStep ==
  ASSUME PromiseInv, ActionInv, NEW v \in View, NEW verb \in Verb,
         NEW asked \in [View -> CardState], Ask(v, verb, asked)
  PROVE  ActionInv'
<1>1. PICK r \in Unsent :
        LET page == [toasts |-> toasts, card |-> asked,
                     attempt |-> [attempt EXCEPT ![r] = Asked(v, verb)]]
        IN IF readyState = "open" THEN Send(r) /\ Become(page)
           ELSE Refuse(r) /\ Become(ended(page, r, "not connected"))
  BY DEF Ask
<1> DEFINE as == [attempt EXCEPT ![r] = Asked(v, verb)]
           b == Asked(v, verb)
<1>2. /\ bound \in [View -> Pane \cup {None}] /\ card \in [View -> CardState]
      /\ attempt \in [Request -> Action] /\ UNCHANGED <<bound, shown>>
  BY DEF ActionInv, CardTypes, Ask
<1>3. r \in Request /\ attempt[r].verb = "none"
  BY <1>1 DEF Unsent
<1>4. /\ b \in Action /\ Running(b) /\ b.verb # "none" /\ ~b.settled
  BY <1>2, AskedIsAnAction
<1> HIDE DEF b
<1>5. /\ as \in [Request -> Action] /\ as[r] = b
      /\ \A q \in Request \ {r} : as[q] = attempt[q]
  BY <1>2, <1>3, <1>4 DEF b
<1> HIDE DEF as
<1>6. /\ pending = {q \in Request : Running(attempt[q])} /\ r \notin pending
      /\ ActionsAreAskedOnce
  BY <1>3 DEF ActionInv, ActionsEndWithTheirPromises, Running
<1>7. CASE readyState = "open"
  <2>1. pending' = pending \cup {r} /\ attempt' = as /\ card' = asked
    BY <1>1, <1>7 DEF Send, Become, as
  <2>2. ActionsAreAskedOnce'
    BY <1>4, <1>5, <1>6, <2>1 DEF ActionsAreAskedOnce
  <2>3. pending' = {q \in Request : Running(attempt'[q])}
    BY <1>3, <1>4, <1>5, <1>6, <2>1
  <2>4. QED
    BY <1>2, <1>5, <2>1, <2>2, <2>3 DEF ActionInv, CardTypes,
       ActionsEndWithTheirPromises, Running
<1>8. CASE readyState # "open"
  <2> DEFINE page == [toasts |-> toasts, card |-> asked, attempt |-> as]
             e == ended(page, r, "not connected")
  <2>1. pending' = pending /\ attempt' = e.attempt /\ card' = e.card
    BY <1>1, <1>8 DEF Refuse, connection, Become, as
  <2>0. page.card = asked /\ page.attempt = as
    OBVIOUS
  <2> HIDE DEF page
  <2>7. /\ page.card \in [View -> CardState] /\ page.attempt \in [Request -> Action]
        /\ Running(page.attempt[r])
    BY <1>4, <1>5, <2>0
  <2>2. /\ e.attempt \in [Request -> Action]
        /\ \A q \in Request \ {r} : e.attempt[q] = page.attempt[q]
        /\ ~Running(e.attempt[r]) /\ e.attempt[r].verb # "none"
        /\ e.attempt[r].settled => ~e.attempt[r].delay /\ ~e.attempt[r].declined
    BY <1>3, <2>7, AnEndEndsOne
  <2>3. e.card \in [View -> CardState]
    BY <1>3, <1>5, <2>0, AnEndKeepsTheCards
  <2> HIDE DEF e
  <2>4. ActionsAreAskedOnce'
    BY <1>5, <1>6, <2>0, <2>1, <2>2 DEF ActionsAreAskedOnce
  <2>5. pending' = {q \in Request : Running(attempt'[q])}
    BY <1>3, <1>5, <1>6, <2>0, <2>1, <2>2
  <2>6. QED
    BY <1>2, <2>1, <2>2, <2>3, <2>4, <2>5 DEF ActionInv, CardTypes,
       ActionsEndWithTheirPromises, Running
<1>9. QED
  BY <1>7, <1>8

\* What a click makes of the cards: the menu or dialog it opens is for the
\* pane the view holds.
Clicked(c) ==
  /\ c \in [View -> CardState]
  /\ \A w \in View : c[w].for \in {None, card[w].for, bound[w]}

LEMMA ClosedCards ==
  ASSUME NEW c \in CardState
  PROVE  Closed(c) \in CardState /\ Closed(c).for \in {None, c.for}
  BY DEF Closed, CardState

LEMMA OneCardIsClicked ==
  ASSUME CardTypes, NEW v \in View, NEW d \in CardState, d.for \in {None, card[v].for, bound[v]}
  PROVE  Clicked([card EXCEPT ![v] = d])
  BY DEF Clicked, CardTypes

LEMMA ClicksAreClicks ==
  ASSUME CardTypes, NEW v \in View,
         \/ \E menu \in Menu : toggleMenu(v, menu)
         \/ closeMenu(v) \/ onCloseClick(v) \/ onRenameClick(v)
         \/ onRenameCancelled(v) \/ CloseCancelled(v)
  PROVE  Clicked(card')
<1>1. card[v] \in CardState /\ bound[v] \in Pane \cup {None}
  BY DEF CardTypes
<1>2. For(v) \in Pane \cup {None} /\ For(v) \in {card[v].for, bound[v]}
  BY <1>1 DEF For, CardState
<1>3. ASSUME NEW menu \in Menu, toggleMenu(v, menu) PROVE Clicked(card')
  <2> DEFINE d == [card[v] EXCEPT !.menu = menu, !.for = For(v)]
  <2>1. d \in CardState /\ d.for = For(v)
    BY <1>1, <1>2 DEF CardState
  <2>3. card' = [w \in View |-> IF w # v \/ card[v].menu = menu THEN Closed(card[w]) ELSE d]
    BY <1>3 DEF toggleMenu
  <2> HIDE DEF d
  <2>4. ASSUME NEW w \in View
        PROVE  card'[w] \in CardState /\ card'[w].for \in {None, card[w].for, bound[w]}
    <3>1. card[w] \in CardState
      BY DEF CardTypes
    <3>2. CASE w # v \/ card[v].menu = menu
      BY <2>3, <3>1, <3>2, ClosedCards
    <3>3. CASE ~(w # v \/ card[v].menu = menu)
      BY <1>2, <2>1, <2>3, <3>3
    <3>4. QED
      BY <3>2, <3>3
  <2>5. QED
    BY <2>3, <2>4 DEF Clicked
<1>4. CASE closeMenu(v)
  BY <1>1, <1>4, ClosedCards, OneCardIsClicked DEF closeMenu
<1>5. CASE onCloseClick(v)
  <2> DEFINE d == [card[v] EXCEPT !.menu = "none", !.close = TRUE, !.for = For(v)]
  <2>1. d \in CardState /\ d.for = For(v)
    BY <1>1, <1>2 DEF CardState
  <2>2. card' = [card EXCEPT ![v] = d]
    BY <1>5 DEF onCloseClick
  <2> HIDE DEF d
  <2>3. QED
    BY <1>2, <2>1, <2>2, OneCardIsClicked
<1>6. CASE onRenameClick(v)
  <2> DEFINE d == [card[v] EXCEPT !.menu = "none", !.rename = TRUE, !.draft = FALSE,
                                  !.for = For(v)]
  <2>1. d \in CardState /\ d.for = For(v)
    BY <1>1, <1>2 DEF CardState
  <2>2. card' = [card EXCEPT ![v] = d]
    BY <1>6 DEF onRenameClick
  <2> HIDE DEF d
  <2>3. QED
    BY <1>2, <2>1, <2>2, OneCardIsClicked
<1>7. CASE onRenameCancelled(v)
  <2> DEFINE d == [card[v] EXCEPT !.rename = FALSE, !.draft = FALSE]
  <2>1. d \in CardState /\ d.for = card[v].for
    BY <1>1 DEF CardState
  <2>2. card' = [card EXCEPT ![v] = Closed(d)]
    BY <1>7 DEF onRenameCancelled
  <2> HIDE DEF d
  <2>3. QED
    BY <2>1, <2>2, ClosedCards, OneCardIsClicked
<1>8. CASE CloseCancelled(v)
  <2> DEFINE d == [card[v] EXCEPT !.close = FALSE]
  <2>1. d \in CardState /\ d.for = card[v].for
    BY <1>1 DEF CardState
  <2>2. card' = [card EXCEPT ![v] = Closed(d)]
    BY <1>8 DEF CloseCancelled
  <2> HIDE DEF d
  <2>3. QED
    BY <2>1, <2>2, ClosedCards, OneCardIsClicked
<1>9. QED
  BY <1>3, <1>4, <1>5, <1>6, <1>7, <1>8

\* The four ways to ask for an action leave the cards as a click does.
LEMMA AsksAreClicks ==
  ASSUME CardTypes, NEW v \in View,
         \/ doMove(v) \/ doSplit(v) \/ confirmClose(v) \/ onRenameSaved(v)
  PROVE  v \in shown /\ \E verb, asked : verb \in Verb /\ Clicked(asked) /\ Ask(v, verb, asked)
<1>1. card[v] \in CardState
  BY DEF CardTypes
<1>2. CASE doMove(v) \/ doSplit(v)
  <2> DEFINE asked == [card EXCEPT ![v] = Closed(card[v])]
  <2>1. v \in shown /\ (Ask(v, "move", asked) \/ Ask(v, "split", asked))
    BY <1>2 DEF doMove, doSplit
  <2>2. Clicked(asked)
    BY <1>1, <2>1, ClosedCards, OneCardIsClicked
  <2> HIDE DEF asked
  <2>3. QED
    BY <2>1, <2>2 DEF Verb
<1>3. CASE confirmClose(v)
  <2> DEFINE d == [card[v] EXCEPT !.close = FALSE]
             asked == [card EXCEPT ![v] = Closed(d)]
  <2>1. d \in CardState /\ d.for = card[v].for
    BY <1>1 DEF CardState
  <2>2. v \in shown /\ Ask(v, "close", asked)
    BY <1>3 DEF confirmClose
  <2> HIDE DEF d
  <2>3. Clicked(asked)
    BY <2>1, <2>2, ClosedCards, OneCardIsClicked
  <2> HIDE DEF asked
  <2>4. QED
    BY <2>2, <2>3 DEF Verb
<1>4. CASE onRenameSaved(v)
  <2> DEFINE d == [card[v] EXCEPT !.rename = FALSE]
             asked == [card EXCEPT ![v] = Closed(d)]
  <2>1. d \in CardState /\ d.for = card[v].for
    BY <1>1 DEF CardState
  <2>2. v \in shown /\ Ask(v, "rename", asked)
    BY <1>4 DEF onRenameSaved
  <2> HIDE DEF d
  <2>3. Clicked(asked)
    BY <2>1, <2>2, ClosedCards, OneCardIsClicked
  <2> HIDE DEF asked
  <2>4. QED
    BY <2>2, <2>3 DEF Verb
<1>5. QED
  BY <1>2, <1>3, <1>4

\* A view that leaves takes itself away from its actions, which run on.
LEMMA LeaveStep ==
  ASSUME PromiseInv, ActionInv, NEW v \in View, Leaves(v)
  PROVE  ActionInv'
<1>1. /\ bound \in [View -> Pane \cup {None}] /\ card \in [View -> CardState]
      /\ attempt \in [Request -> Action] /\ shown \subseteq View
      /\ ActionsAreAskedOnce /\ pending = {r \in Request : Running(attempt[r])}
  BY DEF ActionInv, CardTypes, ActionsEndWithTheirPromises
<1>2. pending' = pending /\ shown' \subseteq View
  BY <1>1 DEF Leaves, connection
<1>3. bound' \in [View -> Pane \cup {None}]
  BY <1>1 DEF Leaves
<1>4. Fresh \in CardState
  BY DEF Fresh, CardState
<1>5. card' \in [View -> CardState]
  BY <1>1, <1>4 DEF Leaves
<1>6. ASSUME NEW r \in Request
      PROVE  /\ attempt'[r] \in Action
             /\ Running(attempt'[r]) = Running(attempt[r])
             /\ attempt'[r].verb = "none" =>
                  ~attempt'[r].delay /\ ~attempt'[r].shown /\ ~attempt'[r].settled /\ ~attempt'[r].declined
             /\ attempt'[r].settled => ~attempt'[r].delay /\ ~attempt'[r].declined
  <2> DEFINE a == attempt[r]
             b == [a EXCEPT !.view = None]
  <2>1. /\ a \in Action
        /\ a.verb = "none" => ~a.delay /\ ~a.shown /\ ~a.settled /\ ~a.declined
        /\ a.settled => ~a.delay /\ ~a.declined
    BY <1>1 DEF ActionsAreAskedOnce
  <2>2. attempt'[r] = a \/ attempt'[r] = b
    BY <1>1 DEF Leaves
  <2> HIDE DEF a
  <2>3. /\ b \in Action /\ b.verb = a.verb /\ b.settled = a.settled
        /\ b.declined = a.declined /\ b.delay = a.delay /\ b.shown = a.shown
    BY <2>1 DEF Action
  <2> HIDE DEF b
  <2>4. QED
    BY <2>1, <2>2, <2>3 DEF Running, a
<1>7. attempt' \in [Request -> Action]
  BY <1>1, <1>6 DEF Leaves
<1>8. QED
  BY <1>1, <1>2, <1>3, <1>5, <1>6, <1>7 DEF ActionInv, CardTypes,
     ActionsAreAskedOnce, ActionsEndWithTheirPromises, Running

LEMMA ActionStep ==
  ASSUME ConnectionAssumption, CardAssumption, PromiseInv, ActionInv,
         [CardsNext]_cardsVars
  PROVE  ActionInv'
<1> USE DEF ActionInv, CardTypes, ActionsAreAskedOnce,
            ActionsEndWithTheirPromises
<1>1. CASE UNCHANGED <<pending, bound, shown, card, attempt>>
  BY <1>1 DEF Running
<1>2. CASE \/ Opens \/ Reopens \/ TimerEnds \/ UserDismisses
           \/ UNCHANGED cardsVars
  BY <1>1, <1>2 DEF Opens, SocketOpens, Reopens, Reopen, TimerEnds,
     UserDismisses, cardsVars, connection
<1>3. ASSUME NEW r \in Request, BridgeHandles(r) PROVE ActionInv'
  BY <1>1, <1>3 DEF BridgeHandles, Handle
<1>4. CASE Closes
  BY <1>4, CloseStep
<1>5. ASSUME NEW r \in Request, Answered(r) PROVE ActionInv'
  <2>1. pending' = pending \ {r} /\ UNCHANGED <<bound, shown>>
    BY <1>5 DEF Answered, Deliver
  <2>2. CASE r \notin pending
    <3>1. UNCHANGED <<pending, bound, shown, card, attempt>>
      BY <1>5, <2>1, <2>2 DEF Answered
    <3>2. QED
      BY <1>1, <3>1
  <2>3. CASE r \in pending
    <3>1. Running(attempt[r])
      BY <2>3
    <3> DEFINE e == ended(Page, r, answer[r])
    <3>2. card' = e.card /\ attempt' = e.attempt
      BY <1>5, <2>3 DEF Answered, Become
    <3>0. Page.card = card /\ Page.attempt = attempt
      BY DEF Page
    <3>3. card' \in [View -> CardState]
      BY <3>0, <3>2, AnEndKeepsTheCards
    <3>4. /\ attempt' \in [Request -> Action]
          /\ \A q \in Request \ {r} : attempt'[q] = attempt[q]
          /\ ~Running(attempt'[r]) /\ attempt'[r].verb # "none"
          /\ attempt'[r].settled => ~attempt'[r].delay /\ ~attempt'[r].declined
      BY <3>0, <3>1, <3>2, AnEndEndsOne
    <3>5. ActionsAreAskedOnce'
      BY <3>4
    <3>6. pending' = {q \in Request : Running(attempt'[q])}
      BY <2>1, <3>4 DEF PromiseInv
    <3>7. QED
      BY <2>1, <3>3, <3>4, <3>5, <3>6 DEF Running
  <2>4. QED
    BY <2>2, <2>3
<1>6. ASSUME NEW r \in Request, DelayEnds(r) PROVE ActionInv'
  <2> DEFINE a == attempt[r]
             b == [a EXCEPT !.delay = FALSE, !.shown = ~a.settled]
  <2>1. /\ a \in Action /\ a.delay /\ UNCHANGED <<pending, bound, shown, card>>
        /\ attempt' = [attempt EXCEPT ![r] = b]
    BY <1>6 DEF DelayEnds, connection
  <2> HIDE DEF a
  <2>2. /\ b \in Action /\ ~b.delay
        /\ b.verb = a.verb /\ b.settled = a.settled /\ b.declined = a.declined
    BY <2>1 DEF Action
  <2> HIDE DEF b
  <2>3. a.verb # "none"
    BY <2>1 DEF a
  <2>4. /\ attempt' \in [Request -> Action] /\ attempt'[r] = b
        /\ \A q \in Request \ {r} : attempt'[q] = attempt[q]
    BY <2>1, <2>2
  <2>5. \A q \in Request : Running(attempt'[q]) = Running(attempt[q])
    BY <2>2, <2>4 DEF Running, a
  <2>6. ActionsAreAskedOnce'
    BY <2>2, <2>3, <2>4 DEF a
  <2>7. QED
    BY <2>1, <2>4, <2>5, <2>6 DEF Running
<1>7. ASSUME NEW v \in View,
             \/ \E menu \in Menu : toggleMenu(v, menu)
             \/ closeMenu(v) \/ onCloseClick(v) \/ onRenameClick(v)
             \/ onRenameCancelled(v) \/ CloseCancelled(v)
      PROVE  ActionInv'
  <2>1. UNCHANGED <<pending, bound, shown, attempt>>
    BY <1>7 DEF toggleMenu, closeMenu, onCloseClick, onRenameClick,
       onRenameCancelled, CloseCancelled, connection
  <2>2. card' \in [View -> CardState]
    BY <1>7, ClicksAreClicks DEF Clicked
  <2>3. QED
    BY <2>1, <2>2 DEF Running
<1>8. ASSUME NEW v \in View, \/ doMove(v) \/ doSplit(v)
                            \/ confirmClose(v) \/ onRenameSaved(v)
      PROVE  ActionInv'
  <2>1. PICK verb, asked : verb \in Verb /\ Clicked(asked) /\ Ask(v, verb, asked)
    BY <1>8, AsksAreClicks
  <2>2. asked \in [View -> CardState]
    BY <2>1 DEF Clicked
  <2>3. QED
    BY <2>1, <2>2, AskStep
<1>9. ASSUME NEW v \in View, Leaves(v) PROVE ActionInv'
  BY <1>9, LeaveStep
<1>10. ASSUME NEW p \in Pane, Enters(p) PROVE ActionInv'
  BY <1>10 DEF Enters, Running, connection
<1>11. QED
  BY <1>2, <1>3, <1>4, <1>5, <1>6, <1>7, <1>8, <1>9, <1>10 DEF CardsNext

LEMMA ActionInvariance == CardsSpec => [](PromiseInv /\ ActionInv)
<1>1. CardsInit => ActionInv
  <2> SUFFICES ASSUME CardsInit PROVE ActionInv
    OBVIOUS
  <2>1. Fresh \in CardState /\ Unasked \in Action
    BY DEF Fresh, CardState, Unasked, Action
  <2>2. CardTypes
    BY <2>1 DEF CardsInit, CardTypes
  <2>3. \A r \in Request : attempt[r] = Unasked
    BY DEF CardsInit
  <2>4. ActionsAreAskedOnce
    BY <2>3 DEF ActionsAreAskedOnce, Unasked
  <2>5. ActionsEndWithTheirPromises
    BY <2>3 DEF CardsInit, ConnectionInit, ActionsEndWithTheirPromises,
       Running, Unasked
  <2>6. QED
    BY <2>2, <2>4, <2>5 DEF ActionInv
<1>2. PromiseInv /\ ActionInv /\ [CardsNext]_cardsVars => ActionInv'
  BY ConnectionAssumption, CardAssumption, ActionStep
<1>3. QED
  BY <1>1, <1>2, PromiseInvariance, PTL DEF CardsSpec

\* An action runs exactly as long as its promise is pending, for any panes and
\* views, recycled or not: no close of a socket, late answer or refused request
\* ends one without the other, so that no action is told twice or never
\* (ProgressNotice; the awaits of doMove, doSplit, confirmClose, onRenameSaved).
THEOREM ActionsEndOnce == CardsSpec => []ActionsEndWithTheirPromises
<1>1. ActionInv => ActionsEndWithTheirPromises
  BY DEF ActionInv
<1>2. QED
  BY <1>1, ActionInvariance, PTL

-----------------------------------------------------------------------------
(* The notices of the cards' actions.                                         *)

\* What a lasting notice tells of.
Outage(key) == key = CONNECTION_NOTICE_KEY /\ connectionLost /\ readyState # "open"
Backs(a, key) == Key(a) = key /\ a.shown /\ (Running(a) \/ a.declined)

\* A stack whose lasting notices an action backs, or the outage.
Backed(stack, as) ==
  \A toast \in stack.list : toast.persistent =>
    Outage(toast.key) \/ \E r \in Request : Backs(as[r], toast.key)

LEMMA ListsOfStacks ==
  ASSUME NEW ts, NEW key, NEW level, NEW persistent, NEW toast
  PROVE  /\ toast \in dismiss(ts, key).list => toast \in ts.list /\ toast.key # key
         /\ toast \in push(ts, key, level, persistent).list =>
              \/ toast \in ts.list /\ toast.key # key
              \/ toast.key = key /\ toast.persistent = persistent
  BY DEF dismiss, push, Replaced

\* A notice taken away backs nothing, and an error does not last.
LEMMA StacksAreBacked ==
  ASSUME NEW ts, NEW as, Backed(ts, as), NEW key, NEW level
  PROVE  /\ Backed(dismiss(ts, key), as) /\ Backed(push(ts, key, level, FALSE), as)
         /\ Outage(key) \/ (\E r \in Request : Backs(as[r], key)) =>
              Backed(push(ts, key, level, TRUE), as)
<1>1. Backed(dismiss(ts, key), as)
  BY DEF Backed, dismiss
<1>2. Backed(push(ts, key, level, FALSE), as)
  <2>1. ASSUME NEW toast \in push(ts, key, level, FALSE).list, toast.persistent
        PROVE  toast \in ts.list
    BY <2>1 DEF push, Replaced
  <2>2. QED
    BY <2>1 DEF Backed
<1>3. ASSUME Outage(key) \/ (\E r \in Request : Backs(as[r], key))
      PROVE  Backed(push(ts, key, level, TRUE), as)
  <2>1. ASSUME NEW toast \in push(ts, key, level, TRUE).list
        PROVE  toast \in ts.list \/ toast.key = key
    BY <2>1 DEF push, Replaced
  <2>2. QED
    BY <1>3, <2>1 DEF Backed
<1>4. QED
  BY <1>1, <1>2, <1>3

\* A declined action is as it was, but for the mark.
LEMMA DeclinedActions ==
  ASSUME NEW page, page.attempt \in [Request -> Action], NEW r \in Request,
         NEW e, e = ended(page, r, "same_tab")
  PROVE  /\ e.attempt[r].declined /\ e.attempt[r].shown = page.attempt[r].shown
         /\ Key(e.attempt[r]) = Key(page.attempt[r])
<1> DEFINE a == page.attempt[r]
           b == [a EXCEPT !.declined = TRUE]
<1>1. e.attempt = [page.attempt EXCEPT ![r].declined = TRUE]
  BY DEF ended
<1>2. a \in Action /\ e.attempt[r] = b
  BY <1>1
<1> HIDE DEF a
<1>3. b.declined /\ b.shown = a.shown /\ Key(b) = Key(a)
  BY <1>2 DEF Action, Key
<1>4. QED
  BY <1>2, <1>3 DEF a

\* An action that ends takes its notice with it, or turns it into the error;
\* one that is declined goes on backing it.
LEMMA EndsLeaveNoNotice ==
  ASSUME NEW page, page.card \in [View -> CardState],
         page.attempt \in [Request -> Action], Backed(page.toasts, page.attempt),
         NEW r \in Request, NEW result, Running(page.attempt[r]),
         NEW e, e = ended(page, r, result)
  PROVE  Backed(e.toasts, e.attempt)
<1>1. \A q \in Request \ {r} : e.attempt[q] = page.attempt[q]
  BY AnEndEndsOne
<1>2. ~page.attempt[r].settled
  BY DEF Running
<1>3. /\ result = "done" => e.toasts = resolve(page.toasts, page.attempt[r])
      /\ result = "same_tab" =>
           e.toasts = dismiss(page.toasts, noticeKey("move", Held(page.attempt[r])))
      /\ result \notin {"done", "same_tab"} => e.toasts = fail(page.toasts, page.attempt[r])
  BY WhatAnEndTells
<1>4. CASE result = "done"
  <2>1. \A toast \in e.toasts.list :
          toast \in page.toasts.list /\ (page.attempt[r].shown => toast.key # Key(page.attempt[r]))
    BY <1>2, <1>3, <1>4 DEF resolve, dismiss
  <2>2. ASSUME NEW toast \in e.toasts.list, NEW q \in Request, Backs(page.attempt[q], toast.key)
        PROVE  Backs(e.attempt[q], toast.key)
    <3>1. q # r
      BY <2>1, <2>2 DEF Backs
    <3>2. QED
      BY <1>1, <2>2, <3>1
  <2>3. QED
    BY <2>1, <2>2 DEF Backed
<1>5. CASE result = "same_tab"
  <2>1. \A toast \in e.toasts.list : toast \in page.toasts.list
    BY <1>3, <1>5 DEF dismiss
  <2>2. /\ e.attempt[r].declined /\ e.attempt[r].shown = page.attempt[r].shown
        /\ Key(e.attempt[r]) = Key(page.attempt[r])
    BY <1>5, DeclinedActions
  <2>3. ASSUME NEW q \in Request, NEW key, Backs(page.attempt[q], key) PROVE Backs(e.attempt[q], key)
    BY <1>1, <2>2, <2>3 DEF Backs
  <2>4. QED
    BY <2>1, <2>3 DEF Backed
<1>6. CASE result \notin {"done", "same_tab"}
  <2>1. \A toast \in e.toasts.list : toast.persistent =>
          toast \in page.toasts.list /\ toast.key # Key(page.attempt[r])
    BY <1>2, <1>3, <1>6 DEF fail, push, Replaced
  <2>2. ASSUME NEW toast \in e.toasts.list, toast.persistent, NEW q \in Request,
               Backs(page.attempt[q], toast.key)
        PROVE  Backs(e.attempt[q], toast.key)
    <3>1. q # r
      BY <2>1, <2>2 DEF Backs
    <3>2. QED
      BY <1>1, <2>2, <3>1
  <2>3. QED
    BY <2>1, <2>2 DEF Backed
<1>7. QED
  BY <1>4, <1>5, <1>6

\* The lasting notices of a step that ends no outage.
LEMMA NoticesStay ==
  ASSUME NEW ts, NEW as, Backed(ts, as), toasts' = ts, attempt' = as,
         connectionLost => connectionLost', readyState # "open" => readyState' # "open"
  PROVE  LastingNoticesAreShown'
  BY DEF Backed, Outage, Backs, LastingNoticesAreShown

\* A close tells of the outage, which lasts, and turns the notices of what it
\* rejects into errors.
LEMMA CloseLeavesNoNotice ==
  ASSUME ActionInv, LastingNoticesAreShown, Closes
  PROVE  LastingNoticesAreShown'
<1> DEFINE told == IF readyState = "open" /\ ~connectionLost
                   THEN push(toasts, CONNECTION_NOTICE_KEY, "warn", TRUE) ELSE toasts
           page == [toasts |-> told, card |-> card, attempt |-> attempt]
           failed == {r \in pending : ~attempt[r].settled}
           keys == {Key(attempt[r]) : r \in failed}
<1>1. /\ readyState' = "closed" /\ connectionLost' = (connectionLost \/ readyState = "open")
      /\ toasts' = endedAll(page, pending).toasts
      /\ attempt' = endedAll(page, pending).attempt
  BY DEF Closes, SocketCloses, rejectAllPending, Become
<1>2. toasts' = pushErrors(told, keys)
  BY <1>1 DEF endedAll
<1>3. \A r \in Request \ pending : attempt'[r] = attempt[r]
  BY <1>1 DEF endedAll
<1>4. pending = {r \in Request : Running(attempt[r])}
  BY DEF ActionInv, ActionsEndWithTheirPromises
<1>5. ASSUME NEW toast \in toasts'.list, toast.persistent
      PROVE  toast \in told.list /\ toast.key \notin keys
  <2> HIDE DEF told, keys
  <2>1. QED
    BY <1>2, <1>5 DEF pushErrors
<1>6. ASSUME NEW toast \in told.list
      PROVE  \/ toast \in toasts.list
             \/ toast.key = CONNECTION_NOTICE_KEY /\ readyState = "open"
  BY <1>6 DEF push, Replaced
<1>7. ASSUME NEW toast \in toasts.list, toast.persistent, toast.key \notin keys
      PROVE  \/ toast.key = CONNECTION_NOTICE_KEY /\ connectionLost
             \/ \E r \in Request : Backs(attempt'[r], toast.key)
  <2>1. CASE toast.key = CONNECTION_NOTICE_KEY /\ connectionLost
    BY <2>1
  <2>2. ASSUME NEW r \in Request, Backs(attempt[r], toast.key)
        PROVE  Backs(attempt'[r], toast.key)
    <3>1. r \notin failed
      BY <1>7, <2>2 DEF Backs
    <3>2. r \notin pending
      BY <1>4, <3>1 DEF Running
    <3>3. QED
      BY <1>3, <2>2, <3>2
  <2>3. QED
    BY <1>7, <2>1, <2>2 DEF LastingNoticesAreShown, Backs
<1>8. QED
  <2> HIDE DEF told, keys
  <2>1. ASSUME NEW toast \in toasts'.list, toast.persistent
        PROVE  \/ toast.key = CONNECTION_NOTICE_KEY /\ connectionLost'
               \/ \E r \in Request : Backs(attempt'[r], toast.key)
    BY <1>1, <1>5, <1>6, <1>7, <2>1
  <2>2. QED
    BY <1>1, <2>1 DEF LastingNoticesAreShown, Backs, Running, Key

\* An action asked for takes the place of none that backs a notice.
LEMMA AskLeavesNoNotice ==
  ASSUME ActionInv, LastingNoticesAreShown, NEW v \in View, NEW verb \in Verb,
         NEW asked \in [View -> CardState], Ask(v, verb, asked)
  PROVE  LastingNoticesAreShown'
<1>1. PICK r \in Unsent :
        LET page == [toasts |-> toasts, card |-> asked,
                     attempt |-> [attempt EXCEPT ![r] = Asked(v, verb)]]
        IN IF readyState = "open" THEN Send(r) /\ Become(page)
           ELSE Refuse(r) /\ Become(ended(page, r, "not connected"))
  BY DEF Ask
<1> DEFINE b == Asked(v, verb)
           as == [attempt EXCEPT ![r] = b]
           page == [toasts |-> toasts, card |-> asked, attempt |-> as]
<1>2. r \in Request /\ ~attempt[r].shown
  BY <1>1 DEF Unsent, ActionInv, ActionsAreAskedOnce
<1>3. b \in Action /\ Running(b)
  BY AskedIsAnAction DEF ActionInv, CardTypes
<1>4. UNCHANGED <<readyState, connectionLost>>
  BY <1>1 DEF Send, Refuse, connection
<1> HIDE DEF b
<1>5. /\ as \in [Request -> Action] /\ as[r] = b
      /\ \A q \in Request \ {r} : as[q] = attempt[q]
  BY <1>2, <1>3 DEF ActionInv, CardTypes
<1>6. IF readyState = "open" THEN toasts' = toasts /\ attempt' = as
      ELSE /\ toasts' = ended(page, r, "not connected").toasts
           /\ attempt' = ended(page, r, "not connected").attempt
  BY <1>1 DEF Become, b
<1> HIDE DEF as
<1>7. Backed(toasts, as)
  <2>1. ASSUME NEW q \in Request, NEW key, Backs(attempt[q], key) PROVE Backs(as[q], key)
    BY <1>2, <1>5, <2>1 DEF Backs
  <2>2. QED
    BY <2>1 DEF Backed, Outage, Backs, LastingNoticesAreShown
<1>8. CASE readyState = "open"
  BY <1>4, <1>6, <1>7, <1>8, NoticesStay
<1>9. CASE readyState # "open"
  <2>1. page.toasts = toasts /\ page.card = asked /\ page.attempt = as
    OBVIOUS
  <2> HIDE DEF page
  <2>2. /\ page.card \in [View -> CardState] /\ page.attempt \in [Request -> Action]
        /\ Backed(page.toasts, page.attempt) /\ Running(page.attempt[r])
    BY <1>3, <1>5, <1>7, <2>1
  <2> DEFINE e == ended(page, r, "not connected")
  <2>3. Backed(e.toasts, e.attempt)
    BY <1>2, <2>2, EndsLeaveNoNotice
  <2>4. toasts' = e.toasts /\ attempt' = e.attempt
    BY <1>6, <1>9
  <2> HIDE DEF e
  <2>5. QED
    BY <1>4, <2>3, <2>4, NoticesStay
<1>10. QED
  BY <1>8, <1>9

\* A notice that comes up is its action's, which runs still or was declined.
LEMMA DelayShowsANotice ==
  ASSUME ActionInv, LastingNoticesAreShown, NEW r \in Request, DelayEnds(r)
  PROVE  LastingNoticesAreShown'
<1> DEFINE a == attempt[r]
           b == [a EXCEPT !.delay = FALSE, !.shown = ~a.settled]
<1>1. /\ a \in Action /\ a.verb # "none" /\ ~a.settled
      /\ attempt \in [Request -> Action]
  BY DEF DelayEnds, ActionInv, CardTypes, ActionsAreAskedOnce
<1>2. /\ attempt' = [attempt EXCEPT ![r] = b]
      /\ toasts' = push(toasts, Key(a), "info", TRUE)
      /\ UNCHANGED <<readyState, connectionLost>>
  BY <1>1 DEF DelayEnds, connection
<1> HIDE DEF a
<1>3. /\ b.shown /\ Key(b) = Key(a)
      /\ Running(b) \/ b.declined
      /\ Running(a) => Running(b)
      /\ a.declined => b.declined
  BY <1>1 DEF Action, Key, Running
<1> HIDE DEF b
<1>4. attempt'[r] = b /\ \A q \in Request \ {r} : attempt'[q] = attempt[q]
  BY <1>1, <1>2
<1>5. Backed(toasts, attempt')
  <2>1. ASSUME NEW q \in Request, NEW key, Backs(attempt[q], key) PROVE Backs(attempt'[q], key)
    BY <1>3, <1>4, <2>1 DEF Backs, a
  <2>2. QED
    BY <2>1 DEF Backed, Outage, Backs, LastingNoticesAreShown
<1>6. \E q \in Request : Backs(attempt'[q], Key(a))
  BY <1>3, <1>4 DEF Backs
<1>7. Backed(push(toasts, Key(a), "info", TRUE), attempt')
  BY <1>5, <1>6, StacksAreBacked
<1>8. QED
  BY <1>2, <1>7, NoticesStay

LEMMA NoticeStep ==
  ASSUME ConnectionAssumption, CardAssumption, NoticeInv, [CardsNext]_cardsVars
  PROVE  LastingNoticesAreShown'
<1>1. /\ ActionInv /\ CardTypes /\ LastingNoticesAreShown
      /\ Backed(toasts, attempt)
  BY DEF NoticeInv, ActionInv, Backed, Outage, Backs, LastingNoticesAreShown
<1>2. ASSUME UNCHANGED <<toasts, attempt, connectionLost>>,
             readyState # "open" => readyState' # "open"
      PROVE  LastingNoticesAreShown'
  BY <1>1, <1>2, NoticesStay
<1>3. CASE Opens
  <2>1. readyState # "open" /\ attempt' = attempt
    BY <1>3 DEF Opens, SocketOpens
  <2>2. CASE ~connectionLost
    <3>1. toasts' = toasts
      BY <1>3, <2>2 DEF Opens
    <3>2. QED
      BY <1>1, <2>1, <2>2, <3>1 DEF LastingNoticesAreShown
  <2>3. CASE connectionLost
    <3> DEFINE rest == dismiss(toasts, CONNECTION_NOTICE_KEY)
    <3>1. toasts' = push(rest, reconnectedKey, "info", FALSE)
      BY <1>3, <2>3 DEF Opens
    <3>2. ASSUME NEW toast \in rest.list
          PROVE  toast \in toasts.list /\ toast.key # CONNECTION_NOTICE_KEY
      BY <3>2 DEF dismiss
    <3> HIDE DEF rest
    <3>3. ASSUME NEW toast \in toasts'.list, toast.persistent PROVE toast \in rest.list
      BY <3>1, <3>3 DEF push, Replaced
    <3>4. ASSUME NEW toast \in toasts'.list, toast.persistent
          PROVE  \E r \in Request : Backs(attempt[r], toast.key)
      BY <1>1, <3>2, <3>3, <3>4 DEF Backed, Outage
    <3>5. QED
      BY <2>1, <3>4 DEF Backs, LastingNoticesAreShown
  <2>4. QED
    BY <2>2, <2>3
<1>4. CASE Closes
  BY <1>1, <1>4, CloseLeavesNoNotice
<1>5. CASE Reopens \/ UNCHANGED cardsVars
  BY <1>2, <1>5 DEF Reopens, Reopen, cardsVars, connection
<1>6. CASE TimerEnds \/ UserDismisses
  <2>1. PICK key : toasts' = dismiss(toasts, key)
    BY <1>6 DEF TimerEnds, UserDismisses
  <2>2. UNCHANGED <<attempt, connectionLost, readyState>>
    BY <1>6 DEF TimerEnds, UserDismisses, connection
  <2>3. Backed(dismiss(toasts, key), attempt)
    BY <1>1, StacksAreBacked
  <2>4. QED
    BY <2>1, <2>2, <2>3, NoticesStay
<1>7. ASSUME NEW r \in Request, BridgeHandles(r) PROVE LastingNoticesAreShown'
  BY <1>2, <1>7 DEF BridgeHandles, Handle
<1>8. ASSUME NEW r \in Request, Answered(r) PROVE LastingNoticesAreShown'
  <2>1. UNCHANGED <<readyState, connectionLost>>
    BY <1>8 DEF Answered, Deliver
  <2>2. CASE r \notin pending
    BY <1>2, <1>8, <2>1, <2>2 DEF Answered
  <2>3. CASE r \in pending
    <3> DEFINE e == ended(Page, r, answer[r])
    <3>1. toasts' = e.toasts /\ attempt' = e.attempt
      BY <1>8, <2>3 DEF Answered, Become
    <3>2. /\ Page.toasts = toasts /\ Page.card = card
          /\ Page.attempt = attempt
      BY DEF Page
    <3>3. /\ Page.card \in [View -> CardState]
          /\ Page.attempt \in [Request -> Action]
          /\ Backed(Page.toasts, Page.attempt)
          /\ Running(Page.attempt[r])
      BY <1>1, <2>3, <3>2 DEF CardTypes, ActionInv, ActionsEndWithTheirPromises
    <3>4. Backed(e.toasts, e.attempt)
      BY <3>3, EndsLeaveNoNotice
    <3> HIDE DEF e
    <3>5. QED
      BY <2>1, <3>1, <3>4, NoticesStay
  <2>4. QED
    BY <2>2, <2>3
<1>9. ASSUME NEW r \in Request, DelayEnds(r) PROVE LastingNoticesAreShown'
  BY <1>1, <1>9, DelayShowsANotice
<1>10. ASSUME NEW v \in View,
              \/ \E menu \in Menu : toggleMenu(v, menu)
              \/ closeMenu(v) \/ onCloseClick(v) \/ onRenameClick(v)
              \/ onRenameCancelled(v) \/ CloseCancelled(v)
       PROVE  LastingNoticesAreShown'
  BY <1>2, <1>10 DEF toggleMenu, closeMenu, onCloseClick, onRenameClick,
     onRenameCancelled, CloseCancelled, connection
<1>11. ASSUME NEW v \in View, \/ doMove(v) \/ doSplit(v)
                             \/ confirmClose(v) \/ onRenameSaved(v)
       PROVE  LastingNoticesAreShown'
  <2>1. PICK verb, asked : verb \in Verb /\ Clicked(asked) /\ Ask(v, verb, asked)
    BY <1>1, <1>11, AsksAreClicks
  <2>2. asked \in [View -> CardState]
    BY <2>1 DEF Clicked
  <2>3. QED
    BY <1>1, <2>1, <2>2, AskLeavesNoNotice
<1>12. ASSUME NEW v \in View, Leaves(v) PROVE LastingNoticesAreShown'
  <2>1. UNCHANGED <<toasts, connectionLost, readyState>>
    BY <1>12 DEF Leaves, connection
  <2>2. ASSUME NEW r \in Request, NEW key, Backs(attempt[r], key)
        PROVE  Backs(attempt'[r], key)
    <3> DEFINE a == attempt[r]
               b == [a EXCEPT !.view = None]
    <3>1. attempt'[r] = a \/ attempt'[r] = b
      BY <1>12 DEF Leaves
    <3>2. a \in Action
      BY <1>1 DEF CardTypes
    <3> HIDE DEF a
    <3>3. /\ b.verb = a.verb /\ b.pane = a.pane /\ b.settled = a.settled
          /\ b.declined = a.declined /\ b.shown = a.shown
      BY <3>2 DEF Action
    <3> HIDE DEF b
    <3>4. QED
      BY <2>2, <3>1, <3>3 DEF Backs, Key, Running, a
  <2>3. Backed(toasts, attempt')
    BY <1>1, <2>2 DEF Backed
  <2>4. QED
    BY <2>1, <2>3, NoticesStay
<1>13. ASSUME NEW p \in Pane, Enters(p) PROVE LastingNoticesAreShown'
  BY <1>2, <1>13 DEF Enters, connection
<1>14. QED
  BY <1>3, <1>4, <1>5, <1>6, <1>7, <1>8, <1>9, <1>10, <1>11, <1>12, <1>13 DEF CardsNext

\* A notice that stays on the screen is true, however the sockets, the answers,
\* the timers and the user come between: the outage it tells of lasts, or an
\* action it tells of runs, or was declined as same_tab (ToastService.progress;
\* connectionLost and the connection's notice in WsClient).
THEOREM LastingNoticesTellTheTruth == CardsSpec => []LastingNoticesAreTrue
<1>1. CardsInit => LastingNoticesAreShown
  BY DEF CardsInit, EmptyStack, LastingNoticesAreShown
<1>2. PromiseInv /\ ActionInv /\ LastingNoticesAreShown
      /\ [CardsNext]_cardsVars => LastingNoticesAreShown'
  BY ConnectionAssumption, CardAssumption, NoticeStep DEF NoticeInv
<1>3. LastingNoticesAreShown => LastingNoticesAreTrue
  BY DEF LastingNoticesAreShown, LastingNoticesAreTrue
<1>4. QED
  BY <1>1, <1>2, <1>3, ActionInvariance, PTL DEF CardsSpec

-----------------------------------------------------------------------------
(* Whose card an action is about, while views are not used again.             *)

\* Cards and actions that know a view only as long as it shows their pane.
OfTheirViews(cs, as) ==
  /\ \A v \in View : cs[v].for \in {None, bound[v]}
  /\ \A r \in Request : /\ as[r].pane = as[r].meant
                        /\ as[r].view # None =>
                             as[r].view \in shown /\ as[r].pane = bound[as[r].view]

\* An action that ends forgets its view, and one that is declined keeps it.
LEMMA WhereAnEndLeads ==
  ASSUME NEW page, page.attempt \in [Request -> Action], NEW r \in Request, NEW result,
         NEW e, e = ended(page, r, result)
  PROVE  LET b == e.attempt[r]
         IN \/ b.view = None /\ b.pane = None /\ b.meant = None
            \/ /\ b.view = page.attempt[r].view /\ b.pane = page.attempt[r].pane
               /\ b.meant = page.attempt[r].meant
<1> DEFINE a == page.attempt[r]
           d == [a EXCEPT !.declined = TRUE]
<1>1. e.attempt[r] = Settled(a) \/ e.attempt[r] = d
  <2>1. CASE result = "done"
    BY <2>1 DEF ended
  <2>2. CASE result = "same_tab"
    BY <2>2 DEF ended
  <2>3. CASE result \notin {"done", "same_tab"}
    BY <2>3 DEF ended
  <2>4. QED
    BY <2>1, <2>2, <2>3
<1>2. a \in Action
  OBVIOUS
<1> HIDE DEF a
<1>3. d.view = a.view /\ d.pane = a.pane /\ d.meant = a.meant
  BY <1>2 DEF Action
<1>4. Settled(a).view = None /\ Settled(a).pane = None /\ Settled(a).meant = None
  BY DEF Settled, Unasked
<1> HIDE DEF d
<1>5. QED
  BY <1>1, <1>3, <1>4 DEF a

LEMMA EndsKeepTheViews ==
  ASSUME CardAssumption, NEW page, page.card \in [View -> CardState],
         page.attempt \in [Request -> Action], OfTheirViews(page.card, page.attempt),
         NEW r \in Request, NEW result, Running(page.attempt[r]),
         NEW e, e = ended(page, r, result)
  PROVE  OfTheirViews(e.card, e.attempt)
<1> DEFINE a == page.attempt[r]
           b == e.attempt[r]
<1>1. \A q \in Request \ {r} : e.attempt[q] = page.attempt[q]
  BY AnEndEndsOne
<1>2. /\ \A v \in View : v # a.view => e.card[v] = page.card[v]
      /\ \A v \in View : e.card[v].for \in {page.card[v].for, a.meant}
  BY AnEndKeepsTheCards
<1>3. \/ b.view = None /\ b.pane = None /\ b.meant = None
      \/ b.view = a.view /\ b.pane = a.pane /\ b.meant = a.meant
  BY WhereAnEndLeads
<1>4. a.pane = a.meant /\ (a.view # None => a.view \in shown /\ a.pane = bound[a.view])
  BY DEF OfTheirViews
<1> HIDE DEF a, b
<1>5. ASSUME NEW v \in View PROVE e.card[v].for \in {None, bound[v]}
  <2>1. page.card[v].for \in {None, bound[v]}
    BY DEF OfTheirViews
  <2>2. CASE v # a.view
    BY <1>2, <2>1, <2>2
  <2>3. CASE v = a.view
    <3>1. v # None
      BY DEF CardAssumption
    <3>2. QED
      BY <1>2, <1>4, <2>1, <2>3, <3>1
  <2>4. QED
    BY <2>2, <2>3
<1>6. ASSUME NEW q \in Request
      PROVE  /\ e.attempt[q].pane = e.attempt[q].meant
             /\ e.attempt[q].view # None =>
                  e.attempt[q].view \in shown /\ e.attempt[q].pane = bound[e.attempt[q].view]
  <2>1. CASE q = r
    BY <1>3, <1>4, <2>1 DEF b
  <2>2. CASE q # r
    BY <1>1, <2>2 DEF OfTheirViews
  <2>3. QED
    BY <2>1, <2>2
<1>7. QED
  BY <1>5, <1>6 DEF OfTheirViews

\* A rename that a close rejects is shown again on its own card.
LEMMA CloseKeepsTheViews ==
  ASSUME CardAssumption, PromiseInv, ActionInv, OfTheirViews(card, attempt),
         Closes
  PROVE  OfTheirViews(card', attempt')
<1> DEFINE told == IF readyState = "open" /\ ~connectionLost
                   THEN push(toasts, CONNECTION_NOTICE_KEY, "warn", TRUE) ELSE toasts
           all == endedAll([toasts |-> told, card |-> card, attempt |-> attempt], pending)
<1>1. card' = all.card /\ attempt' = all.attempt
  BY DEF Closes, SocketCloses, rejectAllPending, Become
<1>2. /\ pending \in SUBSET Request /\ card \in [View -> CardState]
      /\ attempt \in [Request -> Action]
  BY DEF PromiseInv, ActionInv, CardTypes
<1> HIDE DEF told
<1>3. all = endedAll([toasts |-> told, card |-> card, attempt |-> attempt], pending)
  OBVIOUS
<1> HIDE DEF all
<1>4. /\ all.attempt = [r \in Request |-> IF r \in pending THEN Settled(attempt[r])
                                        ELSE attempt[r]]
      /\ all.card = [v \in View |-> all.card[v]]
      /\ \A v \in View : \/ all.card[v] = card[v]
                        \/ \E r \in pending : /\ attempt[r].view = v
                                             /\ all.card[v] =
                                                  Reopened(card[v], attempt[r].meant)
  BY <1>2, <1>3, WhatACloseDoes
<1>5. ASSUME NEW v \in View PROVE all.card[v].for \in {None, bound[v]}
  <2>1. card[v].for \in {None, bound[v]}
    BY DEF OfTheirViews
  <2>2. CASE all.card[v] = card[v]
    BY <2>1, <2>2
  <2>3. ASSUME NEW r \in pending, attempt[r].view = v,
               all.card[v] = Reopened(card[v], attempt[r].meant)
        PROVE  all.card[v].for \in {None, bound[v]}
    <3>1. attempt[r].meant \in Pane \cup {None}
      BY <1>2 DEF Action
    <3>2. all.card[v].for = IF card[v].for = None THEN attempt[r].meant ELSE card[v].for
      BY <1>2, <2>3, <3>1, ReopenedIsACard
    <3>3. v # None
      BY DEF CardAssumption
    <3>4. attempt[r].meant = bound[v]
      BY <1>2, <2>3, <3>3 DEF OfTheirViews
    <3>5. QED
      BY <2>1, <3>2, <3>4
  <2>4. QED
    BY <1>4, <2>2, <2>3
<1>6. ASSUME NEW a
      PROVE  /\ Settled(a).view = None
             /\ Settled(a).pane = None /\ Settled(a).meant = None
  BY DEF Settled, Unasked
<1>7. ASSUME NEW r \in Request
      PROVE  /\ all.attempt[r].pane = all.attempt[r].meant
             /\ all.attempt[r].view # None =>
                  all.attempt[r].view \in shown /\ all.attempt[r].pane = bound[all.attempt[r].view]
  <2>1. CASE r \in pending
    <3>1. all.attempt[r] = Settled(attempt[r])
      BY <1>4, <2>1
    <3>2. QED
      BY <1>6, <3>1
  <2>2. CASE r \notin pending
    <3>1. all.attempt[r] = attempt[r]
      BY <1>4, <2>2
    <3>2. QED
      BY <3>1 DEF OfTheirViews
  <2>3. QED
    BY <2>1, <2>2
<1>8. QED
  BY <1>1, <1>5, <1>7 DEF OfTheirViews

\* An action asked for is about the pane the view shows, and so is its dialog.
LEMMA AskKeepsTheViews ==
  ASSUME CardAssumption, ActionInv, OfTheirViews(card, attempt), NEW v \in shown,
         NEW verb \in Verb, NEW asked, Clicked(asked), Ask(v, verb, asked)
  PROVE  OfTheirViews(card', attempt')
<1>1. PICK r \in Unsent :
        LET page == [toasts |-> toasts, card |-> asked,
                     attempt |-> [attempt EXCEPT ![r] = Asked(v, verb)]]
        IN IF readyState = "open" THEN Send(r) /\ Become(page)
           ELSE Refuse(r) /\ Become(ended(page, r, "not connected"))
  BY DEF Ask
<1> DEFINE b == Asked(v, verb)
           as == [attempt EXCEPT ![r] = b]
           page == [toasts |-> toasts, card |-> asked, attempt |-> as]
<1>2. r \in Request /\ v \in View
  BY <1>1 DEF Unsent, ActionInv, CardTypes
<1>3. b \in Action /\ Running(b)
  BY <1>2, AskedIsAnAction DEF ActionInv, CardTypes
<1>4. b.view = v /\ b.pane = bound[v] /\ b.meant = bound[v]
  BY <1>2 DEF Asked, Unasked, For, OfTheirViews
<1> HIDE DEF b
<1>5. /\ as \in [Request -> Action] /\ as[r] = b
      /\ \A q \in Request \ {r} : as[q] = attempt[q]
  BY <1>2, <1>3 DEF ActionInv, CardTypes
<1>6. IF readyState = "open" THEN card' = asked /\ attempt' = as
      ELSE /\ card' = ended(page, r, "not connected").card
           /\ attempt' = ended(page, r, "not connected").attempt
  BY <1>1 DEF Become, b
<1> HIDE DEF as
<1>7. OfTheirViews(asked, as)
  BY <1>4, <1>5 DEF OfTheirViews, Clicked
<1>8. CASE readyState = "open"
  BY <1>6, <1>7, <1>8
<1>9. CASE readyState # "open"
  <2>1. page.card = asked /\ page.attempt = as
    OBVIOUS
  <2> HIDE DEF page
  <2>2. /\ page.card \in [View -> CardState] /\ page.attempt \in [Request -> Action]
        /\ OfTheirViews(page.card, page.attempt) /\ Running(page.attempt[r])
    BY <1>3, <1>5, <1>7, <2>1 DEF Clicked
  <2> DEFINE e == ended(page, r, "not connected")
  <2>3. OfTheirViews(e.card, e.attempt)
    BY <1>2, <2>2, EndsKeepTheViews
  <2>4. card' = e.card /\ attempt' = e.attempt
    BY <1>6, <1>9
  <2> HIDE DEF e
  <2>5. QED
    BY <2>3, <2>4
<1>10. QED
  BY <1>8, <1>9

LEMMA ViewStep ==
  ASSUME ConnectionAssumption, CardAssumption, Virtualized = FALSE, ViewInv,
         [CardsNext]_cardsVars
  PROVE  (ViewsHoldTheirPane /\ ActsOnItsOwnCard)'
<1>1. /\ PromiseInv /\ ActionInv /\ CardTypes /\ OfTheirViews(card, attempt)
      /\ \A v \in View \ shown : bound[v] = None
  BY DEF ViewInv, ActionInv, ViewsHoldTheirPane, ActsOnItsOwnCard,
     OfTheirViews
<1>2. ASSUME OfTheirViews(card', attempt'), UNCHANGED <<bound, shown>>
      PROVE  (ViewsHoldTheirPane /\ ActsOnItsOwnCard)'
  BY <1>1, <1>2 DEF ViewsHoldTheirPane, ActsOnItsOwnCard, OfTheirViews
<1>3. CASE UNCHANGED <<bound, shown, card, attempt>>
  <2>1. OfTheirViews(card', attempt')
    BY <1>1, <1>3
  <2>2. QED
    BY <1>2, <1>3, <2>1
<1>4. CASE \/ Opens \/ Reopens \/ TimerEnds \/ UserDismisses
           \/ UNCHANGED cardsVars
  BY <1>3, <1>4 DEF Opens, Reopens, TimerEnds, UserDismisses, cardsVars
<1>5. ASSUME NEW r \in Request, BridgeHandles(r)
      PROVE  (ViewsHoldTheirPane /\ ActsOnItsOwnCard)'
  BY <1>3, <1>5 DEF BridgeHandles
<1>6. CASE Closes
  <2>1. OfTheirViews(card', attempt')
    BY <1>1, <1>6, CloseKeepsTheViews
  <2>2. QED
    BY <1>2, <1>6, <2>1 DEF Closes
<1>7. ASSUME NEW r \in Request, Answered(r)
      PROVE  (ViewsHoldTheirPane /\ ActsOnItsOwnCard)'
  <2>1. UNCHANGED <<bound, shown>>
    BY <1>7 DEF Answered
  <2>2. CASE r \notin pending
    BY <1>3, <1>7, <2>1, <2>2 DEF Answered
  <2>3. CASE r \in pending
    <3> DEFINE e == ended(Page, r, answer[r])
    <3>1. card' = e.card /\ attempt' = e.attempt
      BY <1>7, <2>3 DEF Answered, Become
    <3>2. Page.card = card /\ Page.attempt = attempt
      BY DEF Page
    <3>3. /\ Page.card \in [View -> CardState]
          /\ Page.attempt \in [Request -> Action]
          /\ OfTheirViews(Page.card, Page.attempt)
          /\ Running(Page.attempt[r])
      BY <1>1, <2>3, <3>2 DEF CardTypes, ActionInv, ActionsEndWithTheirPromises
    <3>4. OfTheirViews(e.card, e.attempt)
      BY <3>3, EndsKeepTheViews
    <3> HIDE DEF e
    <3>5. OfTheirViews(card', attempt')
      BY <3>1, <3>4
    <3>6. QED
      BY <1>2, <2>1, <3>5
  <2>4. QED
    BY <2>2, <2>3
<1>8. ASSUME NEW r \in Request, DelayEnds(r)
      PROVE  (ViewsHoldTheirPane /\ ActsOnItsOwnCard)'
  <2> DEFINE a == attempt[r]
             b == [a EXCEPT !.delay = FALSE, !.shown = ~a.settled]
  <2>1. /\ a \in Action /\ attempt \in [Request -> Action]
        /\ attempt' = [attempt EXCEPT ![r] = b] /\ UNCHANGED <<bound, shown, card>>
    BY <1>1, <1>8 DEF DelayEnds, CardTypes
  <2> HIDE DEF a
  <2>2. b.view = a.view /\ b.pane = a.pane /\ b.meant = a.meant
    BY <2>1 DEF Action
  <2> HIDE DEF b
  <2>3. attempt'[r] = b /\ \A q \in Request \ {r} : attempt'[q] = attempt[q]
    BY <2>1
  <2>4. OfTheirViews(card', attempt')
    BY <1>1, <2>1, <2>2, <2>3 DEF OfTheirViews, a
  <2>5. QED
    BY <1>2, <2>1, <2>4
<1>9. ASSUME NEW v \in View,
             \/ \E menu \in Menu : toggleMenu(v, menu)
             \/ closeMenu(v) \/ onCloseClick(v) \/ onRenameClick(v)
             \/ onRenameCancelled(v) \/ CloseCancelled(v)
      PROVE  (ViewsHoldTheirPane /\ ActsOnItsOwnCard)'
  <2>1. UNCHANGED <<bound, shown, attempt>>
    BY <1>9 DEF toggleMenu, closeMenu, onCloseClick, onRenameClick,
       onRenameCancelled, CloseCancelled
  <2>2. Clicked(card')
    BY <1>1, <1>9, ClicksAreClicks
  <2>3. OfTheirViews(card', attempt')
    BY <1>1, <2>1, <2>2 DEF OfTheirViews, Clicked
  <2>4. QED
    BY <1>2, <2>1, <2>3
<1>10. ASSUME NEW v \in View, \/ doMove(v) \/ doSplit(v)
                             \/ confirmClose(v) \/ onRenameSaved(v)
       PROVE  (ViewsHoldTheirPane /\ ActsOnItsOwnCard)'
  <2>1. PICK verb, asked : verb \in Verb /\ Clicked(asked) /\ Ask(v, verb, asked)
    BY <1>1, <1>10, AsksAreClicks
  <2>2. v \in shown
    BY <1>1, <1>10, AsksAreClicks
  <2>3. OfTheirViews(card', attempt')
    BY <1>1, <2>1, <2>2, AskKeepsTheViews
  <2>4. UNCHANGED <<bound, shown>>
    BY <2>1 DEF Ask
  <2>5. QED
    BY <1>2, <2>3, <2>4
<1>11. ASSUME NEW v \in View, Leaves(v)
       PROVE  (ViewsHoldTheirPane /\ ActsOnItsOwnCard)'
  <2>1. /\ shown' = shown \ {v} /\ bound' = [bound EXCEPT ![v] = None]
        /\ card' = [card EXCEPT ![v] = Fresh]
        /\ attempt' = [r \in Request |-> IF attempt[r].view = v
                                         THEN [attempt[r] EXCEPT !.view = None] ELSE attempt[r]]
    BY <1>11 DEF Leaves
  <2>2. /\ bound \in [View -> Pane \cup {None}] /\ card \in [View -> CardState]
        /\ attempt \in [Request -> Action]
    BY <1>1 DEF CardTypes
  <2>3. \A w \in View \ shown' : bound'[w] = None
    BY <1>1, <2>1, <2>2
  <2>4. \A w \in View : card'[w].for \in {None, bound'[w]}
    BY <1>1, <2>1, <2>2 DEF OfTheirViews, Fresh
  <2>5. ASSUME NEW r \in Request
        PROVE  /\ attempt'[r].pane = attempt'[r].meant
               /\ attempt'[r].view # None =>
                    attempt'[r].view \in shown' /\ attempt'[r].pane = bound'[attempt'[r].view]
    <3> DEFINE a == attempt[r]
               b == [a EXCEPT !.view = None]
    <3>1. a \in Action /\ attempt'[r] = IF a.view = v THEN b ELSE a
      BY <2>1, <2>2
    <3>2. a.pane = a.meant /\ (a.view # None => a.view \in shown /\ a.pane = bound[a.view])
      BY <1>1 DEF OfTheirViews
    <3> HIDE DEF a
    <3>3. b.view = None /\ b.pane = a.pane /\ b.meant = a.meant
      BY <3>1 DEF Action
    <3> HIDE DEF b
    <3>4. a.view # None => a.view \in View
      BY <3>1 DEF Action
    <3>5. CASE a.view = v
      <4>1. attempt'[r] = b
        BY <3>1, <3>5
      <4>2. QED
        BY <3>2, <3>3, <4>1
    <3>6. CASE a.view # v
      <4>1. attempt'[r] = a
        BY <3>1, <3>6
      <4>2. a.view # None => a.view \in shown' /\ a.pane = bound'[a.view]
        BY <2>1, <2>2, <3>2, <3>4, <3>6
      <4>3. QED
        BY <3>2, <4>1, <4>2
    <3>7. QED
      BY <3>5, <3>6
  <2>6. QED
    BY <2>3, <2>4, <2>5 DEF ViewsHoldTheirPane, ActsOnItsOwnCard
<1>12. ASSUME NEW p \in Pane, Enters(p)
       PROVE  (ViewsHoldTheirPane /\ ActsOnItsOwnCard)'
  <2>1. PICK v \in View \ shown : bound' = [bound EXCEPT ![v] = p] /\ shown' = shown \cup {v}
    BY <1>12 DEF Enters
  <2>2. UNCHANGED <<card, attempt>> /\ bound[v] = None /\ bound \in [View -> Pane \cup {None}]
    BY <1>1, <1>12 DEF Enters, CardTypes
  <2>3. \A w \in View : w # v => bound'[w] = bound[w]
    BY <2>1, <2>2
  <2>4. \A w \in View : card'[w].for \in {None, bound'[w]}
    BY <1>1, <2>2, <2>3 DEF OfTheirViews
  <2>5. ASSUME NEW r \in Request, attempt[r].view # None
        PROVE  attempt[r].view \in shown' /\ attempt[r].pane = bound'[attempt[r].view]
    <3>1. attempt[r].view \in shown /\ attempt[r].pane = bound[attempt[r].view]
      BY <1>1, <2>5 DEF OfTheirViews
    <3>2. QED
      BY <1>1, <2>1, <2>3, <3>1 DEF CardTypes
  <2>6. \A w \in View \ shown' : bound'[w] = None
    BY <1>1, <2>1, <2>3
  <2>7. \A r \in Request : attempt[r].pane = attempt[r].meant
    BY <1>1 DEF OfTheirViews
  <2>8. QED
    BY <2>2, <2>4, <2>5, <2>6, <2>7 DEF ViewsHoldTheirPane, ActsOnItsOwnCard
<1>13. QED
  BY <1>4, <1>5, <1>6, <1>7, <1>8, <1>9, <1>10, <1>11, <1>12 DEF CardsNext

\* In a column that destroys the card of a pane that leaves, whatever is asked
\* through a menu or a dialog reaches the pane it was opened on, "never the
\* neighbour's", however late it is confirmed and whatever has left or entered
\* meanwhile (openspec/specs/board-card-actions/spec.md; the bound pane of
\* Card).
THEOREM ActionsReachTheirOwnPane ==
  ASSUME Virtualized = FALSE
  PROVE  CardsSpec => []ActsOnItsOwnCard
<1>1. CardsInit => ViewsHoldTheirPane /\ ActsOnItsOwnCard
  <2> SUFFICES ASSUME CardsInit PROVE ViewsHoldTheirPane /\ ActsOnItsOwnCard
    OBVIOUS
  <2>1. /\ \A v \in View : bound[v] = None /\ card[v].for = None
        /\ \A r \in Request : attempt[r] = Unasked
    BY DEF CardsInit, Fresh
  <2>2. /\ Unasked.view = None /\ Unasked.pane = None /\ Unasked.meant = None
    BY DEF Unasked
  <2>3. QED
    BY <2>1, <2>2 DEF ViewsHoldTheirPane, ActsOnItsOwnCard
<1>2. PromiseInv /\ ActionInv
      /\ ViewsHoldTheirPane /\ ActsOnItsOwnCard
      /\ [CardsNext]_cardsVars => (ViewsHoldTheirPane /\ ActsOnItsOwnCard)'
  BY ConnectionAssumption, CardAssumption, ViewStep DEF ViewInv
<1>3. QED
  BY <1>1, <1>2, ActionInvariance, PTL DEF CardsSpec
-----------------------------------------------------------------------------
(* The stack: one notice under a key, and a timer for each that leaves by  *)
(* itself.                                                                 *)

\* The stack is sound if its timers are those of the toasts that are not persistent.
LEMMA SoundStacks ==
  ASSUME NEW stack,
         \A s, t \in stack.list : s.key = t.key => s = t,
         \A key : key \in stack.timers <=> \E t \in stack.list : ~t.persistent /\ t.key = key
  PROVE  StackIsSound(stack)
<1> DEFINE leaving == {toast.key : toast \in {t \in stack.list : ~t.persistent}}
<1>1. \A key : key \in stack.timers <=> key \in leaving
  OBVIOUS
<1>2. stack.timers = leaving
  BY <1>1
<1>3. QED
  BY <1>2 DEF StackIsSound

LEMMA TimersOfStacks ==
  ASSUME NEW stack, StackIsSound(stack)
  PROVE  /\ \A s, t \in stack.list : s.key = t.key => s = t
         /\ \A key : key \in stack.timers <=> \E t \in stack.list : ~t.persistent /\ t.key = key
<1>1. /\ \A s, t \in stack.list : s.key = t.key => s = t
      /\ stack.timers = {toast.key : toast \in {t \in stack.list : ~t.persistent}}
  BY DEF StackIsSound
<1>2. QED
  BY <1>1

\* What ToastService does to a stack leaves it sound.
LEMMA DismissalsAreSound ==
  ASSUME NEW stack, StackIsSound(stack), NEW key PROVE StackIsSound(dismiss(stack, key))
<1> DEFINE new == dismiss(stack, key)
<1>1. /\ \A s, t \in stack.list : s.key = t.key => s = t
      /\ \A k : k \in stack.timers <=> \E t \in stack.list : ~t.persistent /\ t.key = k
  BY TimersOfStacks
<1>2. /\ \A t : t \in new.list <=> t \in stack.list /\ t.key # key
      /\ \A k : k \in new.timers <=> k \in stack.timers /\ k # key
  BY DEF dismiss
<1> HIDE DEF new
<1>3. \A k : k \in new.timers <=> \E t \in new.list : ~t.persistent /\ t.key = k
  BY <1>1, <1>2
<1>4. StackIsSound(new)
  BY <1>1, <1>2, <1>3, SoundStacks
<1>5. QED
  BY <1>4 DEF new

LEMMA PushesAreSound ==
  ASSUME NEW stack, StackIsSound(stack), NEW key, NEW level, NEW persistent \in BOOLEAN
  PROVE  StackIsSound(push(stack, key, level, persistent))
<1> DEFINE new == push(stack, key, level, persistent)
           toast == [key |-> key, level |-> level, persistent |-> persistent]
<1>1. /\ \A s, t \in stack.list : s.key = t.key => s = t
      /\ \A k : k \in stack.timers <=> \E t \in stack.list : ~t.persistent /\ t.key = k
  BY TimersOfStacks
<1>2. /\ \A t : t \in new.list <=> (t \in stack.list /\ t.key # key) \/ t = toast
      /\ \A k : k \in new.timers <=> (k \in stack.timers /\ k # key) \/ (k = key /\ ~persistent)
  BY DEF push, Replaced
<1>3. toast.key = key /\ toast.persistent = persistent
  OBVIOUS
<1> HIDE DEF new, toast
<1>4. \A k : k \in new.timers <=> \E t \in new.list : ~t.persistent /\ t.key = k
  <2>1. ASSUME NEW k, k \in new.timers PROVE \E t \in new.list : ~t.persistent /\ t.key = k
    BY <1>1, <1>2, <1>3, <2>1
  <2>2. ASSUME NEW t \in new.list, ~t.persistent PROVE t.key \in new.timers
    BY <1>1, <1>2, <1>3, <2>2
  <2>3. QED
    BY <2>1, <2>2
<1>5. \A s, t \in new.list : s.key = t.key => s = t
  BY <1>1, <1>2, <1>3
<1>6. StackIsSound(new)
  BY <1>4, <1>5, SoundStacks
<1>7. QED
  BY <1>6 DEF new

LEMMA ErrorsAreSound ==
  ASSUME NEW stack, StackIsSound(stack), NEW keys PROVE StackIsSound(pushErrors(stack, keys))
<1> DEFINE new == pushErrors(stack, keys)
           error(key) == [key |-> key, level |-> "error", persistent |-> FALSE]
<1>1. /\ \A s, t \in stack.list : s.key = t.key => s = t
      /\ \A k : k \in stack.timers <=> \E t \in stack.list : ~t.persistent /\ t.key = k
  BY TimersOfStacks
<1>2. /\ \A t : t \in new.list <=> \/ t \in stack.list /\ t.key \notin keys
                                  \/ \E key \in keys : t = error(key)
      /\ \A k : k \in new.timers <=> k \in stack.timers \/ k \in keys
  BY DEF pushErrors
<1>3. \A key : error(key).key = key /\ ~error(key).persistent
  OBVIOUS
<1> HIDE DEF new, error
<1>4. \A k : k \in new.timers <=> \E t \in new.list : ~t.persistent /\ t.key = k
  <2>1. ASSUME NEW k \in new.timers PROVE \E t \in new.list : ~t.persistent /\ t.key = k
    <3>1. CASE k \in keys
      BY <1>2, <1>3, <3>1
    <3>2. CASE k \notin keys
      BY <1>1, <1>2, <3>2
    <3>3. QED
      BY <3>1, <3>2
  <2>2. ASSUME NEW t \in new.list, ~t.persistent PROVE t.key \in new.timers
    BY <1>1, <1>2, <1>3, <2>2
  <2>3. QED
    BY <2>1, <2>2
<1>5. \A s, t \in new.list : s.key = t.key => s = t
  BY <1>1, <1>2, <1>3
<1>6. StackIsSound(new)
  BY <1>4, <1>5, SoundStacks
<1>7. QED
  BY <1>6 DEF new

LEMMA EndsAreSound ==
  ASSUME NEW page, StackIsSound(page.toasts), NEW r, NEW result
  PROVE  StackIsSound(ended(page, r, result).toasts)
<1> DEFINE a == page.attempt[r]
<1>1. ended(page, r, result).toasts =
        IF result = "done" THEN resolve(page.toasts, a)
        ELSE IF result = "same_tab" THEN dismiss(page.toasts, noticeKey("move", Held(a)))
        ELSE fail(page.toasts, a)
  BY DEF ended
<1> HIDE DEF a
<1>2. StackIsSound(resolve(page.toasts, a))
  BY DismissalsAreSound DEF resolve
<1>3. StackIsSound(dismiss(page.toasts, noticeKey("move", Held(a))))
  BY DismissalsAreSound
<1>4. StackIsSound(fail(page.toasts, a))
  BY PushesAreSound DEF fail
<1>5. QED
  BY <1>1, <1>2, <1>3, <1>4

LEMMA StackStep ==
  ASSUME StackIsSound(toasts), [CardsNext]_cardsVars PROVE StackIsSound(toasts')
<1>1. ASSUME toasts' = toasts PROVE StackIsSound(toasts')
  BY <1>1
<1>2. CASE Opens
  <2>1. \/ toasts' = toasts
        \/ toasts' = push(dismiss(toasts, CONNECTION_NOTICE_KEY), reconnectedKey, "info", FALSE)
    BY <1>2 DEF Opens
  <2>2. QED
    BY <2>1, DismissalsAreSound, PushesAreSound
<1>3. CASE Closes
  <2> DEFINE told == IF readyState = "open" /\ ~connectionLost
                     THEN push(toasts, CONNECTION_NOTICE_KEY, "warn", TRUE) ELSE toasts
  <2>1. StackIsSound(told)
    BY PushesAreSound
  <2>2. toasts' = endedAll([toasts |-> told, card |-> card, attempt |-> attempt],
                           rejectAllPending).toasts
    BY <1>3 DEF Closes, Become
  <2> HIDE DEF told
  <2>3. PICK keys : toasts' = pushErrors(told, keys)
    BY <2>2 DEF endedAll
  <2>4. QED
    BY <2>1, <2>3, ErrorsAreSound
<1>4. CASE TimerEnds \/ UserDismisses
  <2>1. PICK key : toasts' = dismiss(toasts, key)
    BY <1>4 DEF TimerEnds, UserDismisses
  <2>2. QED
    BY <2>1, DismissalsAreSound
<1>5. ASSUME NEW r \in Request, Answered(r) PROVE StackIsSound(toasts')
  <2>1. toasts' = toasts \/ toasts' = ended(Page, r, answer[r]).toasts
    BY <1>5 DEF Answered, Become
  <2>2. Page.toasts = toasts
    BY DEF Page
  <2>3. QED
    BY <2>1, <2>2, EndsAreSound
<1>6. ASSUME NEW r \in Request, DelayEnds(r) PROVE StackIsSound(toasts')
  BY <1>6, PushesAreSound DEF DelayEnds
<1>7. ASSUME NEW v, NEW verb, NEW asked, Ask(v, verb, asked) PROVE StackIsSound(toasts')
  <2>1. PICK r : LET page == [toasts |-> toasts, card |-> asked,
                              attempt |-> [attempt EXCEPT ![r] = Asked(v, verb)]]
                 IN IF readyState = "open"
                    THEN Send(r) /\ Become(page)
                    ELSE Refuse(r) /\ Become(ended(page, r, "not connected"))
    BY <1>7 DEF Ask
  <2> DEFINE page == [toasts |-> toasts, card |-> asked,
                      attempt |-> [attempt EXCEPT ![r] = Asked(v, verb)]]
  <2>2. toasts' = page.toasts \/ toasts' = ended(page, r, "not connected").toasts
    BY <2>1 DEF Become
  <2>3. page.toasts = toasts
    OBVIOUS
  <2> HIDE DEF page
  <2>4. QED
    BY <2>2, <2>3, EndsAreSound
<1>8. ASSUME NEW v \in View, doMove(v) \/ doSplit(v) \/ confirmClose(v) \/ onRenameSaved(v)
      PROVE  StackIsSound(toasts')
  BY <1>7, <1>8 DEF doMove, doSplit, confirmClose, onRenameSaved
<1>9. ASSUME NEW v \in View,
             \/ \E menu \in Menu : toggleMenu(v, menu)
             \/ closeMenu(v) \/ onCloseClick(v) \/ onRenameClick(v)
             \/ onRenameCancelled(v) \/ CloseCancelled(v) \/ Leaves(v)
      PROVE  StackIsSound(toasts')
  BY <1>1, <1>9 DEF toggleMenu, closeMenu, onCloseClick, onRenameClick,
     onRenameCancelled, CloseCancelled, Leaves
<1>10. CASE Reopens \/ (\E r \in Request : BridgeHandles(r)) \/ (\E p \in Pane : Enters(p))
            \/ UNCHANGED cardsVars
  BY <1>1, <1>10 DEF Reopens, BridgeHandles, Enters, cardsVars
<1>11. QED
  BY <1>2, <1>3, <1>4, <1>5, <1>6, <1>8, <1>9, <1>10 DEF CardsNext

\* Under a key there is one notice, and its timer runs exactly if it leaves by
\* itself: none stays for ever for want of a timer, and no timer outlives its
\* notice to take the next one of its key away (push and clearTimer of
\* toast.service.ts).
THEOREM EveryToastHasItsTimer == CardsSpec => []TimersMatchToasts
<1>1. CardsInit => TimersMatchToasts
  <2> SUFFICES ASSUME CardsInit PROVE TimersMatchToasts
    OBVIOUS
  <2>1. toasts.list = {} /\ toasts.timers = {}
    BY DEF CardsInit, EmptyStack
  <2>2. StackIsSound(toasts)
    BY <2>1, SoundStacks
  <2>3. QED
    BY <2>2 DEF TimersMatchToasts
<1>2. TimersMatchToasts /\ [CardsNext]_cardsVars => TimersMatchToasts'
  BY StackStep DEF TimersMatchToasts
<1>3. QED
  BY <1>1, <1>2, PTL DEF CardsSpec
=============================================================================
