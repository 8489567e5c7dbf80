---------------------------- MODULE PaneTerminal ----------------------------
(***************************************************************************)
(* The terminal of the pane detail view,                                   *)
(* apps/web/src/app/pane-detail/pane-terminal.ts, with what its owner      *)
(* pane-detail.ts does to it, over the bridge's output feed.               *)
(*                                                                         *)
(* A load reads the pane and then subscribes to it, and nothing makes one  *)
(* load wait for another: navigation, a retry, a new scrollback depth, the *)
(* end of the pane and the loss of the WebSocket may all come in between.  *)
(* Every answer is checked against the pane in view (`isStale`), not       *)
(* against the load that asked.                                            *)
(*                                                                         *)
(* What a pane shows is a version number.  The bridge is its side of each  *)
(* subscription: the pane, and the last snapshot sent on it, against which *)
(* the next delta is computed (OutputPoller).  Frames and answers of one   *)
(* WebSocket arrive in order, and a frame that is not of the subscription  *)
(* in hand is dropped, so a frame is handled in the step that emits it and *)
(* a subscription is made in the step that answers it.  Ids of finished    *)
(* loads and of forgotten subscriptions are used again.                    *)
(***************************************************************************)
EXTENDS Integers, FiniteSets

CONSTANTS
  Pane, Load, Sub,
  MaxVersion,     \* bound: changes of a pane's contents
  MaxFailures     \* bound: requests the bridge answers with an error

Version == 0 .. MaxVersion
NoPane == "no pane"
NoSub == "no subscription"

ASSUME TerminalAssumption ==
  /\ MaxVersion \in Nat /\ MaxFailures \in Nat
  /\ NoPane \notin Pane /\ "garbled" \notin Pane /\ NoSub \notin Sub

VARIABLES
  pane,         \* what each pane shows
  connected,    \* WsClient.connected
  term,         \* the terminal is attached and not disposed
  view,         \* currentHost, currentId
  ended,        \* end() was called for the pane in view
  loads,        \* load -> how far it is
  sub,          \* subscriptionId; `subscribed` is sub # NoSub
  feed,         \* subscription -> the bridge's side of it
  snapshot,     \* lastSnapshot; frameReceived is snapshot # Empty
  loading,
  failed,       \* `failure` is set
  unavailable,  \* live updates were refused for the last load
  failures      \* error answers so far

bridgeVars == <<pane, feed, failures>>
stateVars == <<loading, failed, unavailable>>
vars == <<bridgeVars, connected, term, view, ended, loads, sub, snapshot, stateVars>>

Idle == [stage |-> "idle"]
NoFeed == [pane |-> NoPane]
Empty == [of |-> NoPane]
\* A delta laid over a snapshot it was not computed against.
Garbled == [of |-> "garbled"]

LoadState == {Idle} \cup [stage : {"reading"}, pane : Pane, since : Version]
                    \cup [stage : {"subscribing"}, pane : Pane]
FeedState == {NoFeed} \cup [pane : Pane, last : Version, primed : BOOLEAN]
Screen == {Empty, Garbled} \cup [of : Pane, version : Version]

TypeOK ==
  /\ pane \in [Pane -> Version]
  /\ connected \in BOOLEAN /\ term \in BOOLEAN /\ ended \in BOOLEAN
  /\ view \in Pane \cup {NoPane}
  /\ loads \in [Load -> LoadState]
  /\ sub \in Sub \cup {NoSub}
  /\ feed \in [Sub -> FeedState]
  /\ snapshot \in Screen
  /\ loading \in BOOLEAN /\ failed \in BOOLEAN /\ unavailable \in BOOLEAN
  /\ failures \in 0 .. MaxFailures

Init ==
  /\ pane = [p \in Pane |-> 0]
  /\ connected = FALSE
  /\ term = TRUE
  /\ view = NoPane
  /\ ended = FALSE
  /\ loads = [l \in Load |-> Idle]
  /\ sub = NoSub
  /\ feed = [s \in Sub |-> NoFeed]
  /\ snapshot = Empty
  /\ loading = FALSE /\ failed = FALSE /\ unavailable = FALSE
  /\ failures = 0

-----------------------------------------------------------------------------
(* Helpers.                                                                *)

InFlight == {l \in Load : loads[l] # Idle}
Reading(l) == loads[l].stage = "reading"
Subscribing(l) == loads[l].stage = "subscribing"
FreeSub == {s \in Sub : feed[s] = NoFeed /\ s # sub}

\* Mutant: a response is never checked against the pane in view.
NeverStale(p) == FALSE

IsStale(p) == view # p


\* Nobody is left to feed: the pane moved on, or ended, during the subscribe.
Unwanted(p) == IsStale(p) \/ ended


\* teardownSubscription, at the bridge: the subscription in hand is dropped.
TornDown == [s \in Sub |-> IF s = sub THEN NoFeed ELSE feed[s]]

Settled(l) ==
  /\ loads' = [loads EXCEPT ![l] = Idle]
  /\ loading' = FALSE

\* load, up to its first await: a no-op on a pane that has ended, else the
\* view is reset and the read goes out.
Begin(l, p) ==
  /\ term
  /\ ~(ended /\ view = p)
  /\ loads[l] = Idle
  /\ Cardinality(FreeSub) > Cardinality(InFlight)
  /\ ended' = FALSE
  /\ view' = p
  /\ sub' = NoSub
  /\ feed' = TornDown
  /\ snapshot' = Empty
  /\ loads' = [loads EXCEPT ![l] = [stage |-> "reading", pane |-> p, since |-> pane[p]]]
  /\ loading' = TRUE
  /\ failed' = FALSE
  /\ unavailable' = FALSE

-----------------------------------------------------------------------------
(* The owner: routes, retries, settings, the end of the pane.              *)

\* The route changes while the WebSocket is open.
Navigate(l, p) ==
  /\ connected
  /\ p # view
  /\ Begin(l, p)
  /\ UNCHANGED <<pane, failures, connected, term>>

\* retry, and applyScrollback when the depth setting changes.
Reload(l) ==
  /\ connected
  /\ view # NoPane
  /\ Begin(l, view)
  /\ UNCHANGED <<pane, failures, connected, term>>

\* The same while the WebSocket is down: `request` rejects at once.
ReloadOffline ==
  /\ term /\ ~connected
  /\ view # NoPane /\ ~ended
  /\ sub' = NoSub
  /\ snapshot' = Empty
  /\ loading' = FALSE /\ failed' = TRUE /\ unavailable' = FALSE
  /\ UNCHANGED <<bridgeVars, connected, term, view, ended, loads>>

\* The pane in view is gone from the store.
End ==
  /\ view # NoPane /\ ~ended
  /\ ended' = TRUE
  /\ sub' = NoSub
  /\ feed' = TornDown
  /\ UNCHANGED <<pane, failures, connected, term, view, loads, snapshot, stateVars>>

\* The view is destroyed; the WebSocket is the application's, and stays.
Dispose ==
  /\ term
  /\ term' = FALSE
  /\ sub' = NoSub
  /\ feed' = TornDown
  /\ UNCHANGED <<pane, failures, connected, view, ended, loads, snapshot, stateVars>>

\* Mutant: the effect that loads does not depend on `connected`.
OpensOnly(l, p) ==
  /\ ~connected
  /\ connected' = TRUE
  /\ IF view = NoPane THEN Begin(l, p)
     ELSE UNCHANGED <<feed, view, ended, loads, sub, snapshot, stateVars>>
  /\ UNCHANGED <<pane, failures, term>>

\* The WebSocket opens, and the effect loads the pane of the route.
Opens(l, p) ==
  /\ ~connected
  /\ connected' = TRUE
  /\ IF term /\ ~(ended /\ view = p) THEN Begin(l, p)
     ELSE UNCHANGED <<feed, view, ended, loads, sub, snapshot, stateVars>>
  /\ UNCHANGED <<pane, failures, term>>

\* The WebSocket closes: the bridge drops the connection's subscriptions, and
\* rejectAllPending fails every load in flight.
Closes ==
  /\ connected
  /\ connected' = FALSE
  /\ feed' = [s \in Sub |-> NoFeed]
  /\ loads' = [l \in Load |-> Idle]
  /\ loading' = (loading /\ InFlight = {})
  /\ failed' = (failed \/ \E l \in Load : Reading(l))
  /\ unavailable' = (unavailable \/ \E l \in Load : Subscribing(l))
  /\ UNCHANGED <<pane, failures, term, view, ended, sub, snapshot>>

-----------------------------------------------------------------------------
(* Answers.                                                                *)

\* pane.read answers for a pane that is no longer in view.
ReadDiscarded(l) ==
  /\ Reading(l)
  /\ IsStale(loads[l].pane)
  /\ Settled(l)
  /\ UNCHANGED <<bridgeVars, connected, term, view, ended, sub, snapshot, failed, unavailable>>

\* pane.read answers with what the pane showed at some time since it was
\* asked: it is painted, and the subscribe goes out.  A terminal disposed of
\* in the meantime throws on the write.
ReadAnswered(l, v) ==
  LET p == loads[l].pane
  IN /\ Reading(l)
     /\ ~IsStale(p)
     /\ v \in loads[l].since .. pane[p]
     /\ snapshot' = [of |-> p, version |-> v]
     /\ IF term
        THEN /\ loads' = [loads EXCEPT ![l] = [stage |-> "subscribing", pane |-> p]]
             /\ UNCHANGED <<loading, failed>>
        ELSE /\ Settled(l)
             /\ failed' = TRUE
     /\ UNCHANGED <<bridgeVars, connected, term, view, ended, sub, unavailable>>

\* pane.read fails, whatever pane is in view by now.
ReadFails(l) ==
  /\ Reading(l)
  /\ failures < MaxFailures
  /\ failures' = failures + 1
  /\ Settled(l)
  /\ failed' = TRUE
  /\ UNCHANGED <<pane, feed, connected, term, view, ended, sub, snapshot, unavailable>>

\* pane.subscribe_output answers, and nobody wants it: unsubscribed at once.
SubscribeDiscarded(l) ==
  /\ Subscribing(l)
  /\ Unwanted(loads[l].pane)
  /\ Settled(l)
  /\ UNCHANGED <<bridgeVars, connected, term, view, ended, sub, snapshot, failed, unavailable>>

SubscribeAnswered(l, s) ==
  /\ Subscribing(l)
  /\ ~Unwanted(loads[l].pane)
  /\ s \in FreeSub
  /\ sub' = s
  /\ feed' = [feed EXCEPT ![s] = [pane |-> loads[l].pane,
                                  last |-> pane[loads[l].pane], primed |-> FALSE]]
  /\ Settled(l)
  /\ UNCHANGED <<pane, failures, connected, term, view, ended, snapshot, failed, unavailable>>

\* pane.subscribe_output fails: a toast, and no live updates.
SubscribeFails(l) ==
  /\ Subscribing(l)
  /\ failures < MaxFailures
  /\ failures' = failures + 1
  /\ Settled(l)
  /\ unavailable' = TRUE
  /\ UNCHANGED <<pane, feed, connected, term, view, ended, sub, snapshot, failed>>

-----------------------------------------------------------------------------
(* Frames.                                                                 *)

\* A snapshot of the pane goes out on its subscription: one taken since the
\* subscription was made, and from then on a later one each time.
Emits(s, v) ==
  /\ feed[s] # NoFeed
  /\ v \in feed[s].last .. pane[feed[s].pane]
  /\ feed[s].primed => v > feed[s].last

Mine(s) == s = sub /\ term

\* The delta's base is what this terminal holds.
FitsBase(s) == snapshot = [of |-> feed[s].pane, version |-> feed[s].last]

Sends(s, v) == feed' = [feed EXCEPT ![s] = [pane |-> @.pane, last |-> v, primed |-> TRUE]]

\* A frame nobody wants: not of the subscription in hand.
FrameIgnored(s, v) ==
  /\ Emits(s, v)
  /\ ~Mine(s)
  /\ Sends(s, v)
  /\ UNCHANGED <<pane, failures, connected, term, view, ended, loads, sub, snapshot, stateVars>>

\* A whole frame, which a first one always is, or a delta that fits.
FramePainted(s, v, whole) ==
  /\ Emits(s, v)
  /\ Mine(s)
  /\ ~feed[s].primed => whole
  /\ whole \/ FitsBase(s)
  /\ Sends(s, v)
  /\ snapshot' = [of |-> feed[s].pane, version |-> v]
  /\ UNCHANGED <<pane, failures, connected, term, view, ended, loads, sub, stateVars>>

\* A delta that does not fit, laid over a snapshot long enough to take it.
FrameGarbles(s, v) ==
  /\ Emits(s, v)
  /\ Mine(s)
  /\ feed[s].primed
  /\ ~FitsBase(s)
  /\ Sends(s, v)
  /\ snapshot' = Garbled
  /\ UNCHANGED <<pane, failures, connected, term, view, ended, loads, sub, stateVars>>

\* A delta whose length does not agree: the pane is read again.
FrameRefused(l, s, v) ==
  /\ Emits(s, v)
  /\ Mine(s)
  /\ feed[s].primed
  /\ ~FitsBase(s)
  /\ view # NoPane
  /\ Begin(l, view)
  /\ UNCHANGED <<pane, failures, connected, term>>

\* Herdr: the pane's program writes.
PaneWrites(p) ==
  /\ pane[p] < MaxVersion
  /\ pane' = [pane EXCEPT ![p] = @ + 1]
  /\ UNCHANGED <<feed, failures, connected, term, view, ended, loads, sub, snapshot, stateVars>>

Next ==
  \/ End \/ Dispose \/ Closes \/ ReloadOffline
  \/ \E p \in Pane : PaneWrites(p)
  \/ \E l \in Load :
       \/ Reload(l)
       \/ \E p \in Pane : Navigate(l, p) \/ Opens(l, p)
       \/ ReadDiscarded(l) \/ ReadFails(l) \/ SubscribeDiscarded(l) \/ SubscribeFails(l)
       \/ \E v \in Version : ReadAnswered(l, v)
       \/ \E s \in Sub : SubscribeAnswered(l, s)
  \/ \E s \in Sub, v \in Version :
       \/ FrameIgnored(s, v) \/ FrameGarbles(s, v)
       \/ \E whole \in BOOLEAN : FramePainted(s, v, whole)
       \/ \E l \in Load : FrameRefused(l, s, v)

(* The bridge answers every request, one way or the other.                 *)
Fairness ==
  \A l \in Load :
    WF_vars(\/ ReadDiscarded(l) \/ ReadFails(l) \/ SubscribeDiscarded(l) \/ SubscribeFails(l)
            \/ \E v \in Version : ReadAnswered(l, v)
            \/ \E s \in Sub : SubscribeAnswered(l, s))

Spec == Init /\ [][Next]_vars
FairSpec == Spec /\ Fairness

-----------------------------------------------------------------------------
(* Properties.                                                             *)

(* Whatever arrives late, the screen shows the pane in view, never the one *)
(* the operator navigated away from (pane-terminal.ts:282-285).            *)
ScreenIsOfView == snapshot.of \in Pane => snapshot.of = view

(* While the WebSocket is up, a subscription in hand is one the bridge     *)
(* still feeds, and feeds with the pane in view: `subscribed`, which is    *)
(* what makes the view say `live`, is never a leftover of another pane, of *)
(* an unsubscribed stream or of an earlier connection.                     *)
LiveMeansFed == term /\ connected /\ sub # NoSub => feed[sub].pane = view

(* Once the pane has ended no subscription is taken up for it, not even    *)
(* one that was on its way when it ended (pane-terminal.ts:343).           *)
EndedIsSilent == ended => sub = NoSub

(* A view that stays on a pane while the WebSocket stays up keeps settling *)
(* on a stream the bridge feeds, or on saying that the read or the live    *)
(* updates failed: it neither loads for ever nor waits on a dead stream.   *)
ViewSettles ==
  \A p \in Pane :
    <>[](connected /\ term /\ ~ended /\ view = p)
      => []<>(~loading /\ (failed \/ unavailable \/ \E s \in Sub : s = sub /\ feed[s] # NoFeed))

(* openspec/specs/pane-gone-state/spec.md:35, of a pane that ended, and    *)
(* pane-terminal.ts:343-344, of a subscription with no one to feed: it     *)
(* "must not keep a poll alive".  The bridge feeds no subscription but the *)
(* one in hand.                                                            *)
(* Not so in the code; the README says where (Disagreements).              *)
NoOrphanFeed == \A s \in Sub : feed[s] # NoFeed => s = sub
=============================================================================
