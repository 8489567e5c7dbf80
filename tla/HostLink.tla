------------------------------ MODULE HostLink ------------------------------
(***************************************************************************)
(* The life of one host's link to herdr: HostRuntime.start, stop,          *)
(* connectOnce, establishSubscription and scheduleReconnect of             *)
(* apps/bridge/src/herdr/hosts.ts over HerdrClient.subscribe of            *)
(* apps/bridge/src/herdr/client.ts.                                        *)
(*                                                                         *)
(* Every call of connectOnce is an attempt of its own, and several may be  *)
(* under way: an errored subscription socket emits 'error' and then        *)
(* 'close', both become a 'disconnect', and each one schedules a retry.    *)
(* `subscriptionGeneration` is only ever compared for equality, so here it *)
(* is the attempt that raised it last, or stop().  The ids of finished     *)
(* attempts are used again, so behaviours are infinite and the number of   *)
(* outages has no bound.  Back-off delays are abstracted away: a pending   *)
(* timer may fire at any time.                                             *)
(***************************************************************************)
EXTENDS Naturals, FiniteSets

CONSTANTS
  Attempt,     \* ids of concurrent calls of connectOnce
  MaxChains    \* bound: attempts under way and retries pending, together

NoAttempt == "no attempt"
Stopping == "stop"

ASSUME LinkAssumption ==
  MaxChains \in Nat /\ NoAttempt \notin Attempt /\ Stopping \notin Attempt

VARIABLES
  up,            \* herdr is there and answers
  started,       \* start() was called
  stopped,       \* HostRuntime.stopped, once started
  generation,    \* subscriptionGeneration: whose it is
  connected,     \* HostRuntime.connected
  subscription,  \* HostRuntime.subscription
  timer,         \* the retry reconnectTimer holds is pending
  lostTimers,    \* pending retries whose handle was overwritten
  phase,         \* attempt -> where its connectOnce is
  previous,      \* attempt -> establishSubscription's previousSubscription
  socket         \* attempt -> its subscription's connection

vars == <<up, started, stopped, generation, connected, subscription, timer,
          lostTimers, phase, previous, socket>>

(* A socket is live once acknowledged, ending after close(), which only    *)
(* half-closes it, and failing between its 'error' and its 'close'.        *)
TypeOK ==
  /\ up \in BOOLEAN /\ started \in BOOLEAN /\ stopped \in BOOLEAN
  /\ connected \in BOOLEAN /\ timer \in BOOLEAN
  /\ generation \in Attempt \cup {NoAttempt, Stopping}
  /\ subscription \in Attempt \cup {NoAttempt}
  /\ lostTimers \in Nat
  /\ phase \in [Attempt -> {"idle", "seeding", "subscribing"}]
  /\ previous \in [Attempt -> Attempt \cup {NoAttempt}]
  /\ socket \in [Attempt -> {"closed", "live", "ending", "failing"}]

Init ==
  /\ up \in BOOLEAN
  /\ started = FALSE
  /\ stopped = FALSE
  /\ generation = NoAttempt
  /\ connected = FALSE
  /\ subscription = NoAttempt
  /\ timer = FALSE
  /\ lostTimers = 0
  /\ phase = [a \in Attempt |-> "idle"]
  /\ previous = [a \in Attempt |-> NoAttempt]
  /\ socket = [a \in Attempt |-> "closed"]

-----------------------------------------------------------------------------

\* An id no call, socket or variable of the runtime refers to.
Free(a) ==
  /\ phase[a] = "idle"
  /\ socket[a] = "closed"
  /\ subscription # a
  /\ \A b \in Attempt : previous[b] # a

UnderWay == {a \in Attempt : phase[a] # "idle"}

Chains == Cardinality(UnderWay) + lostTimers + IF timer THEN 1 ELSE 0

\* `subscription.close()`: the bridge's half of the connection ends.
Ended(a) ==
  IF a # NoAttempt THEN [socket EXCEPT ![a] = IF @ = "live" THEN "ending" ELSE @]
  ELSE socket

\* Mutant: no retry while an attempt is under way, the failing one included.
ScheduleUnlessUnderWay ==
  IF stopped \/ UnderWay # {} THEN UNCHANGED <<timer, lostTimers>>
  ELSE /\ timer' = TRUE
       /\ lostTimers' = IF timer THEN lostTimers + 1 ELSE lostTimers

\* `scheduleReconnect`: setTimeout, over whatever handle was held before.
ScheduleReconnect ==
  IF stopped THEN UNCHANGED <<timer, lostTimers>>
  ELSE /\ timer' = TRUE
       /\ lostTimers' = IF timer THEN lostTimers + 1 ELSE lostTimers

\* `connectOnce`, up to its first await.
ConnectOnce(a) ==
  /\ Free(a)
  /\ phase' = [phase EXCEPT ![a] = "seeding"]


\* `generation === this.subscriptionGeneration`
Current(a) == generation = a

-----------------------------------------------------------------------------

Start(a) ==
  /\ ~started
  /\ started' = TRUE
  /\ ConnectOnce(a)
  /\ UNCHANGED <<up, stopped, generation, connected, subscription, timer,
                 lostTimers, previous, socket>>

Stop ==
  /\ started /\ ~stopped
  /\ stopped' = TRUE
  /\ generation' = Stopping
  /\ timer' = FALSE
  /\ socket' = Ended(subscription)
  /\ subscription' = NoAttempt
  /\ UNCHANGED <<up, started, connected, lostTimers, phase, previous>>

\* The retry reconnectTimer holds.
TimerFires(a) ==
  /\ timer
  /\ timer' = FALSE
  /\ ConnectOnce(a)
  /\ UNCHANGED <<up, started, stopped, generation, connected, subscription,
                 lostTimers, previous, socket>>


\* A retry whose handle was overwritten: stop() cannot clear it.
LostTimerFires(a) ==
  /\ lostTimers > 0
  /\ lostTimers' = lostTimers - 1
  /\ ConnectOnce(a)
  /\ UNCHANGED <<up, started, stopped, generation, connected, subscription,
                 timer, previous, socket>>

\* names.refresh and pane.list have answered: the caches are seeded, and
\* establishSubscription runs up to its await.
Seeded(a) ==
  /\ up
  /\ phase[a] = "seeding"
  /\ phase' = [phase EXCEPT ![a] = "subscribing"]
  /\ generation' = a
  /\ previous' = [previous EXCEPT ![a] = subscription]
  /\ UNCHANGED <<up, started, stopped, connected, subscription, timer,
                 lostTimers, socket>>

\* Herdr acknowledges the subscription: the rest of establishSubscription.
Acknowledged(a) ==
  /\ up
  /\ phase[a] = "subscribing"
  /\ phase' = [phase EXCEPT ![a] = "idle"]
  /\ previous' = [previous EXCEPT ![a] = NoAttempt]
  /\ IF Current(a)
     THEN /\ subscription' = a
          /\ connected' = TRUE
          /\ socket' = [Ended(previous[a]) EXCEPT ![a] = "live"]
     ELSE /\ socket' = [socket EXCEPT ![a] = "ending"]
          /\ UNCHANGED <<subscription, connected>>
  /\ UNCHANGED <<up, started, stopped, generation, timer, lostTimers>>

\* A request or the subscription fails: connectOnce's catch.
Fails(a) ==
  /\ ~up
  /\ phase[a] # "idle"
  /\ phase' = [phase EXCEPT ![a] = "idle"]
  /\ previous' = [previous EXCEPT ![a] = NoAttempt]
  /\ connected' = FALSE
  /\ ScheduleReconnect
  /\ UNCHANGED <<up, started, stopped, generation, subscription, socket>>


\* The handler of 'disconnect'.
Disconnect(a) ==
  IF Current(a)
  THEN /\ subscription' = NoAttempt
       /\ connected' = FALSE
       /\ ScheduleReconnect
  ELSE UNCHANGED <<subscription, connected, timer, lostTimers>>

\* The socket's 'error' event; 'close' follows.
SocketError(a) ==
  /\ ~up
  /\ socket[a] \in {"live", "ending"}
  /\ Chains + 2 <= MaxChains
  /\ socket' = [socket EXCEPT ![a] = "failing"]
  /\ Disconnect(a)
  /\ UNCHANGED <<up, started, stopped, generation, phase, previous>>

\* The socket's 'close' event: after an error, after herdr closed its half
\* of an ending socket, or because herdr closed a live one.
SocketClose(a) ==
  /\ socket[a] # "closed"
  /\ socket[a] = "live" => ~up /\ Chains < MaxChains
  /\ socket' = [socket EXCEPT ![a] = "closed"]
  /\ Disconnect(a)
  /\ UNCHANGED <<up, started, stopped, generation, phase, previous>>

\* Herdr goes away, or comes back.
HerdrFlips ==
  /\ up' = ~up
  /\ UNCHANGED <<started, stopped, generation, connected, subscription, timer,
                 lostTimers, phase, previous, socket>>

Next ==
  \/ Stop \/ HerdrFlips
  \/ \E a \in Attempt :
       \/ Start(a) \/ TimerFires(a) \/ LostTimerFires(a)
       \/ Seeded(a) \/ Acknowledged(a) \/ Fails(a)
       \/ SocketError(a) \/ SocketClose(a)

(* Timers fire, closing sockets close, and herdr, while it is up, answers. *)
Fairness ==
  /\ WF_vars(\E a \in Attempt : Start(a))
  /\ WF_vars(\E a \in Attempt : TimerFires(a))
  /\ WF_vars(\E a \in Attempt : LostTimerFires(a))
  /\ \A a \in Attempt :
       /\ WF_vars(Seeded(a) \/ Acknowledged(a))
       /\ WF_vars(socket[a] # "live" /\ SocketClose(a))

Spec == Init /\ [][Next]_vars
FairSpec == Spec /\ Fairness

-----------------------------------------------------------------------------
(* Properties.                                                             *)

(* However attempts overlap, at most one subscription is open, and it is   *)
(* the one the runtime knows: no forgotten connection keeps pushing a      *)
(* second copy of every event (hosts.ts:745-774).                          *)
OneSubscription == \A a \in Attempt : socket[a] = "live" => subscription = a

(* A runtime that is neither stopped nor connected has a retry pending or  *)
(* an attempt under way, so a host never stays dead for want of a caller.  *)
SomebodyRetries ==
  started /\ ~stopped /\ ~connected => timer \/ lostTimers > 0 \/ UnderWay # {}

(* While the runtime calls itself connected, the end of its subscription   *)
(* will be noticed, or a newer attempt decides what comes next: a 'stale'  *)
(* disconnect (hosts.ts:759) is never the last word.                       *)
ConnectedIsWatched ==
  connected /\ ~stopped =>
    \/ subscription # NoAttempt /\ socket[subscription] = "live" /\ Current(subscription)
    \/ \E a \in Attempt : phase[a] = "subscribing" /\ Current(a)

(* Once herdr stays up, the runtime gets connected and stays connected,    *)
(* whatever overlapping attempts the outages before left behind.           *)
LinkRecovers == <>[]up => <>([]connected \/ stopped)
=============================================================================
