----------------------------- MODULE BoardSync ------------------------------
(***************************************************************************)
(* How the panes of one herdr host reach the boards: herdr's pushes and    *)
(* `pane.list`, the bridge's HostRuntime (apps/bridge/src/herdr/hosts.ts), *)
(* which tracks every pane it has seen and polls for what herdr does not   *)
(* push, and each browser's PanesStore                                     *)
(* (apps/web/src/app/state/panes.store.ts).                                *)
(*                                                                         *)
(* A pane is reduced to its life and its agent_status; ids are never used  *)
(* again.  The frames of one WebSocket arrive in order, and a browser      *)
(* sends nothing in between that depends on one not yet delivered, so a    *)
(* frame is applied to the board in the step that emits it.  Requests and  *)
(* answers between bridge and herdr take as long as they like, each on a   *)
(* socket of its own, may fail, and may overtake the pushes.               *)
(*                                                                         *)
(* Calls of connectOnce overlap one another, and a subscription that still *)
(* feeds the bridge, as in HostLink.  Of HostLink's sockets and generation *)
(* this keeps what the panes can tell apart: whether the subscription in   *)
(* use is still the current one, and the pushes on their way on one that   *)
(* was ended (all of those share the queue `late`).                        *)
(***************************************************************************)
EXTENDS Naturals, Sequences, FiniteSets

CONSTANTS
  Pane, Board, Status,
  Poll,         \* bound: polls in flight; the interval waits for none of them
  Attempt,      \* bound: calls of connectOnce whose pane.list is answered
  MaxChains,    \* bound: retries pending and attempts under way, together
  MaxInFlight   \* bound: pushes, lists and mutations in flight when one more starts

NoPane == "no pane"
NobodyAsks == "nobody"

ASSUME SyncAssumption ==
  /\ MaxInFlight \in Nat /\ MaxChains \in Nat
  /\ NoPane \notin Status /\ NobodyAsks \notin Board

VARIABLES
  herdr,     \* pane -> its agent_status; NoPane before its birth and after
  born,      \* panes that exist or existed
  pushes,    \* pushed events on their way on the subscription in use, in order
  late,      \* those on their way on a subscription that was ended
  connected, \* HostRuntime.connected
  feed,      \* the subscription in use, and whether its generation is current
  retries,   \* calls of connectOnce scheduled, or waiting for pane.list
  connects,  \* the calls whose pane.list is answered
  tracked,   \* paneAgentStatus: pane -> last seen status
  placed,    \* panes with a panePlacement, which outlives a cleared baseline
  polls,     \* pollAgentStatus: the snapshot `known`; what it misses, the answer
  mutation,  \* the one lifecycle request in service: a close if status is NoPane
  visit,     \* board -> how far its subscribeHost is
  list,      \* board -> herdr's answer to its pane.list, on its way
  card       \* board -> panesSignal: pane -> status shown

herdrVars == <<herdr, born>>
queueVars == <<pushes, late>>
linkVars == <<connected, feed, retries, connects>>
baseVars == <<tracked, placed>>
boardVars == <<visit, list, card>>
vars == <<herdrVars, queueVars, linkVars, baseVars, polls, mutation, boardVars>>

Panes == [Pane -> Status \cup {NoPane}]
\* pane.created and pane.updated carry the pane; pane.closed has no status.
Push == [pane : Pane, status : Status \cup {NoPane}]
Idle == [stage |-> "idle"]
Mutations == [stage : {"queued", "done"}, asker : Board \cup {NobodyAsks},
              pane : Pane, status : Status \cup {NoPane}]

TypeOK ==
  /\ herdr \in Panes
  /\ born \subseteq Pane
  /\ pushes \in Seq(Push) /\ late \in Seq(Push)
  /\ connected \in BOOLEAN
  /\ feed \in {"none", "current", "stale"}
  /\ retries \in Nat
  /\ connects \in [Attempt -> {Idle} \cup [stage : {"answered"}, answer : Panes]
                                    \cup [stage : {"seeded", "superseded"}]]
  /\ tracked \in Panes
  /\ placed \subseteq Pane
  /\ polls \in [Poll -> {Idle} \cup [stage : {"asked"}, known : SUBSET Pane]
                              \cup [stage : {"answered"}, missing : SUBSET Pane, answer : Panes]]
  /\ mutation \in {Idle} \cup Mutations
  /\ visit \in [Board -> {"offline", "listing", "answered", "left", "listed",
                           "subscribed", "gaveUp"}]
  /\ list \in [Board -> Panes]
  /\ card \in [Board -> Panes]

Nobody == [p \in Pane |-> NoPane]
Shown(panes) == {p \in Pane : panes[p] # NoPane}
Live == Shown(herdr)
Tracked == Shown(tracked)

\* start() has called connectOnce.
Init ==
  /\ herdr \in Panes
  /\ born = Live
  /\ pushes = <<>> /\ late = <<>>
  /\ connected = FALSE /\ feed = "none"
  /\ retries = 1
  /\ connects = [a \in Attempt |-> Idle]
  /\ tracked = Nobody
  /\ placed = {}
  /\ polls = [q \in Poll |-> Idle]
  /\ mutation = Idle
  /\ visit = [b \in Board |-> "offline"]
  /\ list = [b \in Board |-> Nobody]
  /\ card = [b \in Board |-> Nobody]

-----------------------------------------------------------------------------
(* Helpers.                                                                *)

Subscribed == {b \in Board : visit[b] = "subscribed"}

UnderWay == {a \in Attempt : connects[a] # Idle}

\* The bound: herdr and the boards start nothing while as much is in flight.
Room ==
  Len(pushes) + Len(late) + Cardinality(UnderWay)
    + Cardinality({q \in Poll : polls[q] # Idle})
    + Cardinality({b \in Board : visit[b] \in {"listing", "answered", "left"}})
    + (IF mutation = Idle THEN 0 ELSE 1) < MaxInFlight

\* Herdr pushes an event on the subscription in use, if there is one.
Pushes(e) ==
  /\ pushes' = IF feed # "none" THEN Append(pushes, e) ELSE pushes
  /\ late' = late

\* Mutant: only a pane seen for the first time gets a baseline.
TrackNew(from, panes) == [p \in Pane |-> IF from[p] = NoPane THEN panes[p] ELSE from[p]]

\* trackPane for every pane of a list.
Track(from, panes) == [p \in Pane |-> IF panes[p] # NoPane THEN panes[p] ELSE from[p]]

\* trackPane for one pane, or untrackPane.
Tracks(p, s) ==
  /\ tracked' = [tracked EXCEPT ![p] = s]
  /\ placed' = IF s = NoPane THEN placed \ {p} ELSE placed \cup {p}

\* Mutant: an event about a pane the board does not know is ignored.
ShowKnown(p, s) ==
  [b \in Board |-> IF b \in Subscribed /\ card[b][p] # NoPane
                   THEN [card[b] EXCEPT ![p] = s] ELSE card[b]]

\* The boards after an event about p was fanned out to the subscribed ones.
Show(p, s) == [b \in Board |-> IF b \in Subscribed THEN [card[b] EXCEPT ![p] = s] ELSE card[b]]

-----------------------------------------------------------------------------
(* Herdr.                                                                  *)

Birth(p, s) ==
  /\ p \notin born /\ Room
  /\ herdr' = [herdr EXCEPT ![p] = s]
  /\ born' = born \cup {p}
  /\ Pushes([pane |-> p, status |-> s])
  /\ UNCHANGED <<linkVars, baseVars, polls, mutation, boardVars>>

\* A pane dies, and herdr may not push it (hosts.ts:668-672).
Death(p, told) ==
  /\ p \in Live /\ Room
  /\ herdr' = [herdr EXCEPT ![p] = NoPane]
  /\ IF told THEN Pushes([pane |-> p, status |-> NoPane]) ELSE UNCHANGED queueVars
  /\ UNCHANGED <<born, linkVars, baseVars, polls, mutation, boardVars>>

\* The agent's status changes: herdr pushes nothing the bridge subscribes to.
StatusChange(p, s) ==
  /\ p \in Live /\ herdr[p] # s
  /\ herdr' = [herdr EXCEPT ![p] = s]
  /\ UNCHANGED <<born, queueVars, linkVars, baseVars, polls, mutation, boardVars>>

\* A rename pushes the whole pane.
Rename(p) ==
  /\ p \in Live /\ Room
  /\ Pushes([pane |-> p, status |-> herdr[p]])
  /\ UNCHANGED <<herdrVars, linkVars, baseVars, polls, mutation, boardVars>>

-----------------------------------------------------------------------------
(* The bridge: the pushes and the poll.                                    *)

\* handlePushedEvent, which asks neither for `connected` nor for the
\* generation, and applyLifecycleEvent on every subscribed board.
Handles(e) ==
  /\ Tracks(e.pane, e.status)
  /\ card' = Show(e.pane, e.status)

HandlePush ==
  /\ pushes # <<>>
  /\ Handles(Head(pushes))
  /\ pushes' = Tail(pushes)
  /\ UNCHANGED <<herdrVars, late, linkVars, polls, mutation, visit, list>>

HandleLate ==
  /\ late # <<>>
  /\ Handles(Head(late))
  /\ late' = Tail(late)
  /\ UNCHANGED <<herdrVars, pushes, linkVars, polls, mutation, visit, list>>

\* Any idle id will do for the next poll.
FreePoll(q) == polls[q] = Idle /\ q = CHOOSE r \in Poll : polls[r] = Idle

\* The interval fires, whatever polls are in flight: the known panes are
\* noted, then pane.list is asked.  One poll needs no room, so none is kept
\* waiting by the bound.
PollStart(q) ==
  /\ connected
  /\ FreePoll(q)
  /\ Room \/ \A r \in Poll : polls[r] = Idle
  /\ polls' = [polls EXCEPT ![q] = [stage |-> "asked", known |-> Tracked]]
  /\ UNCHANGED <<herdrVars, queueVars, linkVars, baseVars, mutation, boardVars>>

PollAnswered(q) ==
  /\ polls[q].stage = "asked"
  /\ polls' = [polls EXCEPT ![q] = [stage |-> "answered", missing |-> polls[q].known \ Live,
                                    answer |-> herdr]]
  /\ UNCHANGED <<herdrVars, queueVars, linkVars, baseVars, mutation, boardVars>>

\* The request fails: the next tick retries.
PollFails(q) ==
  /\ polls[q] # Idle
  /\ polls' = [polls EXCEPT ![q] = Idle]
  /\ UNCHANGED <<herdrVars, queueVars, linkVars, baseVars, mutation, boardVars>>

\* Mutant: what is missing from the answer is judged by what is known now.
KnownNow(q) == Tracked \ Shown(polls[q].answer)

\* Mutant: the poll compares statuses only.
NothingMissing(q) == {}

\* Panes known before the request and missing from its answer.
Missing(q) == polls[q].missing

\* A board after the poll's events: pane.closed for every missing pane that
\* has a placement, pane.agent_status_changed, which a board ignores for a pane
\* it does not know, for every status that is not the last one seen.
Polled(q, b) ==
  LET answer == polls[q].answer
  IN [p \in Pane |->
        IF p \in Missing(q) \cap placed THEN NoPane
        ELSE IF /\ answer[p] # NoPane /\ tracked[p] # NoPane
                /\ answer[p] # tracked[p] /\ card[b][p] # NoPane
             THEN answer[p]
             ELSE card[b][p]]

\* The rest of pollAgentStatus.
PollApplied(q) ==
  /\ polls[q].stage = "answered"
  /\ card' = [b \in Board |-> IF b \in Subscribed THEN Polled(q, b) ELSE card[b]]
  /\ tracked' = Track([p \in Pane |-> IF p \in Missing(q) THEN NoPane ELSE tracked[p]],
                      polls[q].answer)
  /\ placed' = (placed \ Missing(q)) \cup Shown(polls[q].answer)
  /\ polls' = [polls EXCEPT ![q] = Idle]
  /\ UNCHANGED <<herdrVars, queueVars, linkVars, mutation, visit, list>>

-----------------------------------------------------------------------------
(* The bridge: the link.                                                   *)

\* The subscription in use ends, with what was on it, and perhaps with what
\* was still to come on those ended before: its 'error' and its 'close', or
\* its 'close' alone, are heard as a disconnect and schedule a retry each,
\* unless a newer attempt has raised the generation.
LinkLost(n) ==
  /\ feed # "none"
  /\ feed' = "none"
  /\ pushes' = <<>> /\ late' \in {late, <<>>}
  /\ IF feed = "current"
     THEN /\ connected' = FALSE
          /\ retries' = retries + n
          /\ retries' + Cardinality(UnderWay) <= MaxChains
     ELSE UNCHANGED <<connected, retries>>
  /\ UNCHANGED <<herdrVars, connects, baseVars, polls, mutation, boardVars>>

\* Any idle id will do for the next attempt.
FreeAttempt(a) == connects[a] = Idle /\ a = CHOOSE c \in Attempt : connects[c] = Idle

\* connectOnce has been called, and herdr answers its pane.list.
ConnectLists(a) ==
  /\ retries > 0
  /\ FreeAttempt(a)
  /\ Room \/ UnderWay = {}
  /\ retries' = retries - 1
  /\ connects' = [connects EXCEPT ![a] = [stage |-> "answered", answer |-> herdr]]
  /\ UNCHANGED <<herdrVars, queueVars, connected, feed, baseVars, polls, mutation, boardVars>>

\* The baseline is cleared and seeded from the answer, whether or not the
\* host is connected; the placements are not cleared.  establishSubscription
\* raises the generation up to its await.
Seeds(a) ==
  /\ connects[a].stage = "answered"
  /\ tracked' = connects[a].answer
  /\ placed' = placed \cup Shown(connects[a].answer)
  /\ connects' = [c \in Attempt |->
                    IF c = a THEN [stage |-> "seeded"]
                    ELSE IF connects[c].stage = "seeded" THEN [stage |-> "superseded"]
                    ELSE connects[c]]
  /\ feed' = IF feed = "current" THEN "stale" ELSE feed
  /\ UNCHANGED <<herdrVars, queueVars, connected, retries, polls, mutation, boardVars>>

\* Herdr acknowledges: the new subscription replaces the one in use, which is
\* ended, though what is on it still arrives; a superseded one is ended at
\* once.
Acknowledged(a) ==
  /\ connects[a].stage \in {"seeded", "superseded"}
  /\ IF connects[a].stage = "seeded"
     THEN /\ connected' = TRUE
          /\ feed' = "current"
          /\ pushes' = <<>>
          /\ late' = late \o pushes
     ELSE UNCHANGED <<queueVars, connected, feed>>
  /\ connects' = [connects EXCEPT ![a] = Idle]
  /\ UNCHANGED <<herdrVars, retries, baseVars, polls, mutation, boardVars>>

\* A request of connectOnce fails: its catch, whatever subscription is in use.
ConnectFails(a) ==
  /\ connects[a] # Idle
  /\ connects' = [connects EXCEPT ![a] = Idle]
  /\ connected' = FALSE
  /\ retries' = retries + 1
  /\ UNCHANGED <<herdrVars, queueVars, feed, baseVars, polls, mutation, boardVars>>

\* It fails before its pane.list is answered, and is scheduled again.
ConnectFailsEarly ==
  /\ retries > 0
  /\ connected' = FALSE
  /\ UNCHANGED <<herdrVars, queueVars, feed, retries, connects, baseVars, polls,
                 mutation, boardVars>>

-----------------------------------------------------------------------------
(* The boards: subscribeHost, and lifecycle actions.                       *)

\* The WebSocket (re)connects: subscribedHosts is cleared, and pane.list goes
\* to the bridge, which refuses it while the host is not connected.
Connects(b) ==
  /\ visit[b] = "offline" /\ Room
  /\ visit' = [visit EXCEPT ![b] = IF connected THEN "listing" ELSE "gaveUp"]
  /\ UNCHANGED <<herdrVars, queueVars, linkVars, baseVars, polls, mutation, list, card>>

\* The WebSocket is lost: the bridge forgets the subscription, the store
\* keeps its cards, and answers still under way have nowhere to go.
Disconnects(b) ==
  /\ visit[b] \in {"answered", "listed", "subscribed", "gaveUp"}
  /\ visit' = [visit EXCEPT ![b] = IF @ = "answered" THEN "left" ELSE "offline"]
  /\ mutation' = IF mutation # Idle /\ mutation.asker = b
                 THEN [mutation EXCEPT !.asker = NobodyAsks] ELSE mutation
  /\ UNCHANGED <<herdrVars, queueVars, linkVars, baseVars, polls, list, card>>

ListAnswered(b) ==
  /\ visit[b] = "listing"
  /\ visit' = [visit EXCEPT ![b] = "answered"]
  /\ list' = [list EXCEPT ![b] = herdr]
  /\ UNCHANGED <<herdrVars, queueVars, linkVars, baseVars, polls, mutation, card>>

\* The request fails: the catch of subscribeHost, and no retry before the
\* next connect.
ListFails(b) ==
  /\ visit[b] = "listing"
  /\ visit' = [visit EXCEPT ![b] = "gaveUp"]
  /\ UNCHANGED <<herdrVars, queueVars, linkVars, baseVars, polls, mutation, list, card>>

\* The bridge tracks every pane it lists, whoever still waits for the list;
\* the board adds the list to the cards it has.
ListApplied(b) ==
  /\ visit[b] \in {"answered", "left"}
  /\ tracked' = Track(tracked, list[b])
  /\ placed' = placed \cup Shown(list[b])
  /\ IF visit[b] = "left"
     THEN visit' = [visit EXCEPT ![b] = "offline"] /\ UNCHANGED card
     ELSE /\ visit' = [visit EXCEPT ![b] = "listed"]
          /\ card' = [card EXCEPT ![b] = Track(@, list[b])]
  /\ list' = [list EXCEPT ![b] = Nobody]
  /\ UNCHANGED <<herdrVars, queueVars, linkVars, polls, mutation>>

\* events.subscribe reaches the bridge.
Subscribes(b) ==
  /\ visit[b] = "listed"
  /\ visit' = [visit EXCEPT ![b] = "subscribed"]
  /\ UNCHANGED <<herdrVars, queueVars, linkVars, baseVars, polls, mutation, list, card>>

\* A board asks for a split, or for a close of a card it shows; the host
\* serves one at a time.
Ask(b, p, s) ==
  /\ visit[b] = "subscribed" /\ connected /\ mutation = Idle /\ Room
  /\ IF s = NoPane THEN card[b][p] # NoPane ELSE p \notin born
  /\ mutation' = [stage |-> "queued", asker |-> b, pane |-> p, status |-> s]
  /\ UNCHANGED <<herdrVars, queueVars, linkVars, baseVars, polls, boardVars>>

\* Herdr does it and pushes it; the answer is on its way.
Served ==
  /\ mutation.stage = "queued"
  /\ IF mutation.status = NoPane
     THEN mutation.pane \in Live /\ UNCHANGED born
     ELSE mutation.pane \notin born /\ born' = born \cup {mutation.pane}
  /\ herdr' = [herdr EXCEPT ![mutation.pane] = mutation.status]
  /\ Pushes([pane |-> mutation.pane, status |-> mutation.status])
  /\ mutation' = [mutation EXCEPT !.stage = "done"]
  /\ UNCHANGED <<linkVars, baseVars, polls, boardVars>>

\* The answer: paneSplit tracks, paneClose untracks, and the asking board
\* applies the result without waiting for the event.
Answered ==
  /\ mutation.stage = "done"
  /\ Tracks(mutation.pane, mutation.status)
  /\ card' = IF mutation.asker = NobodyAsks THEN card
             ELSE [card EXCEPT ![mutation.asker][mutation.pane] = mutation.status]
  /\ mutation' = Idle
  /\ UNCHANGED <<herdrVars, queueVars, linkVars, polls, visit, list>>

\* Herdr refuses (the pane is gone already, or the name is taken), or the
\* request fails, served or not.
Refused ==
  /\ mutation # Idle
  /\ mutation' = Idle
  /\ UNCHANGED <<herdrVars, queueVars, linkVars, baseVars, polls, boardVars>>

Next ==
  \/ \E p \in Pane : \/ \E s \in Status : Birth(p, s) \/ StatusChange(p, s)
                     \/ \E told \in BOOLEAN : Death(p, told)
                     \/ Rename(p)
  \/ HandlePush \/ HandleLate
  \/ \E q \in Poll : PollStart(q) \/ PollAnswered(q) \/ PollFails(q) \/ PollApplied(q)
  \/ \E n \in 1 .. 2 : LinkLost(n)
  \/ \E a \in Attempt : ConnectLists(a) \/ Seeds(a) \/ Acknowledged(a) \/ ConnectFails(a)
  \/ ConnectFailsEarly
  \/ \E b \in Board : \/ Connects(b) \/ Disconnects(b) \/ ListAnswered(b) \/ ListFails(b)
                      \/ ListApplied(b) \/ Subscribes(b)
                      \/ \E p \in Pane, s \in Status \cup {NoPane} : Ask(b, p, s)
  \/ Served \/ Answered \/ Refused

(* The event loop runs what has arrived, the poll timer ticks, and some    *)
(* poll comes through.  Polls may fail for a while but not for ever, so    *)
(* they need strong fairness: a poll that fails asks herdr again only with *)
(* the next tick.  Nothing is assumed of the link.                         *)
Fairness ==
  /\ WF_vars(HandlePush) /\ WF_vars(HandleLate)
  /\ WF_vars(\E q \in Poll : PollStart(q))
  /\ SF_vars(\E q \in Poll : PollAnswered(q))
  /\ SF_vars(\E q \in Poll : PollApplied(q))

Spec == Init /\ [][Next]_vars
FairSpec == Spec /\ Fairness

-----------------------------------------------------------------------------
(* Properties.                                                             *)

(* No board ever drops the card of a pane that is alive, whatever the poll *)
(* in flight did not know yet (hosts.ts:681-684).                          *)
NoLiveCardDropped ==
  [][\A b \in Board, p \in Live : card[b][p] # NoPane => card'[b][p] # NoPane]_vars

(* A dead pane the bridge still tracks is swept from every subscribed      *)
(* board, pushed or not, also when an answer or a late push has brought it *)
(* back (hosts.ts:668-677), unless one of the two things happens that take *)
(* a pane out of the baseline without a word to the boards: the answer to  *)
(* its close is still to come (hosts.ts:301), or a connect is about to     *)
(* seed the baseline afresh (hosts.ts:625), as it does on every reconnect  *)
(* and, while attempts overlap, on a host that is connected.               *)
Ghost(b, p) == visit[b] = "subscribed" /\ card[b][p] # NoPane /\ p \in born \ Live
CloseAnswerPending(p) ==
  mutation.stage = "done" /\ mutation.status = NoPane /\ mutation.pane = p
Haunted(b, p) == Ghost(b, p) /\ tracked[p] # NoPane /\ ~CloseAnswerPending(p)
Reseeding == \E a \in Attempt : connects[a].stage = "answered"
GhostsAreSwept ==
  \A b \in Board, p \in Pane :
    Haunted(b, p) ~> (~Ghost(b, p) \/ ~connected \/ Reseeding)

(* Once the host stays connected (HostLink), the bridge's baseline settles *)
(* on what herdr settles on, whatever stale answers, late pushes and       *)
(* connects come in between (hosts.ts:653-661, 621-626).                   *)
BridgeCatchesUp ==
  \A p \in Pane, s \in Status \cup {NoPane} :
    (<>[]connected /\ <>[](herdr[p] = s)) => <>[](tracked[p] = s)

(* A pane that herdr has announced gets its card on every board subscribed *)
(* by then, also when a new subscription has replaced the one the          *)
(* announcement is on (hosts.ts:780, 788-827).                             *)
Announces(e, p) == e.pane = p /\ e.status # NoPane
NewPanesAppear ==
  \A b \in Board, p \in Pane :
    (/\ visit[b] = "subscribed"
     /\ \E i \in 1 .. Len(pushes) : Announces(pushes[i], p))
      ~> (card[b][p] # NoPane \/ p \notin Live \/ feed = "none" \/ visit[b] # "subscribed")

(* docs/CONTEXT.md:198, "reconnect re-fetches snapshots from herdr", and   *)
(* hosts.ts:673-675, of a pane that died unnoticed: without the poll "the  *)
(* board keeps a card for a dead session forever".  A board that stays     *)
(* subscribed shows no dead pane for ever.                                 *)
(* Not so in the code; the README says where (Disagreements).              *)
NoGhostCards ==
  \A b \in Board, p \in Pane : <>[](visit[b] = "subscribed") => []<>~Ghost(b, p)

(* hosts.ts:673-677, where nothing is said of an attempt that overlaps: as *)
(* long as the host is connected, a dead pane the bridge tracks is swept.  *)
(* Not so in the code; the README says where (Disagreements).              *)
SweptWhileConnected ==
  \A b \in Board, p \in Pane : Haunted(b, p) ~> (~Ghost(b, p) \/ ~connected)

(* hosts.ts:653-656: the poll emits an event "for any pane whose           *)
(* `agent_status` differs from the last seen value".  A board that stays   *)
(* subscribed follows the status a pane settles on.                        *)
(* Not so in the code; the README says where (Disagreements).              *)
BoardsFollowStatus ==
  \A b \in Board, p \in Pane, s \in Status :
    (<>[](herdr[p] = s) /\ <>[](visit[b] = "subscribed")) => <>[](card[b][p] \in {s, NoPane})
=============================================================================
