---------------------------- MODULE OutputPoller ----------------------------
(***************************************************************************)
(* The bridge's terminal output feed: apps/bridge/src/output/poller.ts and *)
(* the connection lifecycle of apps/bridge/src/ws/server.ts that drives    *)
(* it.  Herdr cannot push output, so one loop per (host, pane, source,     *)
(* format, lines) key polls `pane.read` and fans every changed snapshot    *)
(* out to the key's subscribers, whole or as a line delta against the      *)
(* snapshot the subscriber already holds.                                  *)
(*                                                                         *)
(* A PollEntry is an object that a poll in flight keeps alive after the    *)
(* entry was stopped and another one was created under the same key, so    *)
(* loops have an identity of their own (Loop) beside their key.  What a    *)
(* pane shows is a version number; ContentOf and RevisionOf give the text  *)
(* and the herdr revision of each version, and Deltable the pairs of texts *)
(* for which `lineDelta` finds a delta worth sending.                      *)
(***************************************************************************)
EXTENDS Integers

CONSTANTS
  Conn,        \* connection ids: one per accepted WebSocket, never reused
  Key,         \* entry keys
  MaxSubs,     \* bound: subscriptions ever made
  MaxLoops,    \* bound: poll entries ever created
  MaxVersion,  \* bound: changes of a pane's contents
  ContentOf,   \* version -> text
  RevisionOf,  \* version -> herdr's revision (always 0 on herdr 0.8.2)
  Deltable     \* pairs <<previous, next>> of texts with a non-null lineDelta

Sub == 1 .. MaxSubs
Loop == 1 .. MaxLoops
Version == 0 .. MaxVersion

NoKey == "no key"
NoLoop == 0
NoConn == "no connection"
Nothing == -1     \* no snapshot yet: lastContent = null, an empty screen
Garbled == -2     \* a delta applied to a snapshot it was not computed against
Idle == -1        \* no read in flight: inFlight = false
Asked == -2       \* the read is on its way to herdr

ASSUME PollerAssumption ==
  /\ MaxSubs \in Nat /\ MaxLoops \in Nat /\ MaxVersion \in Nat
  /\ NoKey \notin Key
  /\ NoConn \notin Conn
  /\ RevisionOf \in [Version -> Nat]

VARIABLES
  socket,          \* readyState of each connection
  pane,            \* what herdr would answer to a read for each key
  entries,         \* OutputPoller.entries
  bySubscription,  \* OutputPoller.bySubscription
  nextSub, nextLoop,                        \* the ids not handed out yet
  loopKey, lastRevision, lastContent, reading, subscribers,     \* PollEntry
  conn, delta, primed,                                          \* Subscriber
  held             \* the snapshot each subscriber's browser has painted

entryVars == <<loopKey, lastRevision, lastContent, subscribers>>
subVars == <<conn, delta, primed, held>>
vars == <<socket, pane, entries, bySubscription, nextSub, nextLoop,
          entryVars, reading, subVars>>

TypeOK ==
  /\ socket \in [Conn -> {"open", "closing", "closed"}]
  /\ pane \in [Key -> Version]
  /\ entries \in [Key -> Loop \cup {NoLoop}]
  /\ bySubscription \in [Sub -> Key \cup {NoKey}]
  /\ nextSub \in 1 .. MaxSubs + 1
  /\ nextLoop \in 1 .. MaxLoops + 1
  /\ loopKey \in [Loop -> Key \cup {NoKey}]
  /\ lastRevision \in [Loop -> Nat \cup {-1}]
  /\ lastContent \in [Loop -> Version \cup {Nothing}]
  /\ reading \in [Loop -> Version \cup {Idle, Asked}]
  /\ subscribers \in [Loop -> SUBSET Sub]
  /\ conn \in [Sub -> Conn \cup {NoConn}]
  /\ delta \in [Sub -> BOOLEAN]
  /\ primed \in [Sub -> BOOLEAN]
  /\ held \in [Sub -> Version \cup {Nothing, Garbled}]

Init ==
  /\ socket = [c \in Conn |-> "open"]
  /\ pane = [k \in Key |-> 0]
  /\ entries = [k \in Key |-> NoLoop]
  /\ bySubscription = [s \in Sub |-> NoKey]
  /\ nextSub = 1
  /\ nextLoop = 1
  /\ loopKey = [l \in Loop |-> NoKey]
  /\ lastRevision = [l \in Loop |-> -1]
  /\ lastContent = [l \in Loop |-> Nothing]
  /\ reading = [l \in Loop |-> Idle]
  /\ subscribers = [l \in Loop |-> {}]
  /\ conn = [s \in Sub |-> NoConn]
  /\ delta = [s \in Sub |-> FALSE]
  /\ primed = [s \in Sub |-> FALSE]
  /\ held = [s \in Sub |-> Nothing]

-----------------------------------------------------------------------------
(* Helpers.                                                                *)

SubscribersOf(k) == IF entries[k] = NoLoop THEN {} ELSE subscribers[entries[k]]

\* Mutant: a newcomer to a loop that has content counts as up to date.
PrimedIfLoopRuns(l) == lastContent[l] # Nothing

\* `primed` of a subscriber joining loop l.
PrimedAtJoin(l) == FALSE



\* The entries left once the subscribers in gone are removed.
StopEmpty(gone) ==
  [k \in Key |-> IF SubscribersOf(k) \subseteq gone THEN NoLoop ELSE entries[k]]

\* Mutant: after the await the entry is looked up by its key again.
EntryLookedUpAgain(l) ==
  IF entries[loopKey[l]] = NoLoop THEN l ELSE entries[loopKey[l]]

\* The entry a poll that started on loop l writes to: the same object, even
\* when it was stopped, or replaced under its key, during the await.
PolledEntry(l) == l

RevisionAdvanced(l, v) == RevisionOf[v] > lastRevision[l]

\* Mutant: dedup on herdr's revision alone.
NeverComparesContent(l, v) == lastContent[l] = Nothing

ContentChanged(l, v) ==
  lastContent[l] # Nothing => ContentOf[v] # ContentOf[lastContent[l]]

\* The emit loop encodes snapshot v for subscriber s as a delta.
UsesDelta(l, s, v) ==
  /\ delta[s]
  /\ primed[s]
  /\ lastContent[l] # Nothing
  /\ <<ContentOf[lastContent[l]], ContentOf[v]>> \in Deltable

\* What subscriber s can rebuild from the frame: a whole frame carries the
\* snapshot, a delta rebuilds it only on top of the loop's last snapshot.
Rebuilt(l, s, v) ==
  IF UsesDelta(l, s, v) /\ held[s] # lastContent[l] THEN Garbled ELSE v

-----------------------------------------------------------------------------
(* Requests and connections.                                               *)

\* `pane.subscribe_output`: dispatch reaches `subscribe` without awaiting, so
\* the subscription is made while its connection is still open.  The browser
\* shows the snapshot r its own, earlier `pane.read` returned.
Subscribe(c, k, d, r) ==
  /\ socket[c] = "open"
  /\ nextSub <= MaxSubs
  /\ held' = [held EXCEPT ![nextSub] = r]
  /\ IF entries[k] = NoLoop
     THEN /\ nextLoop <= MaxLoops
          /\ entries' = [entries EXCEPT ![k] = nextLoop]
          /\ loopKey' = [loopKey EXCEPT ![nextLoop] = k]
          /\ nextLoop' = nextLoop + 1
     ELSE UNCHANGED <<entries, loopKey, nextLoop>>
  /\ LET l == entries'[k] IN
       /\ subscribers' = [subscribers EXCEPT ![l] = @ \cup {nextSub}]
       /\ primed' = [primed EXCEPT ![nextSub] = PrimedAtJoin(l)]
  /\ bySubscription' = [bySubscription EXCEPT ![nextSub] = k]
  /\ conn' = [conn EXCEPT ![nextSub] = c]
  /\ delta' = [delta EXCEPT ![nextSub] = d]
  /\ nextSub' = nextSub + 1
  /\ UNCHANGED <<socket, pane, lastRevision, lastContent, reading>>

\* The subscribers in gone leave their loops, and loops left empty stop.
Remove(gone) ==
  /\ subscribers' = [l \in Loop |-> subscribers[l] \ gone]
  /\ bySubscription' = [s \in Sub |-> IF s \in gone THEN NoKey ELSE bySubscription[s]]
  /\ entries' = StopEmpty(gone)

\* `pane.unsubscribe_output`; a second one for the same id finds no key.
Unsubscribe(s) ==
  /\ bySubscription[s] # NoKey
  /\ socket[conn[s]] = "open"
  /\ Remove({s})
  /\ UNCHANGED <<socket, pane, nextSub, nextLoop, loopKey, lastRevision,
                 lastContent, reading, conn, delta, primed, held>>

\* The closing handshake has begun: `send` drops what it is given.
SocketClosing(c) ==
  /\ socket[c] = "open"
  /\ socket' = [socket EXCEPT ![c] = "closing"]
  /\ UNCHANGED <<pane, entries, bySubscription, nextSub, nextLoop,
                 entryVars, reading, subVars>>

\* The socket's 'close' event: dropConnection.
SocketClosed(c) ==
  /\ socket[c] # "closed"
  /\ socket' = [socket EXCEPT ![c] = "closed"]
  /\ Remove({s \in Sub : conn[s] = c})
  /\ UNCHANGED <<pane, nextSub, nextLoop, loopKey, lastRevision,
                 lastContent, reading, conn, delta, primed, held>>

-----------------------------------------------------------------------------
(* The poll.                                                               *)

\* The interval fires on a live entry with no read in flight.
PollStart(k) ==
  /\ entries[k] # NoLoop
  /\ reading[entries[k]] = Idle
  /\ reading' = [reading EXCEPT ![entries[k]] = Asked]
  /\ UNCHANGED <<socket, pane, entries, bySubscription, nextSub, nextLoop,
                 entryVars, subVars>>

\* Herdr samples the pane; the answer is now on its way back.
HerdrReads(l) ==
  /\ reading[l] = Asked
  /\ reading' = [reading EXCEPT ![l] = pane[loopKey[l]]]
  /\ UNCHANGED <<socket, pane, entries, bySubscription, nextSub, nextLoop,
                 entryVars, subVars>>

\* The answer describes what the loop already sent.
PollUnchanged(l) ==
  /\ reading[l] \in Version
  /\ ~RevisionAdvanced(l, reading[l])
  /\ ~ContentChanged(l, reading[l])
  /\ reading' = [reading EXCEPT ![l] = Idle]
  /\ UNCHANGED <<socket, pane, entries, bySubscription, nextSub, nextLoop,
                 entryVars, subVars>>

\* The answer is new: remember it and send it to every subscriber.
PollChanged(l) ==
  LET v == reading[l]
      e == PolledEntry(l)
  IN /\ v \in Version
     /\ RevisionAdvanced(e, v) \/ ContentChanged(e, v)
     /\ reading' = [reading EXCEPT ![l] = Idle]
     /\ lastRevision' = [lastRevision EXCEPT ![e] = IF RevisionOf[v] > @ THEN RevisionOf[v] ELSE @]
     /\ lastContent' = [lastContent EXCEPT ![e] = v]
     /\ primed' = [s \in Sub |-> primed[s] \/ s \in subscribers[e]]
     /\ held' = [s \in Sub |->
                   IF s \in subscribers[e] /\ socket[conn[s]] = "open"
                   THEN Rebuilt(e, s, v) ELSE held[s]]
     /\ UNCHANGED <<socket, pane, entries, bySubscription, nextSub, nextLoop,
                    loopKey, subscribers, conn, delta>>

\* The read fails: the tick is skipped, the next one asks again.
PollFails(l) ==
  /\ reading[l] # Idle
  /\ reading' = [reading EXCEPT ![l] = Idle]
  /\ UNCHANGED <<socket, pane, entries, bySubscription, nextSub, nextLoop,
                 entryVars, subVars>>

\* Herdr: the pane's program writes.
PaneWrites(k) ==
  /\ pane[k] < MaxVersion
  /\ pane' = [pane EXCEPT ![k] = @ + 1]
  /\ UNCHANGED <<socket, entries, bySubscription, nextSub, nextLoop,
                 entryVars, reading, subVars>>

Next ==
  \/ \E c \in Conn, k \in Key, d \in BOOLEAN :
       \E r \in 0 .. pane[k] : Subscribe(c, k, d, r)
  \/ \E s \in Sub : Unsubscribe(s)
  \/ \E c \in Conn : SocketClosing(c) \/ SocketClosed(c)
  \/ \E k \in Key : PollStart(k) \/ PaneWrites(k)
  \/ \E l \in Loop : HerdrReads(l) \/ PollUnchanged(l) \/ PollChanged(l) \/ PollFails(l)

(* The interval timer keeps firing, a closing socket closes, and herdr     *)
(* neither stays silent for ever nor fails every read it answers.          *)
Fairness ==
  /\ \A k \in Key : WF_vars(PollStart(k))
  /\ \A c \in Conn : WF_vars(socket[c] = "closing" /\ SocketClosed(c))
  /\ \A l \in Loop : /\ SF_vars(HerdrReads(l))
                     /\ SF_vars(PollUnchanged(l) \/ PollChanged(l))

Spec == Init /\ [][Next]_vars
FairSpec == Spec /\ Fairness

-----------------------------------------------------------------------------
(* Properties.                                                             *)

\* s is registered, and its connection still takes frames.
Live(s) == bySubscription[s] # NoKey /\ socket[conn[s]] = "open"

LoopOf(s) == entries[bySubscription[s]]

(* A primed subscriber has painted exactly the snapshot its loop keeps     *)
(* (poller.ts:45-51): the fact that makes one bit enough to send deltas.   *)
PrimedHoldsLastContent ==
  \A s \in Sub : Live(s) /\ primed[s] => held[s] = lastContent[LoopOf(s)]

(* No delta is ever applied to a snapshot it was not computed against,     *)
(* whatever joins, leaves, closes or is still in flight.                   *)
NoGarbledScreen == \A s \in Sub : held[s] # Garbled

(* The two maps of the poller agree, a loop runs exactly while somebody is *)
(* subscribed, and a closed connection owns nothing: no read is repeated   *)
(* for ever for a browser that left (poller.ts:150-175, server.ts:92-98).  *)
LoopsRunForSubscribers ==
  /\ \A k \in Key : SubscribersOf(k) = {s \in Sub : bySubscription[s] = k}
  /\ \A k \in Key : entries[k] # NoLoop => SubscribersOf(k) # {}
  /\ \A s \in Sub : bySubscription[s] # NoKey => socket[conn[s]] # "closed"

(* Snapshots reach a subscriber of a live loop in the order herdr took     *)
(* them: once primed, its screen never goes back to an older one, although *)
(* an answer to a stopped loop's poll may arrive at any time.              *)
ScreensMoveForward ==
  [][\A s \in Sub : primed[s] => held'[s] >= held[s]]_vars

\* What s shows is what its pane shows.
UpToDate(s) == held[s] >= 0 /\ ContentOf[held[s]] = ContentOf[pane[bySubscription[s]]]

(* A subscriber that received a frame catches up with its pane once the    *)
(* pane is quiet, although herdr's revision may never move (poller.ts:192).*)
PrimedCatchUp ==
  \A s \in Sub : (Live(s) /\ primed[s]) ~> (~Live(s) \/ UpToDate(s))

(* ADR-0004 (docs/adr/0004-full-snapshot-terminal-output-via-polling.md:   *)
(* 67-69) of the bit `primed`: a subscriber "that has not [received the    *)
(* last snapshot] -- including one that joined a running loop -- gets the  *)
(* full frame"; so every subscriber catches up with a quiet pane.          *)
(* Not so in the code; the README says where (Disagreements).              *)
EveryJoinerCatchesUp ==
  \A s \in Sub : Live(s) ~> (~Live(s) \/ UpToDate(s))

(* The poller implements the feed it promises.                             *)
Feed == INSTANCE SnapshotFeed WITH
  of <- bySubscription, view <- held, synced <- primed
ImplementsFeed == Feed!Spec
=============================================================================
