-------------------------- MODULE BoardSyncProofs ---------------------------
(***************************************************************************)
(* Proofs about BoardSync for any number of panes, boards and statuses, of *)
(* polls and connects in flight and of outages, and pushes queueing to any *)
(* length.                                                                 *)
(*                                                                         *)
(* A card goes away when the bridge reports its pane closed, on the word   *)
(* of a push, of a poll or of the answer to a close.  Each of the three    *)
(* may be old, so the invariant says that each stays true: panes are never *)
(* born twice (KnownWasBorn keeps every id the bridge has ever heard of    *)
(* among the born), a push that says "closed" is about a dead pane         *)
(* (PushesAreTrue), so is a gap in the answer of each of the polls in      *)
(* flight, provided that poll knew the pane before it asked (PollsAreTrue),*)
(* and so is an answered close (AnswerIsTrue).                             *)
(***************************************************************************)
EXTENDS BoardSync, TLAPS

\* The bridge only knows panes that were born, and places all it tracks.
KnownWasBorn ==
  /\ Live \subseteq born
  /\ Tracked \subseteq placed /\ placed \subseteq born
  /\ \A b \in Board, p \in Pane : list[b][p] # NoPane => p \in born
  /\ \A a \in Attempt : connects[a].stage = "answered" =>
       \A p \in Pane : connects[a].answer[p] # NoPane => p \in born

\* Pushes are about panes that were born, and the closed ones are dead.
QueueIsTrue(queue) ==
  \A i \in 1 .. Len(queue) :
    queue[i].pane \in born /\ (queue[i].status = NoPane => herdr[queue[i].pane] = NoPane)
PushesAreTrue == QueueIsTrue(pushes) /\ QueueIsTrue(late)

\* Polls know panes that were born; those that an answer misses are dead.
PollsAreTrue ==
  \A q \in Poll :
    /\ polls[q].stage = "asked" => polls[q].known \subseteq born
    /\ polls[q].stage = "answered" =>
         \A p \in Pane :
           /\ p \in polls[q].missing =>
                p \in born /\ herdr[p] = NoPane /\ polls[q].answer[p] = NoPane
           /\ polls[q].answer[p] # NoPane => p \in born

\* A served split's pane was born, a served close's pane is dead.
AnswerIsTrue ==
  mutation.stage = "done" =>
    /\ mutation.pane \in born
    /\ mutation.status = NoPane => herdr[mutation.pane] = NoPane

IInv == TypeOK /\ KnownWasBorn /\ PushesAreTrue /\ PollsAreTrue /\ AnswerIsTrue

PollStates == {Idle} \cup [stage : {"asked"}, known : SUBSET Pane]
                     \cup [stage : {"answered"}, missing : SUBSET Pane, answer : Panes]
ConnectStates == {Idle} \cup [stage : {"answered"}, answer : Panes]
                        \cup [stage : {"seeded", "superseded"}]

-----------------------------------------------------------------------------

\* The markers are no status and no board.
LEMMA Markers == NoPane \notin Status /\ NobodyAsks \notin Board
  BY SyncAssumption

\* The bridge starts in the invariant.
LEMMA InitHolds == Init => IInv
<1> SUFFICES ASSUME Init PROVE IInv
  OBVIOUS
<1>1. TypeOK
  <2>1. Nobody \in Panes
    BY DEF Nobody, Panes
  <2>2. connects \in [Attempt -> {Idle}] /\ polls \in [Poll -> {Idle}] /\ mutation = Idle
    BY DEF Init
  <2>3. pushes \in Seq(Push) /\ late \in Seq(Push) /\ retries \in Nat /\ connected \in BOOLEAN
    <3>1. pushes = <<>> /\ late = <<>> /\ retries = 1 /\ connected = FALSE
      BY DEF Init
    <3>2. <<>> \in Seq(Push)
      OBVIOUS
    <3> QED
      BY <3>1, <3>2
  <2>4. list \in [Board -> Panes] /\ card \in [Board -> Panes] /\ tracked \in Panes
    BY <2>1 DEF Init
  <2> QED
    BY <2>2, <2>3, <2>4 DEF Init, TypeOK, Live, Shown
<1>2. KnownWasBorn /\ PushesAreTrue /\ PollsAreTrue /\ AnswerIsTrue
  BY DEF Init, Panes, KnownWasBorn, PushesAreTrue, QueueIsTrue, PollsAreTrue, AnswerIsTrue,
         Live, Shown, Tracked, Nobody, Idle
<1> QED
  BY <1>1, <1>2 DEF IInv

\* What a pane is set to leaves the others alone.
LEMMA SetPane ==
  ASSUME NEW m \in Panes, NEW p \in Pane, NEW s \in Status \cup {NoPane}
  PROVE  /\ [m EXCEPT ![p] = s] \in Panes
         /\ \A q \in Pane : [m EXCEPT ![p] = s][q] = IF q = p THEN s ELSE m[q]
  BY DEF Panes

\* A list laid over what is known is again a map of panes.
LEMMA TrackType ==
  ASSUME NEW m \in Panes, NEW q \in Panes
  PROVE  /\ Track(m, q) \in Panes
         /\ \A p \in Pane : Track(m, q)[p] = IF q[p] # NoPane THEN q[p] ELSE m[p]
  BY DEF Panes, Track

\* trackPane and untrackPane keep the baseline among the placements.
LEMMA TracksKeeps ==
  ASSUME TypeOK, KnownWasBorn, NEW p \in Pane, NEW s \in Status \cup {NoPane}, Tracks(p, s),
         p \in born
  PROVE  /\ tracked' \in Panes /\ placed' \subseteq Pane /\ placed' \subseteq born
         /\ \A q \in Pane : tracked'[q] = IF q = p THEN s ELSE tracked[q]
         /\ \A q \in Pane : tracked'[q] # NoPane => q \in placed'
<1>1. tracked \in Panes /\ placed \subseteq Pane
  BY DEF TypeOK
<1>2. tracked' = [tracked EXCEPT ![p] = s]
      /\ placed' = IF s = NoPane THEN placed \ {p} ELSE placed \cup {p}
  BY DEF Tracks
<1>3. tracked' \in Panes /\ \A q \in Pane : tracked'[q] = IF q = p THEN s ELSE tracked[q]
  BY <1>1, <1>2 DEF Panes
<1>4. \A q \in Pane : tracked[q] # NoPane => q \in placed
  BY DEF KnownWasBorn, Tracked, Shown
<1> QED
  BY <1>1, <1>2, <1>3, <1>4 DEF KnownWasBorn

\* A push goes to the end of the queue, or nowhere.
LEMMA PushedType ==
  ASSUME pushes \in Seq(Push), NEW e \in Push, Pushes(e)
  PROVE  /\ pushes' \in Seq(Push) /\ late' = late
         /\ pushes' = pushes \/ pushes' = Append(pushes, e)
  BY DEF Pushes

\* Queues that are true stay true when a true push is appended and no pane
\* comes back to life.
LEMMA QueueStaysTrue ==
  ASSUME TypeOK, PushesAreTrue, born \subseteq born',
         NEW e \in Push, pushes' = pushes \/ pushes' = Append(pushes, e), late' = late,
         e.pane \in born', e.status = NoPane => herdr'[e.pane] = NoPane,
         \A p \in born : herdr[p] = NoPane => herdr'[p] = NoPane
  PROVE  PushesAreTrue'
<1>1. ASSUME NEW i \in 1 .. Len(pushes')
      PROVE  /\ pushes'[i].pane \in born'
             /\ pushes'[i].status = NoPane => herdr'[pushes'[i].pane] = NoPane
  <2>1. pushes \in Seq(Push)
    BY DEF TypeOK
  <2>2. pushes'[i] = e \/ (i \in 1 .. Len(pushes) /\ pushes'[i] = pushes[i])
    BY <2>1
  <2>3. CASE pushes'[i] = e
    BY <2>3
  <2>4. CASE i \in 1 .. Len(pushes) /\ pushes'[i] = pushes[i]
    BY <2>4 DEF PushesAreTrue, QueueIsTrue
  <2> QED
    BY <2>2, <2>3, <2>4
<1>2. ASSUME NEW i \in 1 .. Len(late')
      PROVE  /\ late'[i].pane \in born'
             /\ late'[i].status = NoPane => herdr'[late'[i].pane] = NoPane
  BY DEF PushesAreTrue, QueueIsTrue
<1> QED
  BY <1>1, <1>2 DEF PushesAreTrue, QueueIsTrue

\* The state of a poll, and of a connect, by its stage.
LEMMA PollType ==
  ASSUME TypeOK, NEW q \in Poll
  PROVE  /\ polls[q] \in PollStates
         /\ polls[q].stage = "asked" => polls[q].known \subseteq Pane
         /\ polls[q].stage = "answered" =>
              polls[q].answer \in Panes /\ polls[q].missing \subseteq Pane
  BY DEF TypeOK, Idle, PollStates

LEMMA ConnectType ==
  ASSUME TypeOK, NEW a \in Attempt
  PROVE  /\ connects[a] \in ConnectStates
         /\ connects[a].stage = "answered" => connects[a].answer \in Panes
  BY DEF TypeOK, Idle, ConnectStates

\* A pane changes its life or status at herdr: what is on its way stays true
\* as long as no dead pane comes back.
LEMMA HerdrStaysTrue ==
  ASSUME TypeOK, KnownWasBorn, PollsAreTrue, AnswerIsTrue, born \subseteq born',
         {q \in Pane : herdr'[q] # NoPane} \subseteq born',
         \A p \in born : herdr[p] = NoPane => herdr'[p] = NoPane,
         UNCHANGED <<tracked, placed, polls, mutation, list, connects>>
  PROVE  KnownWasBorn' /\ PollsAreTrue' /\ AnswerIsTrue'
<1>1. KnownWasBorn'
  BY DEF KnownWasBorn, Live, Shown, Tracked
<1>2. PollsAreTrue'
  BY DEF PollsAreTrue
<1>3. AnswerIsTrue'
  BY DEF AnswerIsTrue
<1> QED
  BY <1>1, <1>2, <1>3

-----------------------------------------------------------------------------
(* One lemma per action, or per actions that change the same variables.    *)

LEMMA BirthStep ==
  ASSUME IInv, NEW p \in Pane, NEW s \in Status, Birth(p, s)
  PROVE  IInv'
<1> DEFINE e == [pane |-> p, status |-> s]
<1>1. /\ p \notin born /\ herdr' = [herdr EXCEPT ![p] = s] /\ born' = born \cup {p}
      /\ Pushes(e)
      /\ UNCHANGED <<connected, feed, retries, connects, tracked, placed, polls, mutation,
                     visit, list, card>>
      /\ TypeOK
  BY DEF IInv, Birth, linkVars, baseVars, boardVars
<1>2. e \in Push /\ e.pane = p /\ e.status # NoPane
  BY Markers DEF Push
<1> HIDE DEF e
<1>3. pushes' \in Seq(Push) /\ late' = late /\ (pushes' = pushes \/ pushes' = Append(pushes, e))
  BY <1>1, <1>2, PushedType DEF TypeOK
<1>4. herdr' \in Panes /\ \A q \in Pane : herdr'[q] = IF q = p THEN s ELSE herdr[q]
  BY <1>1 DEF TypeOK, Panes
<1>5. TypeOK'
  BY <1>1, <1>3, <1>4 DEF TypeOK
<1>6. born \subseteq Pane
  BY <1>1 DEF TypeOK
<1>7. PushesAreTrue'
  BY <1>1, <1>2, <1>3, <1>4, <1>6, QueueStaysTrue DEF IInv
<1>8. KnownWasBorn' /\ PollsAreTrue' /\ AnswerIsTrue'
  BY <1>1, <1>4, <1>6, HerdrStaysTrue DEF IInv, KnownWasBorn, Live, Shown
<1> QED
  BY <1>5, <1>7, <1>8 DEF IInv

LEMMA DeathStep ==
  ASSUME IInv, NEW p \in Pane, NEW told \in BOOLEAN, Death(p, told)
  PROVE  IInv'
<1> DEFINE e == [pane |-> p, status |-> NoPane]
<1>1. /\ p \in Live /\ herdr' = [herdr EXCEPT ![p] = NoPane]
      /\ Pushes(e) \/ UNCHANGED <<pushes, late>>
      /\ UNCHANGED <<born, connected, feed, retries, connects, tracked, placed, polls, mutation,
                     visit, list, card>>
      /\ TypeOK
  BY DEF IInv, Death, linkVars, baseVars, boardVars, queueVars
<1>2. e \in Push /\ e.pane = p
  BY DEF Push
<1> HIDE DEF e
<1>3. pushes' \in Seq(Push) /\ late' = late /\ (pushes' = pushes \/ pushes' = Append(pushes, e))
  BY <1>1, <1>2, PushedType DEF TypeOK
<1>4. herdr' \in Panes /\ \A q \in Pane : herdr'[q] = IF q = p THEN NoPane ELSE herdr[q]
  BY <1>1 DEF TypeOK, Panes
<1>5. TypeOK'
  BY <1>1, <1>3, <1>4 DEF TypeOK
<1>6. p \in born /\ born \subseteq Pane
  BY <1>1 DEF IInv, KnownWasBorn, TypeOK
<1>7. PushesAreTrue'
  BY <1>1, <1>2, <1>3, <1>4, <1>6, QueueStaysTrue DEF IInv
<1>8. KnownWasBorn' /\ PollsAreTrue' /\ AnswerIsTrue'
  BY <1>1, <1>4, <1>6, HerdrStaysTrue DEF IInv, KnownWasBorn, Live, Shown
<1> QED
  BY <1>5, <1>7, <1>8 DEF IInv

LEMMA StatusChangeStep ==
  ASSUME IInv, NEW p \in Pane, NEW s \in Status, StatusChange(p, s)
  PROVE  IInv'
<1>1. /\ p \in Live /\ herdr' = [herdr EXCEPT ![p] = s]
      /\ UNCHANGED <<born, pushes, late, connected, feed, retries, connects, tracked, placed,
                     polls, mutation, visit, list, card>>
      /\ TypeOK
  BY DEF IInv, StatusChange, queueVars, linkVars, baseVars, boardVars
<1>2. herdr' \in Panes /\ \A q \in Pane : herdr'[q] = IF q = p THEN s ELSE herdr[q]
  BY <1>1 DEF TypeOK, Panes
<1>3. TypeOK'
  BY <1>1, <1>2 DEF TypeOK
<1>4. p \in born /\ born \subseteq Pane /\ herdr[p] # NoPane
  BY <1>1 DEF IInv, KnownWasBorn, TypeOK, Live, Shown
<1>5. PushesAreTrue'
  BY <1>1, <1>2, <1>4 DEF IInv, PushesAreTrue, QueueIsTrue
<1>6. KnownWasBorn' /\ PollsAreTrue' /\ AnswerIsTrue'
  BY <1>1, <1>2, <1>4, HerdrStaysTrue DEF IInv, KnownWasBorn, Live, Shown
<1> QED
  BY <1>3, <1>5, <1>6 DEF IInv

LEMMA RenameStep ==
  ASSUME IInv, NEW p \in Pane, Rename(p)
  PROVE  IInv'
<1> DEFINE e == [pane |-> p, status |-> herdr[p]]
<1>1. /\ p \in Live /\ Pushes(e)
      /\ UNCHANGED <<herdr, born, connected, feed, retries, connects, tracked, placed, polls,
                     mutation, visit, list, card>>
      /\ TypeOK
  BY DEF IInv, Rename, herdrVars, linkVars, baseVars, boardVars
<1>2. e \in Push /\ e.pane = p /\ e.status # NoPane
  BY <1>1 DEF TypeOK, Panes, Live, Shown, Push
<1> HIDE DEF e
<1>3. pushes' \in Seq(Push) /\ late' = late /\ (pushes' = pushes \/ pushes' = Append(pushes, e))
  BY <1>1, <1>2, PushedType DEF TypeOK
<1>4. TypeOK'
  BY <1>1, <1>3 DEF TypeOK
<1>5. p \in born
  BY <1>1 DEF IInv, KnownWasBorn
<1>6. PushesAreTrue'
  BY <1>1, <1>2, <1>3, <1>5, QueueStaysTrue DEF IInv
<1>7. KnownWasBorn' /\ PollsAreTrue' /\ AnswerIsTrue'
  BY <1>1 DEF IInv, KnownWasBorn, PollsAreTrue, AnswerIsTrue, Live, Shown, Tracked
<1> QED
  BY <1>4, <1>6, <1>7 DEF IInv

\* An event that is true, handled from one of the queues.
LEMMA HandlesStep ==
  ASSUME IInv, NEW e \in Push, Handles(e), e.pane \in born
  PROVE  /\ tracked' \in Panes /\ placed' \subseteq Pane /\ card' \in [Board -> Panes]
         /\ placed' \subseteq born
         /\ \A p \in Pane : tracked'[p] # NoPane => p \in placed'
<1>1. /\ Tracks(e.pane, e.status) /\ card' = Show(e.pane, e.status) /\ TypeOK
      /\ e.pane \in Pane /\ e.status \in Status \cup {NoPane}
  BY DEF Handles, IInv, Push
<1>2. \A b \in Board : card[b] \in Panes
  BY <1>1 DEF TypeOK
<1>3. \A b \in Board : [card[b] EXCEPT ![e.pane] = e.status] \in Panes
  BY <1>1, <1>2, SetPane
<1>4. card' \in [Board -> Panes]
  BY <1>1, <1>2, <1>3 DEF Show
<1>5. IInv => KnownWasBorn
  BY DEF IInv
<1> QED
  BY <1>1, <1>4, <1>5, TracksKeeps

\* A pushed event is handled: the rest of the queue is as true as before.
LEMMA HandlePushStep ==
  ASSUME IInv, HandlePush
  PROVE  IInv'
<1> DEFINE e == Head(pushes)
<1>1. /\ pushes # <<>> /\ pushes' = Tail(pushes) /\ Handles(e)
      /\ UNCHANGED <<herdr, born, late, connected, feed, retries, connects, polls, mutation,
                     visit, list>>
      /\ TypeOK
  BY DEF IInv, HandlePush, herdrVars, linkVars
<1>2. pushes \in Seq(Push)
  BY <1>1 DEF TypeOK
<1>3. /\ e = pushes[1] /\ 1 \in 1 .. Len(pushes) /\ e \in Push
      /\ Tail(pushes) \in Seq(Push)
      /\ \A i \in 1 .. Len(Tail(pushes)) : i + 1 \in 1 .. Len(pushes) /\ Tail(pushes)[i] = pushes[i + 1]
  BY <1>1, <1>2
<1>4. e.pane \in born
  BY <1>3 DEF IInv, PushesAreTrue, QueueIsTrue
<1> HIDE DEF e
<1>5. /\ tracked' \in Panes /\ placed' \subseteq Pane /\ card' \in [Board -> Panes]
      /\ placed' \subseteq born /\ \A p \in Pane : tracked'[p] # NoPane => p \in placed'
  BY <1>1, <1>3, <1>4, HandlesStep
<1>6. TypeOK'
  BY <1>1, <1>3, <1>5 DEF TypeOK
<1>7. KnownWasBorn' /\ PollsAreTrue' /\ AnswerIsTrue'
  BY <1>1, <1>5 DEF IInv, KnownWasBorn, PollsAreTrue, AnswerIsTrue, Live, Shown, Tracked
<1>8. PushesAreTrue'
  BY <1>1, <1>3 DEF IInv, PushesAreTrue, QueueIsTrue
<1> QED
  BY <1>6, <1>7, <1>8 DEF IInv

LEMMA HandleLateStep ==
  ASSUME IInv, HandleLate
  PROVE  IInv'
<1> DEFINE e == Head(late)
<1>1. /\ late # <<>> /\ late' = Tail(late) /\ Handles(e)
      /\ UNCHANGED <<herdr, born, pushes, connected, feed, retries, connects, polls, mutation,
                     visit, list>>
      /\ TypeOK
  BY DEF IInv, HandleLate, herdrVars, linkVars
<1>2. late \in Seq(Push)
  BY <1>1 DEF TypeOK
<1>3. /\ e = late[1] /\ 1 \in 1 .. Len(late) /\ e \in Push
      /\ Tail(late) \in Seq(Push)
      /\ \A i \in 1 .. Len(Tail(late)) : i + 1 \in 1 .. Len(late) /\ Tail(late)[i] = late[i + 1]
  BY <1>1, <1>2
<1>4. e.pane \in born
  BY <1>3 DEF IInv, PushesAreTrue, QueueIsTrue
<1> HIDE DEF e
<1>5. /\ tracked' \in Panes /\ placed' \subseteq Pane /\ card' \in [Board -> Panes]
      /\ placed' \subseteq born /\ \A p \in Pane : tracked'[p] # NoPane => p \in placed'
  BY <1>1, <1>3, <1>4, HandlesStep
<1>6. TypeOK'
  BY <1>1, <1>3, <1>5 DEF TypeOK
<1>7. KnownWasBorn' /\ PollsAreTrue' /\ AnswerIsTrue'
  BY <1>1, <1>5 DEF IInv, KnownWasBorn, PollsAreTrue, AnswerIsTrue, Live, Shown, Tracked
<1>8. PushesAreTrue'
  BY <1>1, <1>3 DEF IInv, PushesAreTrue, QueueIsTrue
<1> QED
  BY <1>6, <1>7, <1>8 DEF IInv

-----------------------------------------------------------------------------
(* The polls.                                                              *)

\* A poll notes the tracked panes, is answered, or fails.
LEMMA PollMovesStep ==
  ASSUME IInv, NEW q \in Poll, PollStart(q) \/ PollAnswered(q) \/ PollFails(q)
  PROVE  IInv'
<1>1. /\ UNCHANGED <<herdr, born, pushes, late, connected, feed, retries, connects, tracked,
                     placed, mutation, visit, list, card>>
      /\ TypeOK /\ herdr \in Panes /\ polls \in [Poll -> PollStates]
  BY DEF IInv, PollStart, PollAnswered, PollFails, herdrVars, queueVars, linkVars, baseVars,
         boardVars, TypeOK, PollStates
<1>2. PICK r \in PollStates :
        /\ polls' = [polls EXCEPT ![q] = r]
        /\ r.stage = "asked" => r.known \subseteq born
        /\ r.stage = "answered" =>
             \A p \in Pane : /\ p \in r.missing => p \in born /\ herdr[p] = NoPane /\ r.answer[p] = NoPane
                             /\ r.answer[p] # NoPane => p \in born
  <2>1. CASE PollStart(q)
    <3> DEFINE r == [stage |-> "asked", known |-> Tracked]
    <3>1. polls' = [polls EXCEPT ![q] = r] /\ r \in PollStates
      BY <2>1 DEF PollStart, PollStates, Tracked, Shown
    <3>2. r.stage = "asked" /\ r.known \subseteq born
      BY DEF IInv, KnownWasBorn
    <3> QED
      BY <3>1, <3>2
  <2>2. CASE PollAnswered(q)
    <3> DEFINE r == [stage |-> "answered", missing |-> polls[q].known \ Live, answer |-> herdr]
    <3>1. polls' = [polls EXCEPT ![q] = r] /\ polls[q].stage = "asked"
      BY <2>2 DEF PollAnswered
    <3>2. polls[q].known \subseteq Pane /\ polls[q].known \subseteq born
      BY <1>1, <3>1, PollType DEF IInv, PollsAreTrue
    <3>3. r \in PollStates
      BY <1>1, <3>2 DEF PollStates
    <3>4. r.stage = "answered" /\ r.answer = herdr /\ r.missing = polls[q].known \ Live
      OBVIOUS
    <3> HIDE DEF r
    <3> QED
      BY <3>1, <3>2, <3>3, <3>4 DEF IInv, KnownWasBorn, Live, Shown
  <2>3. CASE PollFails(q)
    <3>1. polls' = [polls EXCEPT ![q] = Idle] /\ Idle \in PollStates
      BY <2>3 DEF PollFails, PollStates
    <3>2. Idle.stage = "idle"
      BY DEF Idle
    <3> QED
      BY <3>1, <3>2
  <2> QED
    BY <2>1, <2>2, <2>3
<1>3. /\ polls' \in [Poll -> PollStates]
      /\ \A c \in Poll : polls'[c] = IF c = q THEN r ELSE polls[c]
  BY <1>1, <1>2
<1>4. TypeOK'
  BY <1>1, <1>3 DEF TypeOK, PollStates
<1>5. PollsAreTrue'
  BY <1>1, <1>2, <1>3 DEF IInv, PollsAreTrue
<1>6. KnownWasBorn' /\ PushesAreTrue' /\ AnswerIsTrue'
  BY <1>1 DEF IInv, KnownWasBorn, PushesAreTrue, QueueIsTrue, AnswerIsTrue, Live, Shown, Tracked
<1> QED
  BY <1>4, <1>5, <1>6 DEF IInv

\* What a poll's answer makes of the baseline.
LEMMA BaselinePolled ==
  ASSUME TypeOK, NEW q \in Poll, PollApplied(q)
  PROVE  /\ tracked' \in Panes
         /\ \A p \in Pane :
              tracked'[p] = IF polls[q].answer[p] # NoPane THEN polls[q].answer[p]
                            ELSE IF p \in Missing(q) THEN NoPane ELSE tracked[p]
<1> DEFINE kept == [p \in Pane |-> IF p \in Missing(q) THEN NoPane ELSE tracked[p]]
<1>1. polls[q].stage = "answered" /\ tracked' = Track(kept, polls[q].answer)
  BY DEF PollApplied
<1>2. polls[q].answer \in Panes
  BY <1>1, PollType
<1>3. kept \in Panes /\ \A p \in Pane : kept[p] = IF p \in Missing(q) THEN NoPane ELSE tracked[p]
  BY DEF TypeOK, Panes
<1> HIDE DEF kept
<1> QED
  BY <1>1, <1>2, <1>3, TrackType

LEMMA PollAppliedStep ==
  ASSUME IInv, NEW q \in Poll, PollApplied(q)
  PROVE  IInv'
<1>1. /\ polls[q].stage = "answered" /\ polls' = [polls EXCEPT ![q] = Idle]
      /\ placed' = (placed \ Missing(q)) \cup Shown(polls[q].answer)
      /\ card' = [b \in Board |-> IF b \in Subscribed THEN Polled(q, b) ELSE card[b]]
      /\ UNCHANGED <<herdr, born, pushes, late, connected, feed, retries, connects, mutation,
                     visit, list>>
      /\ TypeOK /\ polls \in [Poll -> PollStates]
  BY DEF IInv, PollApplied, herdrVars, queueVars, linkVars, TypeOK, PollStates
<1>2. polls[q].answer \in Panes
  BY <1>1, PollType
<1>3. /\ tracked' \in Panes
      /\ \A p \in Pane :
           tracked'[p] = IF polls[q].answer[p] # NoPane THEN polls[q].answer[p]
                         ELSE IF p \in Missing(q) THEN NoPane ELSE tracked[p]
  BY <1>1, BaselinePolled
<1>4. card' \in [Board -> Panes]
  <2>1. \A b \in Board : card[b] \in Panes
    BY <1>1 DEF TypeOK
  <2>2. \A b \in Board : Polled(q, b) \in Panes
    BY <1>2, <2>1 DEF Polled, Panes
  <2> QED
    BY <1>1, <2>1, <2>2
<1>5. placed' \subseteq Pane /\ placed' \subseteq born
  BY <1>1 DEF TypeOK, IInv, KnownWasBorn, PollsAreTrue, Shown
<1>6. \A p \in Pane : tracked'[p] # NoPane => p \in placed'
  BY <1>1, <1>3 DEF IInv, KnownWasBorn, Tracked, Shown
<1>7. polls' \in [Poll -> PollStates] /\ \A c \in Poll : polls'[c] = IF c = q THEN Idle ELSE polls[c]
  BY <1>1 DEF PollStates
<1>8. TypeOK'
  BY <1>1, <1>3, <1>4, <1>5, <1>7 DEF TypeOK, PollStates
<1>9. KnownWasBorn' /\ PushesAreTrue' /\ AnswerIsTrue'
  BY <1>1, <1>5, <1>6 DEF IInv, KnownWasBorn, PushesAreTrue, QueueIsTrue, AnswerIsTrue,
     Live, Shown, Tracked
<1>10. PollsAreTrue'
  BY <1>1, <1>7 DEF IInv, PollsAreTrue, Idle
<1> QED
  BY <1>8, <1>9, <1>10 DEF IInv

-----------------------------------------------------------------------------
(* The link.                                                               *)

LEMMA LinkLostStep ==
  ASSUME IInv, NEW n \in 1 .. 2, LinkLost(n)
  PROVE  IInv'
<1>1. /\ feed' = "none" /\ connected' \in {FALSE, connected} /\ retries' \in {retries, retries + n}
      /\ pushes' = <<>> /\ late' \in {late, <<>>}
      /\ UNCHANGED <<herdr, born, connects, tracked, placed, polls, mutation, visit, list, card>>
      /\ TypeOK
  BY DEF IInv, LinkLost, herdrVars, baseVars, boardVars
<1>2. pushes' \in Seq(Push) /\ late' \in Seq(Push) /\ retries' \in Nat /\ connected' \in BOOLEAN
  <2>1. late \in Seq(Push) /\ retries \in Nat /\ connected \in BOOLEAN
    BY <1>1 DEF TypeOK
  <2>2. <<>> \in Seq(Push)
    OBVIOUS
  <2>3. pushes' \in Seq(Push) /\ late' \in Seq(Push)
    BY <1>1, <2>1, <2>2
  <2>4. n \in Nat
    OBVIOUS
  <2>5. retries + n \in Nat
    BY <2>1, <2>4
  <2>6. retries' \in Nat /\ connected' \in BOOLEAN
    BY <1>1, <2>1, <2>5
  <2> QED
    BY <2>3, <2>6
<1>3. TypeOK'
  BY <1>1, <1>2 DEF TypeOK
<1>4. PushesAreTrue'
  BY <1>1 DEF IInv, PushesAreTrue, QueueIsTrue
<1>5. KnownWasBorn' /\ PollsAreTrue' /\ AnswerIsTrue'
  BY <1>1 DEF IInv, KnownWasBorn, PollsAreTrue, AnswerIsTrue, Live, Shown, Tracked
<1> QED
  BY <1>3, <1>4, <1>5 DEF IInv

\* A connect moves on without touching the baseline.
LEMMA ConnectMovesStep ==
  ASSUME IInv, NEW a \in Attempt, ConnectLists(a) \/ Acknowledged(a) \/ ConnectFails(a)
  PROVE  IInv'
<1>1. /\ UNCHANGED <<herdr, born, tracked, placed, polls, mutation, visit, list, card>>
      /\ TypeOK /\ herdr \in Panes /\ connects \in [Attempt -> ConnectStates]
      /\ pushes \in Seq(Push) /\ late \in Seq(Push) /\ retries \in Nat
  BY DEF IInv, ConnectLists, Acknowledged, ConnectFails, herdrVars, baseVars, boardVars, TypeOK,
         ConnectStates
<1>2. PICK r \in ConnectStates :
        /\ connects' = [connects EXCEPT ![a] = r]
        /\ r.stage = "answered" => r.answer = herdr
  BY <1>1 DEF ConnectLists, Acknowledged, ConnectFails, ConnectStates, Idle
<1>3. /\ connects' \in [Attempt -> ConnectStates]
      /\ \A c \in Attempt : connects'[c] = IF c = a THEN r ELSE connects[c]
  BY <1>1, <1>2
<1>4. /\ connected' \in {connected, TRUE, FALSE} /\ feed' \in {feed, "current"}
      /\ retries' \in Nat
      /\ \/ pushes' = pushes /\ late' = late
         \/ pushes' = <<>> /\ late' = late \o pushes
  <2>1. CASE ConnectLists(a)
    BY <1>1, <2>1 DEF ConnectLists, queueVars
  <2>2. CASE Acknowledged(a)
    BY <1>1, <2>2 DEF Acknowledged, queueVars
  <2>3. CASE ConnectFails(a)
    <3>1. /\ connected' = FALSE /\ feed' = feed /\ retries' = retries + 1
          /\ pushes' = pushes /\ late' = late
      BY <2>3 DEF ConnectFails, queueVars
    <3>2. retries + 1 \in Nat
      BY <1>1
    <3> QED
      BY <3>1, <3>2
  <2> QED
    BY <2>1, <2>2, <2>3
<1>5. late' \in Seq(Push) /\ pushes' \in Seq(Push)
  <2>1. late \o pushes \in Seq(Push) /\ <<>> \in Seq(Push)
    BY <1>1
  <2> QED
    BY <1>1, <1>4, <2>1
<1>6. TypeOK'
  BY <1>1, <1>3, <1>4, <1>5 DEF TypeOK, ConnectStates
<1>7. KnownWasBorn'
  BY <1>1, <1>2, <1>3 DEF IInv, KnownWasBorn, Live, Shown, Tracked
<1>8. PushesAreTrue'
  <2>1. CASE pushes' = pushes /\ late' = late
    BY <1>1, <2>1 DEF IInv, PushesAreTrue, QueueIsTrue
  <2>2. CASE pushes' = <<>> /\ late' = late \o pushes
    <3>1. ASSUME NEW i \in 1 .. Len(late')
          PROVE  \/ i \in 1 .. Len(late) /\ late'[i] = late[i]
                 \/ i - Len(late) \in 1 .. Len(pushes) /\ late'[i] = pushes[i - Len(late)]
      BY <1>1, <2>2
    <3>2. QueueIsTrue(late)'
      BY <1>1, <3>1 DEF IInv, PushesAreTrue, QueueIsTrue
    <3>3. QueueIsTrue(pushes)'
      BY <2>2 DEF QueueIsTrue
    <3> QED
      BY <3>2, <3>3 DEF PushesAreTrue
  <2> QED
    BY <1>4, <2>1, <2>2
<1>9. PollsAreTrue' /\ AnswerIsTrue'
  BY <1>1 DEF IInv, PollsAreTrue, AnswerIsTrue
<1> QED
  BY <1>6, <1>7, <1>8, <1>9 DEF IInv

LEMMA SeedsStep ==
  ASSUME IInv, NEW a \in Attempt, Seeds(a)
  PROVE  IInv'
<1>1. /\ connects[a].stage = "answered"
      /\ tracked' = connects[a].answer /\ placed' = placed \cup Shown(connects[a].answer)
      /\ connects' = [c \in Attempt |->
                        IF c = a THEN [stage |-> "seeded"]
                        ELSE IF connects[c].stage = "seeded" THEN [stage |-> "superseded"]
                        ELSE connects[c]]
      /\ feed' \in {feed, "stale"}
      /\ UNCHANGED <<herdr, born, pushes, late, connected, retries, polls, mutation, visit, list,
                     card>>
      /\ TypeOK /\ connects \in [Attempt -> ConnectStates]
  BY DEF IInv, Seeds, herdrVars, queueVars, boardVars, TypeOK, ConnectStates
<1>2. connects[a].answer \in Panes
  BY <1>1, ConnectType
<1>3. connects' \in [Attempt -> ConnectStates]
  BY <1>1 DEF ConnectStates
<1>4. TypeOK'
  BY <1>1, <1>2, <1>3 DEF TypeOK, ConnectStates, Shown
<1>5. KnownWasBorn'
  <2>1. Tracked' \subseteq placed' /\ placed' \subseteq born
    BY <1>1 DEF IInv, KnownWasBorn, Tracked, Shown
  <2>2. \A c \in Attempt : connects'[c].stage = "answered" => connects'[c] = connects[c]
    BY <1>1
  <2> QED
    BY <1>1, <2>1, <2>2 DEF IInv, KnownWasBorn, Live, Shown
<1>6. PushesAreTrue' /\ PollsAreTrue' /\ AnswerIsTrue'
  BY <1>1 DEF IInv, PushesAreTrue, QueueIsTrue, PollsAreTrue, AnswerIsTrue
<1> QED
  BY <1>4, <1>5, <1>6 DEF IInv

LEMMA ConnectFailsEarlyStep ==
  ASSUME IInv, ConnectFailsEarly
  PROVE  IInv'
<1>1. /\ connected' = FALSE
      /\ UNCHANGED <<herdr, born, pushes, late, feed, retries, connects, tracked, placed, polls,
                     mutation, visit, list, card>>
      /\ TypeOK
  BY DEF IInv, ConnectFailsEarly, herdrVars, queueVars, baseVars, boardVars
<1>2. TypeOK'
  BY <1>1 DEF TypeOK
<1>3. KnownWasBorn' /\ PushesAreTrue' /\ PollsAreTrue' /\ AnswerIsTrue'
  BY <1>1 DEF IInv, KnownWasBorn, PushesAreTrue, QueueIsTrue, PollsAreTrue, AnswerIsTrue, Live,
     Shown, Tracked
<1> QED
  BY <1>2, <1>3 DEF IInv

-----------------------------------------------------------------------------
(* The boards.                                                             *)

\* Every step of a visit but the answered and the applied list.
LEMMA VisitStep ==
  ASSUME IInv, NEW b \in Board, Connects(b) \/ ListFails(b) \/ Subscribes(b)
  PROVE  IInv'
<1>1. /\ \E v \in {"listing", "gaveUp", "subscribed"} : visit' = [visit EXCEPT ![b] = v]
      /\ UNCHANGED <<herdr, born, pushes, late, connected, feed, retries, connects, tracked,
                     placed, polls, mutation, list, card>>
      /\ TypeOK
  BY DEF IInv, Connects, ListFails, Subscribes, herdrVars, queueVars, linkVars, baseVars
<1>2. TypeOK'
  BY <1>1 DEF TypeOK
<1>3. KnownWasBorn' /\ PushesAreTrue' /\ PollsAreTrue' /\ AnswerIsTrue'
  BY <1>1 DEF IInv, KnownWasBorn, PushesAreTrue, QueueIsTrue, PollsAreTrue, AnswerIsTrue, Live,
     Shown, Tracked
<1> QED
  BY <1>2, <1>3 DEF IInv

\* A board that leaves is no longer waiting for an answer, which the bridge
\* still acts on.
LEMMA DisconnectsStep ==
  ASSUME IInv, NEW b \in Board, Disconnects(b)
  PROVE  IInv'
<1>1. /\ \E v \in {"left", "offline"} : visit' = [visit EXCEPT ![b] = v]
      /\ \/ mutation' = mutation
         \/ mutation # Idle /\ mutation' = [mutation EXCEPT !.asker = NobodyAsks]
      /\ UNCHANGED <<herdr, born, pushes, late, connected, feed, retries, connects, tracked,
                     placed, polls, list, card>>
      /\ TypeOK
  BY DEF IInv, Disconnects, herdrVars, queueVars, linkVars, baseVars
<1>2. mutation' \in {Idle} \cup Mutations /\ AnswerIsTrue'
  <2>1. CASE mutation' = mutation
    BY <2>1, <1>1 DEF TypeOK, IInv, AnswerIsTrue
  <2>2. CASE mutation # Idle /\ mutation' = [mutation EXCEPT !.asker = NobodyAsks]
    BY <2>2, <1>1 DEF TypeOK, IInv, AnswerIsTrue, Mutations
  <2> QED
    BY <1>1, <2>1, <2>2
<1>3. TypeOK'
  BY <1>1, <1>2 DEF TypeOK
<1>4. KnownWasBorn' /\ PushesAreTrue' /\ PollsAreTrue'
  BY <1>1 DEF IInv, KnownWasBorn, PushesAreTrue, QueueIsTrue, PollsAreTrue, Live, Shown, Tracked
<1> QED
  BY <1>2, <1>3, <1>4 DEF IInv

LEMMA ListAnsweredStep ==
  ASSUME IInv, NEW b \in Board, ListAnswered(b)
  PROVE  IInv'
<1>1. /\ visit' = [visit EXCEPT ![b] = "answered"] /\ list' = [list EXCEPT ![b] = herdr]
      /\ UNCHANGED <<herdr, born, pushes, late, connected, feed, retries, connects, tracked,
                     placed, polls, mutation, card>>
      /\ TypeOK
  BY DEF IInv, ListAnswered, herdrVars, queueVars, linkVars, baseVars
<1>2. TypeOK'
  BY <1>1 DEF TypeOK
<1>3. KnownWasBorn'
  BY <1>1 DEF IInv, TypeOK, KnownWasBorn, Live, Shown, Tracked
<1>4. PushesAreTrue' /\ PollsAreTrue' /\ AnswerIsTrue'
  BY <1>1 DEF IInv, PushesAreTrue, QueueIsTrue, PollsAreTrue, AnswerIsTrue
<1> QED
  BY <1>2, <1>3, <1>4 DEF IInv

LEMMA ListAppliedStep ==
  ASSUME IInv, NEW b \in Board, ListApplied(b)
  PROVE  IInv'
<1>1. /\ tracked' = Track(tracked, list[b]) /\ placed' = placed \cup Shown(list[b])
      /\ list' = [list EXCEPT ![b] = Nobody]
      /\ \E v \in {"offline", "listed"} : visit' = [visit EXCEPT ![b] = v]
      /\ card' = card \/ card' = [card EXCEPT ![b] = Track(card[b], list[b])]
      /\ UNCHANGED <<herdr, born, pushes, late, connected, feed, retries, connects, polls, mutation>>
      /\ TypeOK
  BY DEF IInv, ListApplied, herdrVars, queueVars, linkVars
<1>2. tracked \in Panes /\ list[b] \in Panes /\ card[b] \in Panes /\ Nobody \in Panes
  BY <1>1 DEF TypeOK, Nobody, Panes
<1>3. /\ tracked' \in Panes
      /\ \A p \in Pane : tracked'[p] # NoPane => list[b][p] # NoPane \/ tracked[p] # NoPane
  BY <1>1, <1>2, TrackType
<1>4. card' \in [Board -> Panes]
  BY <1>1, <1>2, TrackType DEF TypeOK
<1>5. placed' \subseteq Pane /\ placed' \subseteq born
  BY <1>1 DEF TypeOK, IInv, KnownWasBorn, Shown
<1>6. TypeOK'
  BY <1>1, <1>2, <1>3, <1>4, <1>5 DEF TypeOK
<1>7. KnownWasBorn'
  <2>1. \A p \in Pane : tracked'[p] # NoPane => p \in placed'
    BY <1>1, <1>3 DEF IInv, KnownWasBorn, Tracked, Shown
  <2>2. \A c \in Board, p \in Pane : list'[c][p] # NoPane => list[c][p] # NoPane
    BY <1>1 DEF TypeOK, Nobody
  <2> QED
    BY <1>1, <1>5, <2>1, <2>2 DEF IInv, KnownWasBorn, Live, Shown, Tracked
<1>8. PushesAreTrue' /\ PollsAreTrue' /\ AnswerIsTrue'
  BY <1>1 DEF IInv, PushesAreTrue, QueueIsTrue, PollsAreTrue, AnswerIsTrue
<1> QED
  BY <1>6, <1>7, <1>8 DEF IInv

LEMMA AskStep ==
  ASSUME IInv, NEW b \in Board, NEW p \in Pane, NEW s \in Status \cup {NoPane}, Ask(b, p, s)
  PROVE  IInv'
<1>1. /\ mutation' = [stage |-> "queued", asker |-> b, pane |-> p, status |-> s]
      /\ UNCHANGED <<herdr, born, pushes, late, connected, feed, retries, connects, tracked,
                     placed, polls, visit, list, card>>
      /\ TypeOK
  BY DEF IInv, Ask, herdrVars, queueVars, linkVars, baseVars, boardVars
<1>2. TypeOK'
  BY <1>1 DEF TypeOK, Mutations
<1>3. KnownWasBorn' /\ PushesAreTrue' /\ PollsAreTrue' /\ AnswerIsTrue'
  BY <1>1 DEF IInv, KnownWasBorn, PushesAreTrue, QueueIsTrue, PollsAreTrue, AnswerIsTrue, Live,
     Shown, Tracked
<1> QED
  BY <1>2, <1>3 DEF IInv

\* The type of a request the queue is serving.
LEMMA MutationType ==
  ASSUME TypeOK, mutation.stage # "idle"
  PROVE  /\ mutation \in Mutations
         /\ mutation.pane \in Pane /\ mutation.status \in Status \cup {NoPane}
         /\ mutation.asker \in Board \cup {NobodyAsks}
  BY DEF TypeOK, Idle, Mutations

LEMMA ServedStep ==
  ASSUME IInv, Served
  PROVE  IInv'
<1> DEFINE p == mutation.pane
           s == mutation.status
           e == [pane |-> mutation.pane, status |-> mutation.status]
<1>1. /\ mutation.stage = "queued" /\ mutation' = [mutation EXCEPT !.stage = "done"]
      /\ IF s = NoPane THEN p \in Live /\ born' = born ELSE p \notin born /\ born' = born \cup {p}
      /\ herdr' = [herdr EXCEPT ![p] = s] /\ Pushes(e)
      /\ UNCHANGED <<connected, feed, retries, connects, tracked, placed, polls, visit, list, card>>
      /\ TypeOK
  BY DEF IInv, Served, linkVars, baseVars, boardVars
<1>2. /\ mutation \in Mutations /\ p \in Pane /\ s \in Status \cup {NoPane}
      /\ e \in Push /\ e.pane = p /\ e.status = s
  BY <1>1, MutationType DEF Push
<1>3. mutation' \in Mutations /\ mutation'.pane = p /\ mutation'.status = s
  BY <1>1, <1>2 DEF Mutations
<1> HIDE DEF e, p, s
<1>4. pushes' \in Seq(Push) /\ late' = late /\ (pushes' = pushes \/ pushes' = Append(pushes, e))
  BY <1>1, <1>2, PushedType DEF TypeOK
<1>5. herdr' \in Panes /\ \A q \in Pane : herdr'[q] = IF q = p THEN s ELSE herdr[q]
  BY <1>1, <1>2 DEF TypeOK, Panes
<1>6. /\ born \subseteq born' /\ born' \subseteq Pane /\ p \in born' /\ born \subseteq Pane
      /\ s # NoPane => p \notin born
  BY <1>1, <1>2 DEF TypeOK, IInv, KnownWasBorn
<1>7. TypeOK'
  BY <1>1, <1>3, <1>4, <1>5, <1>6 DEF TypeOK
<1>8. \A q \in born : herdr[q] = NoPane => herdr'[q] = NoPane
  BY <1>5, <1>6
<1>9. PushesAreTrue'
  BY <1>1, <1>2, <1>4, <1>5, <1>6, <1>8, QueueStaysTrue DEF IInv
<1>10. KnownWasBorn'
  BY <1>1, <1>5, <1>6 DEF IInv, KnownWasBorn, Live, Shown, Tracked
<1>11. PollsAreTrue'
  BY <1>1, <1>6, <1>8 DEF IInv, PollsAreTrue
<1>12. AnswerIsTrue'
  BY <1>2, <1>3, <1>5, <1>6 DEF AnswerIsTrue
<1> QED
  BY <1>7, <1>9, <1>10, <1>11, <1>12 DEF IInv

LEMMA AnsweredStep ==
  ASSUME IInv, Answered
  PROVE  IInv'
<1> DEFINE p == mutation.pane
           s == mutation.status
<1>1. /\ mutation.stage = "done" /\ mutation' = Idle /\ Tracks(p, s)
      /\ card' = IF mutation.asker = NobodyAsks THEN card
                 ELSE [card EXCEPT ![mutation.asker][p] = s]
      /\ UNCHANGED <<herdr, born, pushes, late, connected, feed, retries, connects, polls, visit,
                     list>>
      /\ TypeOK
  BY DEF IInv, Answered, herdrVars, queueVars, linkVars
<1>2. p \in Pane /\ s \in Status \cup {NoPane} /\ mutation.asker \in Board \cup {NobodyAsks}
  BY <1>1, MutationType
<1>3. p \in born
  BY <1>1 DEF IInv, AnswerIsTrue
<1> HIDE DEF s, p
<1>4. /\ tracked' \in Panes /\ placed' \subseteq Pane /\ placed' \subseteq born
      /\ \A q \in Pane : tracked'[q] # NoPane => q \in placed'
  BY <1>1, <1>2, <1>3, TracksKeeps DEF IInv
<1>5. card' \in [Board -> Panes]
  <2>1. CASE mutation.asker = NobodyAsks
    BY <2>1, <1>1 DEF TypeOK
  <2>2. CASE mutation.asker \in Board
    <3>1. [card[mutation.asker] EXCEPT ![p] = s] \in Panes
      BY <2>2, <1>1, <1>2, SetPane DEF TypeOK
    <3> QED
      BY <2>2, <3>1, <1>1, Markers DEF TypeOK
  <2> QED
    BY <1>2, <2>1, <2>2
<1>6. TypeOK'
  BY <1>1, <1>4, <1>5 DEF TypeOK
<1>7. KnownWasBorn' /\ PushesAreTrue' /\ PollsAreTrue' /\ AnswerIsTrue'
  BY <1>1, <1>4 DEF IInv, KnownWasBorn, PushesAreTrue, QueueIsTrue, PollsAreTrue, AnswerIsTrue,
     Live, Shown, Tracked, Idle
<1> QED
  BY <1>6, <1>7 DEF IInv

LEMMA RefusedStep ==
  ASSUME IInv, Refused
  PROVE  IInv'
<1>1. /\ mutation' = Idle
      /\ UNCHANGED <<herdr, born, pushes, late, connected, feed, retries, connects, tracked,
                     placed, polls, visit, list, card>>
      /\ TypeOK
  BY DEF IInv, Refused, herdrVars, queueVars, linkVars, baseVars, boardVars
<1>2. TypeOK'
  BY <1>1 DEF TypeOK
<1>3. KnownWasBorn' /\ PushesAreTrue' /\ PollsAreTrue' /\ AnswerIsTrue'
  BY <1>1 DEF IInv, KnownWasBorn, PushesAreTrue, QueueIsTrue, PollsAreTrue, AnswerIsTrue, Live,
     Shown, Tracked, Idle
<1> QED
  BY <1>2, <1>3 DEF IInv

\* A step that changes nothing.
LEMMA StutterStep == ASSUME IInv, UNCHANGED vars PROVE IInv'
  BY DEF IInv, TypeOK, KnownWasBorn, PushesAreTrue, QueueIsTrue, PollsAreTrue, AnswerIsTrue,
         Live, Shown, Tracked, vars, herdrVars, queueVars, linkVars, baseVars, boardVars

\* The invariant is inductive.
LEMMA Invariance == Spec => []IInv
<1>1. IInv /\ [Next]_vars => IInv'
  <2> SUFFICES ASSUME IInv, [Next]_vars PROVE IInv'
    OBVIOUS
  <2>1. ASSUME NEW p \in Pane, NEW s \in Status, Birth(p, s) PROVE IInv'
    BY <2>1, BirthStep
  <2>2. ASSUME NEW p \in Pane, NEW s \in Status, StatusChange(p, s) PROVE IInv'
    BY <2>2, StatusChangeStep
  <2>3. ASSUME NEW p \in Pane, NEW told \in BOOLEAN, Death(p, told) PROVE IInv'
    BY <2>3, DeathStep
  <2>4. ASSUME NEW p \in Pane, Rename(p) PROVE IInv'
    BY <2>4, RenameStep
  <2>5. CASE HandlePush \/ HandleLate
    BY <2>5, HandlePushStep, HandleLateStep
  <2>6. ASSUME NEW q \in Poll, PollStart(q) \/ PollAnswered(q) \/ PollFails(q) \/ PollApplied(q)
        PROVE  IInv'
    BY <2>6, PollMovesStep, PollAppliedStep
  <2>7. ASSUME NEW n \in 1 .. 2, LinkLost(n) PROVE IInv'
    BY <2>7, LinkLostStep
  <2>8. ASSUME NEW a \in Attempt,
               ConnectLists(a) \/ Seeds(a) \/ Acknowledged(a) \/ ConnectFails(a)
        PROVE  IInv'
    BY <2>8, ConnectMovesStep, SeedsStep
  <2>9. ASSUME NEW b \in Board,
               Connects(b) \/ Disconnects(b) \/ ListAnswered(b) \/ ListFails(b)
                 \/ ListApplied(b) \/ Subscribes(b)
        PROVE  IInv'
    BY <2>9, VisitStep, DisconnectsStep, ListAnsweredStep, ListAppliedStep
  <2>10. ASSUME NEW b \in Board, NEW p \in Pane, NEW s \in Status \cup {NoPane}, Ask(b, p, s)
         PROVE  IInv'
    BY <2>10, AskStep
  <2>11. CASE ConnectFailsEarly \/ Served \/ Answered \/ Refused
    BY <2>11, ConnectFailsEarlyStep, ServedStep, AnsweredStep, RefusedStep
  <2>12. CASE UNCHANGED vars
    BY <2>12, StutterStep
  <2> QED
    BY <2>1, <2>2, <2>3, <2>4, <2>5, <2>6, <2>7, <2>8, <2>9, <2>10, <2>11, <2>12 DEF Next
<1> QED
  BY <1>1, InitHolds, PTL DEF Spec

\* Every variable keeps its type.
THEOREM TypeCorrect == Spec => []TypeOK
<1>1. IInv => TypeOK
  BY DEF IInv
<1> QED
  BY <1>1, Invariance, PTL

\* A push that is handled drops the cards of a dead pane only.
LEMMA PushDropsDead ==
  ASSUME IInv, HandlePush \/ HandleLate, NEW b \in Board, NEW p \in Live, card[b][p] # NoPane
  PROVE  card'[b][p] # NoPane
<1>1. ASSUME NEW queue \in Seq(Push), queue # <<>>, QueueIsTrue(queue), Handles(Head(queue))
      PROVE  card'[b][p] # NoPane
  <2> DEFINE e == Head(queue)
  <2>1. e = queue[1] /\ 1 \in 1 .. Len(queue) /\ e \in Push
    BY <1>1
  <2>2. e.status = NoPane => herdr[e.pane] = NoPane
    BY <1>1, <2>1 DEF QueueIsTrue
  <2>3. card' = Show(e.pane, e.status) /\ e.pane \in Pane
    BY <1>1, <2>1 DEF Handles, Push
  <2>4. p = e.pane => e.status # NoPane
    BY <2>2 DEF Live, Shown
  <2> HIDE DEF e
  <2>5. card'[b] = card[b] \/ card'[b] = [card[b] EXCEPT ![e.pane] = e.status]
    BY <2>3 DEF Show
  <2> QED
    BY <2>3, <2>4, <2>5 DEF IInv, TypeOK, Panes, Live, Shown
<1>2. pushes \in Seq(Push) /\ late \in Seq(Push) /\ QueueIsTrue(pushes) /\ QueueIsTrue(late)
  BY DEF IInv, TypeOK, PushesAreTrue
<1> QED
  BY <1>1, <1>2 DEF HandlePush, HandleLate

\* A poll drops the cards of dead panes only.
LEMMA PollDropsDead ==
  ASSUME IInv, NEW q \in Poll, PollApplied(q), NEW b \in Board, NEW p \in Live,
         card[b][p] # NoPane
  PROVE  card'[b][p] # NoPane
<1>1. /\ polls[q].stage = "answered" /\ p \in Pane /\ herdr[p] # NoPane
      /\ card' = [c \in Board |-> IF c \in Subscribed THEN Polled(q, c) ELSE card[c]]
  BY DEF PollApplied, Live, Shown
<1>2. p \notin Missing(q)
  BY <1>1 DEF Missing, IInv, PollsAreTrue
<1>3. Polled(q, b)[p] # NoPane
  BY <1>1, <1>2 DEF Polled
<1> QED
  BY <1>1, <1>3

\* The answer to a close drops the card of a dead pane.
LEMMA AnswerDropsDead ==
  ASSUME IInv, Answered, NEW b \in Board, NEW p \in Live, card[b][p] # NoPane
  PROVE  card'[b][p] # NoPane
<1>1. /\ mutation.stage = "done" /\ TypeOK
      /\ card' = IF mutation.asker = NobodyAsks THEN card
                 ELSE [card EXCEPT ![mutation.asker][mutation.pane] = mutation.status]
  BY DEF IInv, Answered
<1>2. mutation.asker \in Board \cup {NobodyAsks}
  BY <1>1, MutationType
<1>3. p = mutation.pane => mutation.status # NoPane
  BY <1>1 DEF IInv, AnswerIsTrue, Live, Shown
<1>4. card \in [Board -> Panes]
  BY <1>1 DEF TypeOK
<1> QED
  BY <1>1, <1>2, <1>3, <1>4 DEF Panes, Live, Shown

\* No board ever drops the card of a live pane: pollAgentStatus notes the
\* known panes before it asks (hosts.ts:681-685).
THEOREM LivePanesKeepTheirCards == Spec => NoLiveCardDropped
<1>1. IInv /\ [Next]_vars =>
        [\A b \in Board, p \in Live : card[b][p] # NoPane => card'[b][p] # NoPane]_vars
  <2> SUFFICES ASSUME IInv, Next, NEW b \in Board, NEW p \in Live, card[b][p] # NoPane
               PROVE  card'[b][p] # NoPane
    OBVIOUS
  <2>1. CASE HandlePush \/ HandleLate
    BY <2>1, PushDropsDead
  <2>2. ASSUME NEW q \in Poll, PollApplied(q) PROVE card'[b][p] # NoPane
    BY <2>2, PollDropsDead
  <2>3. CASE Answered
    BY <2>3, AnswerDropsDead
  <2>4. ASSUME NEW c \in Board, ListApplied(c) PROVE card'[b][p] # NoPane
    <3>1. /\ card' = card \/ card' = [card EXCEPT ![c] = Track(card[c], list[c])]
          /\ TypeOK /\ p \in Pane
      BY <2>4 DEF ListApplied, IInv, Live, Shown
    <3>2. Track(card[c], list[c])[p] # NoPane \/ card[c][p] = NoPane
      BY <3>1, TrackType DEF TypeOK
    <3> QED
      BY <3>1, <3>2 DEF TypeOK
  <2>5. CASE UNCHANGED card
    BY <2>5
  <2> QED
    BY <2>1, <2>2, <2>3, <2>4, <2>5 DEF Next, Birth, StatusChange, Death, Rename, PollStart,
       PollAnswered, PollFails, LinkLost, ConnectLists, Seeds, Acknowledged, ConnectFails,
       ConnectFailsEarly, Connects, Disconnects, ListAnswered, ListFails, Subscribes, Ask,
       Served, Refused, boardVars
<1> QED
  BY <1>1, Invariance, PTL DEF Spec, NoLiveCardDropped

-----------------------------------------------------------------------------
(* What the liveness of BoardSync rests on: each fair step brings what is  *)
(* waited for nearer, and no other step takes it further away.             *)

\* A poll that has noted a pane, and one whose answer lacks it.
Noted(q, p) == polls[q].stage = "asked" /\ p \in polls[q].known
Missed(q, p) == polls[q].stage = "answered" /\ p \in Missing(q)

\* The ghost of a pane is one step nearer to its sweep with every step of a
\* poll, and no further from it with any other.
NearerItsSweep(b, p) ==
  Haunted(b, p) /\ Ghost(b, p)' =>
    /\ Haunted(b, p)' \/ \E a \in Attempt : Seeds(a)
    /\ \A q \in Poll :
         /\ PollStart(q) => Noted(q, p)'
         /\ Noted(q, p) => IF PollAnswered(q) THEN Missed(q, p)' ELSE Noted(q, p)' \/ PollFails(q)
         /\ Missed(q, p) => ~PollApplied(q) /\ (Missed(q, p)' \/ PollFails(q))

\* As long as a dead pane's card stands on a board, only a connect's seeding
\* takes the pane out of the baseline, whatever else happens to the link; every
\* poll that starts notes it, the answer to a poll that has noted it lacks it,
\* and no such answer is applied without taking the card away
\* (pollAgentStatus, hosts.ts:653-711).
GhostsNearTheirSweep == [][\A b \in Board, p \in Pane : NearerItsSweep(b, p)]_vars

\* Every step but a seeding leaves a ghost in the baseline.
LEMMA HauntedStays ==
  ASSUME IInv, Next, NEW b \in Board, NEW p \in Pane, Haunted(b, p), Ghost(b, p)'
  PROVE  Haunted(b, p)' \/ \E a \in Attempt : Seeds(a)
<1>1. /\ visit[b] = "subscribed" /\ p \in born /\ herdr[p] = NoPane /\ tracked[p] # NoPane
      /\ ~CloseAnswerPending(p) /\ TypeOK /\ p \in placed
  BY DEF Haunted, Ghost, Live, Shown, Tracked, IInv, KnownWasBorn
<1>2. tracked \in Panes /\ herdr \in Panes /\ card \in [Board -> Panes] /\ list \in [Board -> Panes]
  BY <1>1 DEF TypeOK
<1> DEFINE Stays == tracked'[p] # NoPane /\ ~CloseAnswerPending(p)'
<1> SUFFICES ASSUME ~ \E a \in Attempt : Seeds(a) PROVE Stays
  BY DEF Haunted
<1>3. ASSUME NEW e \in Push, Handles(e), mutation' = mutation PROVE Stays
  <2>1. tracked' = [tracked EXCEPT ![e.pane] = e.status] /\ card' = Show(e.pane, e.status)
    BY <1>3 DEF Handles, Tracks
  <2>2. b \in Subscribed
    BY <1>1 DEF Subscribed
  <2>3. e.pane = p => card'[b][p] = e.status
    BY <1>2, <2>1, <2>2 DEF Show, Panes
  <2>4. card'[b][p] # NoPane
    BY DEF Ghost
  <2> QED
    BY <1>1, <1>2, <1>3, <2>1, <2>3, <2>4 DEF Panes, CloseAnswerPending
<1>4. CASE HandlePush \/ HandleLate
  <2>1. \E e \in Push : Handles(e) /\ mutation' = mutation
    <3>1. CASE HandlePush
      BY <1>1, <3>1 DEF HandlePush, TypeOK
    <3>2. CASE HandleLate
      BY <1>1, <3>2 DEF HandleLate, TypeOK
    <3> QED
      BY <1>4, <3>1, <3>2
  <2> QED
    BY <1>3, <2>1
<1>5. ASSUME NEW q \in Poll, PollApplied(q) PROVE Stays
  <2> DEFINE kept == [r \in Pane |-> IF r \in Missing(q) THEN NoPane ELSE tracked[r]]
  <2>1. /\ tracked' = Track(kept, polls[q].answer) /\ mutation' = mutation
        /\ polls[q].stage = "answered"
        /\ card' = [c \in Board |-> IF c \in Subscribed THEN Polled(q, c) ELSE card[c]]
    BY <1>5 DEF PollApplied
  <2>2. polls[q].answer \in Panes /\ kept \in Panes
    BY <1>1, <1>2, <2>1, PollType DEF Panes
  <2>3. p \notin Missing(q)
    <3>1. card'[b] = Polled(q, b)
      BY <1>1, <2>1 DEF Subscribed
    <3>2. card'[b][p] # NoPane
      BY DEF Ghost
    <3> QED
      BY <1>1, <3>1, <3>2 DEF Polled
  <2>4. kept[p] = tracked[p]
    BY <2>3
  <2> HIDE DEF kept
  <2>5. tracked'[p] # NoPane
    BY <1>1, <2>1, <2>2, <2>4, TrackType
  <2> QED
    BY <1>1, <2>1, <2>5 DEF CloseAnswerPending
<1>6. ASSUME NEW c \in Board, ListApplied(c) PROVE Stays
  <2>1. tracked' = Track(tracked, list[c]) /\ mutation' = mutation
    BY <1>6 DEF ListApplied
  <2> QED
    BY <1>1, <1>2, <2>1, TrackType DEF CloseAnswerPending
<1>7. CASE Answered
  <2>1. /\ mutation.stage = "done" /\ tracked' = [tracked EXCEPT ![mutation.pane] = mutation.status]
        /\ mutation' = Idle
    BY <1>7 DEF Answered, Tracks
  <2>2. mutation.pane = p => mutation.status # NoPane
    BY <1>1, <2>1 DEF CloseAnswerPending
  <2>3. tracked'[p] # NoPane
    BY <1>1, <1>2, <2>1, <2>2 DEF Panes
  <2> QED
    BY <2>1, <2>3 DEF CloseAnswerPending, Idle
<1>8. CASE Served
  <2>1. /\ tracked' = tracked /\ mutation' = [mutation EXCEPT !.stage = "done"]
        /\ mutation.status = NoPane => mutation.pane \in Live
        /\ mutation.stage = "queued"
    BY <1>8 DEF Served, baseVars
  <2>2. mutation'.status = mutation.status /\ mutation'.pane = mutation.pane
    BY <1>1, <2>1, MutationType DEF Mutations
  <2>3. ~CloseAnswerPending(p)'
    BY <1>1, <2>1, <2>2 DEF CloseAnswerPending, Live, Shown
  <2> QED
    BY <1>1, <2>1, <2>3
<1>9. ASSUME NEW c \in Board, Disconnects(c) PROVE Stays
  <2>1. /\ tracked' = tracked
        /\ \/ mutation' = mutation
           \/ mutation # Idle /\ mutation' = [mutation EXCEPT !.asker = NobodyAsks]
    BY <1>9 DEF Disconnects, baseVars
  <2>2. /\ mutation'.stage = mutation.stage
        /\ mutation.stage = "done" =>
             mutation'.status = mutation.status /\ mutation'.pane = mutation.pane
    BY <1>1, <2>1 DEF TypeOK, Mutations
  <2> QED
    BY <1>1, <2>1, <2>2 DEF CloseAnswerPending
<1>10. ASSUME NEW c \in Board, NEW r \in Pane, NEW s, Ask(c, r, s) PROVE Stays
  BY <1>1, <1>10 DEF Ask, CloseAnswerPending, baseVars
<1>11. CASE Refused
  BY <1>1, <1>11 DEF Refused, CloseAnswerPending, Idle, baseVars
<1>12. CASE UNCHANGED <<tracked, mutation>>
  BY <1>1, <1>12 DEF CloseAnswerPending
<1> HIDE DEF Stays
<1> QED
  BY <1>4, <1>5, <1>6, <1>7, <1>8, <1>9, <1>10, <1>11, <1>12
     DEF Next, Birth, StatusChange, Death, Rename, PollStart, PollAnswered, PollFails, LinkLost,
         ConnectLists, Acknowledged, ConnectFails, ConnectFailsEarly, Connects, ListAnswered,
         ListFails, Subscribes, baseVars

\* Only a poll's own steps change what it has noted and what it misses.
LEMMA PollsGoOn ==
  ASSUME IInv, Next, NEW q \in Poll
  PROVE  PollStart(q) \/ PollAnswered(q) \/ PollFails(q) \/ PollApplied(q) \/ polls'[q] = polls[q]
<1>1. ASSUME NEW r \in Poll, r # q, PollStart(r) \/ PollAnswered(r) \/ PollFails(r) \/ PollApplied(r)
      PROVE  polls'[q] = polls[q]
  <2>1. polls \in [Poll -> PollStates]
    BY DEF IInv, TypeOK, PollStates
  <2>2. \E x : polls' = [polls EXCEPT ![r] = x]
    BY <1>1 DEF PollStart, PollAnswered, PollFails, PollApplied
  <2> QED
    BY <1>1, <2>1, <2>2
<1>2. \/ \E r \in Poll : PollStart(r) \/ PollAnswered(r) \/ PollFails(r) \/ PollApplied(r)
      \/ polls' = polls
  BY DEF Next, Birth, StatusChange, Death, Rename, HandlePush, HandleLate, LinkLost, ConnectLists,
         Seeds, Acknowledged, ConnectFails, ConnectFailsEarly, Connects, Disconnects, ListAnswered,
         ListFails, ListApplied, Subscribes, Ask, Served, Answered, Refused
<1> QED
  BY <1>1, <1>2

\* The steps of one poll, for a ghost the bridge tracks.
LEMMA PollNearsTheSweep ==
  ASSUME IInv, Next, NEW b \in Board, NEW p \in Pane, Haunted(b, p), Ghost(b, p)', NEW q \in Poll
  PROVE  /\ PollStart(q) => Noted(q, p)'
         /\ Noted(q, p) => IF PollAnswered(q) THEN Missed(q, p)' ELSE Noted(q, p)' \/ PollFails(q)
         /\ Missed(q, p) => ~PollApplied(q) /\ (Missed(q, p)' \/ PollFails(q))
<1>1. /\ visit[b] = "subscribed" /\ herdr[p] = NoPane /\ tracked[p] # NoPane /\ p \in placed
      /\ card'[b][p] # NoPane /\ p \in Pane
      /\ polls \in [Poll -> PollStates]
  BY DEF Haunted, Ghost, Live, Shown, Tracked, IInv, KnownWasBorn, TypeOK, PollStates
<1>2. CASE PollStart(q)
  <2>1. polls[q] = Idle /\ polls'[q] = [stage |-> "asked", known |-> Tracked]
    BY <1>1, <1>2 DEF PollStart, FreePoll
  <2>2. p \in Tracked
    BY <1>1 DEF Tracked, Shown
  <2> QED
    BY <2>1, <2>2 DEF Noted, Missed, Idle
<1>3. CASE PollAnswered(q)
  <2>1. /\ polls[q].stage = "asked"
        /\ polls'[q] = [stage |-> "answered", missing |-> polls[q].known \ Live, answer |-> herdr]
    BY <1>1, <1>3 DEF PollAnswered
  <2>2. Noted(q, p) => Missed(q, p)'
    BY <1>1, <2>1 DEF Noted, Missed, Missing, Live, Shown
  <2>3. ~Missed(q, p) /\ ~PollStart(q)
    BY <2>1 DEF Missed, PollStart, FreePoll, Idle
  <2> QED
    BY <1>3, <2>2, <2>3
<1>4. CASE PollFails(q)
  <2>1. polls[q] # Idle /\ polls'[q] = Idle
    BY <1>1, <1>4 DEF PollFails
  <2>2. ~PollStart(q) /\ ~PollAnswered(q)
    <3>1. PollStart(q) => polls[q] = Idle
      BY DEF PollStart, FreePoll
    <3>2. PollAnswered(q) => polls'[q].stage = "answered"
      BY <1>1 DEF PollAnswered
    <3>3. Idle.stage = "idle"
      BY DEF Idle
    <3> QED
      BY <2>1, <3>1, <3>2, <3>3
  <2>3. Missed(q, p) => ~PollApplied(q)
    <3>1. ASSUME PollApplied(q), p \in Missing(q) PROVE FALSE
      <4>1. card'[b] = Polled(q, b)
        BY <1>1, <3>1 DEF PollApplied, Subscribed
      <4> QED
        BY <1>1, <3>1, <4>1 DEF Polled
    <3> QED
      BY <3>1 DEF Missed
  <2> QED
    BY <1>4, <2>2, <2>3
<1>5. CASE PollApplied(q)
  <2>1. polls[q].stage = "answered" /\ card'[b] = Polled(q, b)
    BY <1>1, <1>5 DEF PollApplied, Subscribed
  <2>2. ~Missed(q, p)
    BY <1>1, <2>1 DEF Polled, Missed
  <2>3. ~PollStart(q) /\ ~Noted(q, p)
    BY <2>1 DEF PollStart, FreePoll, Idle, Noted
  <2> QED
    BY <2>2, <2>3
<1>6. CASE polls'[q] = polls[q] /\ ~PollStart(q) /\ ~PollAnswered(q) /\ ~PollApplied(q)
  BY <1>6 DEF Noted, Missed, Missing
<1> QED
  BY <1>2, <1>3, <1>4, <1>5, <1>6, PollsGoOn

\* A board's ghost is swept by the next poll that runs from start to end, whether
\* the link is up or not, unless a connect seeds the baseline in between: what
\* is left of GhostsAreSwept is that a poll comes through, which fairness says.
THEOREM PollsSweepGhosts == Spec => GhostsNearTheirSweep
<1> DEFINE Near == \A b \in Board, p \in Pane : NearerItsSweep(b, p)
<1>1. IInv /\ [Next]_vars => [Near]_vars
  <2> SUFFICES ASSUME IInv, Next, NEW b \in Board, NEW p \in Pane, Haunted(b, p), Ghost(b, p)'
               PROVE  /\ Haunted(b, p)' \/ \E a \in Attempt : Seeds(a)
                      /\ \A q \in Poll :
                           /\ PollStart(q) => Noted(q, p)'
                           /\ Noted(q, p) => IF PollAnswered(q) THEN Missed(q, p)'
                                             ELSE Noted(q, p)' \/ PollFails(q)
                           /\ Missed(q, p) => ~PollApplied(q) /\ (Missed(q, p)' \/ PollFails(q))
    BY DEF NearerItsSweep
  <2>1. Haunted(b, p)' \/ \E a \in Attempt : Seeds(a)
    BY HauntedStays
  <2> QED
    BY <2>1, PollNearsTheSweep
<1> HIDE DEF Near
<1> QED
  BY <1>1, Invariance, PTL DEF Spec, GhostsNearTheirSweep, Near

\* The i-th push on its way to the bridge, on the subscription in use or on one
\* that was ended, says that p is there.
AnnouncedBy(queue, p, i) == i \in 1 .. Len(queue) /\ Announces(queue[i], p)

\* The first push on its way is handled and p gets its card everywhere, or the
\* announcement moves one forward.
MovesUp(queue, later, p, i) ==
  IF i = 1 THEN \A b \in Subscribed : card'[b][p] # NoPane ELSE AnnouncedBy(later, p, i - 1)

\* The announcement i of p on the subscription in use is nearer its boards.
NearerItsBoards(p, i) ==
  AnnouncedBy(pushes, p, i) =>
    \/ HandlePush /\ MovesUp(pushes, pushes', p, i)
    \/ ~HandlePush /\ AnnouncedBy(pushes', p, i)
    \/ (\E a \in Attempt : Acknowledged(a)) /\ AnnouncedBy(late', p, Len(late) + i)
    \/ feed' = "none"

\* And so is one on a subscription that was ended.
LateNearerItsBoards(p, i) ==
  AnnouncedBy(late, p, i) =>
    \/ HandleLate /\ MovesUp(late, late', p, i)
    \/ ~HandleLate /\ AnnouncedBy(late', p, i)
    \/ feed' = "none"

\* What is pushed is neither lost nor overtaken on its subscription: each push
\* that is handled moves the announcement of a pane one forward, the one in
\* front puts the pane's card on every board subscribed by then
\* (handlePushedEvent, hosts.ts:788-799), and a new subscription only moves
\* what was on the old one behind what is late already.
AnnouncementsNearTheirBoards ==
  [][\A p \in Pane : /\ \A i \in 1 .. Len(pushes) : NearerItsBoards(p, i)
                     /\ \A i \in 1 .. Len(late) : LateNearerItsBoards(p, i)]_vars

\* A handled push that is in front puts the card on the boards.
LEMMA FrontPushShows ==
  ASSUME IInv, NEW queue \in Seq(Push), queue # <<>>, Handles(Head(queue)),
         NEW p \in Pane, NEW i \in 1 .. Len(queue), AnnouncedBy(queue, p, i)
  PROVE  MovesUp(queue, Tail(queue), p, i)
<1> DEFINE e == Head(queue)
<1>1. e = queue[1] /\ e \in Push /\ card' = Show(e.pane, e.status)
  BY DEF Handles
<1>2. CASE i = 1
  <2>1. e.pane = p /\ e.status # NoPane
    BY <1>1, <1>2 DEF AnnouncedBy, Announces
  <2> HIDE DEF e
  <2>2. ASSUME NEW b \in Subscribed PROVE card'[b][p] # NoPane
    <3>1. card[b] \in Panes /\ card'[b] = [card[b] EXCEPT ![p] = e.status]
      BY <1>1, <2>1 DEF Show, Subscribed, IInv, TypeOK
    <3> QED
      BY <2>1, <3>1 DEF Panes
  <2> QED
    BY <1>2, <2>2 DEF MovesUp
<1>3. CASE i # 1
  <2>1. i - 1 \in 1 .. Len(Tail(queue)) /\ Tail(queue)[i - 1] = queue[i]
    BY <1>3
  <2> QED
    BY <1>3, <2>1 DEF MovesUp, AnnouncedBy
<1> QED
  BY <1>2, <1>3

\* What the other steps do to the two queues.
LEMMA QueuesKeep ==
  ASSUME Next, ~HandlePush, ~HandleLate, feed' # "none"
  PROVE  \/ late' = late /\ (pushes' = pushes \/ \E e : pushes' = Append(pushes, e))
         \/ (\E a \in Attempt : Acknowledged(a)) /\ late' = late \o pushes
<1>1. ASSUME NEW a \in Attempt, Acknowledged(a)
      PROVE  (late' = late /\ pushes' = pushes) \/ late' = late \o pushes
  BY <1>1 DEF Acknowledged, queueVars
<1>2. \A n \in 1 .. 2 : ~LinkLost(n)
  BY DEF LinkLost
<1>3. CASE Served
  BY <1>3 DEF Served, Pushes
<1>4. ASSUME NEW p \in Pane, \/ \E s \in Status : Birth(p, s) \/ StatusChange(p, s)
                             \/ \E told \in BOOLEAN : Death(p, told)
                             \/ Rename(p)
      PROVE  late' = late /\ (pushes' = pushes \/ \E e : pushes' = Append(pushes, e))
  BY <1>4 DEF Birth, StatusChange, Death, Rename, Pushes, queueVars
<1>5. ASSUME UNCHANGED queueVars PROVE late' = late /\ pushes' = pushes
  BY <1>5 DEF queueVars
<1> QED
  BY <1>1, <1>2, <1>3, <1>4, <1>5 DEF Next, PollStart, PollAnswered, PollFails, PollApplied, ConnectLists,
     Seeds, ConnectFails, ConnectFailsEarly, Connects, Disconnects, ListAnswered, ListFails,
     ListApplied, Subscribes, Ask, Answered, Refused

\* A pane that is announced gets its card when the pushes before it have been
\* handled: what is left of NewPanesAppear is that they are, which fairness says.
THEOREM AnnouncementsArrive == Spec => AnnouncementsNearTheirBoards
<1> DEFINE Near == \A p \in Pane : /\ \A i \in 1 .. Len(pushes) : NearerItsBoards(p, i)
                                   /\ \A i \in 1 .. Len(late) : LateNearerItsBoards(p, i)
<1>1. IInv /\ [Next]_vars => [Near]_vars
  <2> SUFFICES ASSUME IInv, Next, NEW p \in Pane
               PROVE  /\ \A i \in 1 .. Len(pushes) : NearerItsBoards(p, i)
                      /\ \A i \in 1 .. Len(late) : LateNearerItsBoards(p, i)
    OBVIOUS
  <2>1. pushes \in Seq(Push) /\ late \in Seq(Push)
    BY DEF IInv, TypeOK
  <2>2. ASSUME NEW i \in 1 .. Len(pushes), AnnouncedBy(pushes, p, i), feed' # "none"
        PROVE  \/ HandlePush /\ MovesUp(pushes, pushes', p, i)
               \/ ~HandlePush /\ AnnouncedBy(pushes', p, i)
               \/ (\E a \in Attempt : Acknowledged(a)) /\ AnnouncedBy(late', p, Len(late) + i)
    <3>1. CASE HandlePush
      <4>1. pushes # <<>> /\ Handles(Head(pushes)) /\ pushes' = Tail(pushes)
        BY <3>1 DEF HandlePush
      <4> QED
        BY <2>1, <2>2, <3>1, <4>1, FrontPushShows
    <3>2. CASE pushes' = pushes /\ ~HandlePush
      BY <2>2, <3>2 DEF AnnouncedBy
    <3>3. ASSUME NEW e, pushes' = Append(pushes, e), ~HandlePush PROVE AnnouncedBy(pushes', p, i)
      <4>1. i \in 1 .. Len(pushes') /\ pushes'[i] = pushes[i]
        BY <2>1, <3>3
      <4> QED
        BY <2>2, <4>1 DEF AnnouncedBy
    <3>4. CASE (\E a \in Attempt : Acknowledged(a)) /\ late' = late \o pushes
      <4>1. Len(late) + i \in 1 .. Len(late') /\ late'[Len(late) + i] = pushes[i]
        BY <2>1, <3>4
      <4> QED
        BY <2>2, <3>4, <4>1 DEF AnnouncedBy, Announces
    <3>5. HandleLate => pushes' = pushes
      BY DEF HandleLate
    <3> QED
      BY <2>2, <3>1, <3>2, <3>3, <3>4, <3>5, QueuesKeep
  <2>3. ASSUME NEW i \in 1 .. Len(late), AnnouncedBy(late, p, i), feed' # "none"
        PROVE  \/ HandleLate /\ MovesUp(late, late', p, i)
               \/ ~HandleLate /\ AnnouncedBy(late', p, i)
    <3>1. CASE HandleLate
      <4>1. late # <<>> /\ Handles(Head(late)) /\ late' = Tail(late)
        BY <3>1 DEF HandleLate
      <4> QED
        BY <2>1, <2>3, <3>1, <4>1, FrontPushShows
    <3>2. CASE late' = late /\ ~HandleLate
      BY <2>3, <3>2 DEF AnnouncedBy
    <3>3. CASE late' = late \o pushes
      <4>1. i \in 1 .. Len(late') /\ late'[i] = late[i]
        BY <2>1, <3>3
      <4> QED
        BY <2>3, <3>1, <4>1 DEF AnnouncedBy
    <3>4. HandlePush => late' = late
      BY DEF HandlePush
    <3> QED
      BY <2>3, <3>1, <3>2, <3>3, <3>4, QueuesKeep
  <2> QED
    BY <2>2, <2>3 DEF NearerItsBoards, LateNearerItsBoards
<1> HIDE DEF Near
<1> QED
  BY <1>1, Invariance, PTL DEF Spec, AnnouncementsNearTheirBoards, Near
=============================================================================
