------------------------- MODULE OutputPollerProofs -------------------------
(***************************************************************************)
(* Theorems about OutputPoller, for every set of connections and keys,     *)
(* every number of subscriptions, loops and versions, every assignment of  *)
(* texts and revisions to versions and every behaviour of `lineDelta`.     *)
(***************************************************************************)
EXTENDS OutputPoller, TLAPS

-----------------------------------------------------------------------------
(* The inductive invariant.                                                *)

\* A live loop is the one created last under its key, and a loop that has
\* subscribers is live: what a stopped loop's late poll emits reaches nobody.
LoopsKeyed ==
  /\ \A k \in Key : entries[k] # NoLoop => loopKey[entries[k]] = k /\ entries[k] < nextLoop
  /\ \A l \in Loop : subscribers[l] # {} => loopKey[l] \in Key /\ entries[loopKey[l]] = l

\* The poller's two maps agree, loops are watched, closed connections own
\* nothing.
MapsAgree ==
  /\ \A k \in Key : SubscribersOf(k) = {s \in Sub : bySubscription[s] = k}
  /\ \A k \in Key : entries[k] # NoLoop => SubscribersOf(k) # {}
  /\ \A s \in Sub : bySubscription[s] # NoKey => conn[s] \in Conn /\ socket[conn[s]] # "closed"

\* Ids not handed out yet are unused.
FreshIds ==
  /\ \A s \in Sub : s >= nextSub => bySubscription[s] = NoKey /\ ~primed[s] /\ held[s] = Nothing
  /\ \A l \in Loop : l >= nextLoop =>
       reading[l] = Idle /\ lastContent[l] = Nothing /\ subscribers[l] = {} /\ loopKey[l] = NoKey

\* A loop's last snapshot is no newer than the one its read in flight
\* returns, which is no newer than the pane.
ReadInOrder(l) ==
  /\ reading[l] # Idle \/ lastContent[l] # Nothing => loopKey[l] \in Key
  /\ reading[l] \in Version => lastContent[l] <= reading[l] /\ reading[l] <= pane[loopKey[l]]
  /\ lastContent[l] # Nothing => lastContent[l] <= pane[loopKey[l]]

ReadsInOrder == \A l \in Loop : ReadInOrder(l)

\* What a primed subscriber has painted, as an inductive fact about loops.
PrimedInSync ==
  \A l \in Loop : \A s \in subscribers[l] :
    primed[s] => /\ lastContent[l] # Nothing
                 /\ socket[conn[s]] = "open" => held[s] = lastContent[l]

IInv ==
  TypeOK /\ LoopsKeyed /\ MapsAgree /\ FreshIds /\ ReadsInOrder /\ PrimedInSync /\ NoGarbledScreen

-----------------------------------------------------------------------------
\* The sentinels lie outside the sets they extend.
LEMMA Constants ==
  /\ NoKey \notin Key /\ NoConn \notin Conn /\ NoLoop \notin Loop
  /\ Idle \notin Version /\ Asked \notin Version /\ Idle # Asked
  /\ Nothing \notin Version /\ Garbled \notin Version /\ Garbled # Nothing
  /\ Version \subseteq Nat /\ Loop \subseteq Nat /\ Sub \subseteq Nat /\ 0 \in Version
<1>1. NoKey \notin Key /\ NoConn \notin Conn
  BY PollerAssumption DEF NoKey, NoConn
<1>2. NoLoop \notin Loop /\ Loop \subseteq Nat /\ Sub \subseteq Nat
  BY PollerAssumption DEF NoLoop, Loop, Sub
<1>3. Version \subseteq Nat /\ 0 \in Version
  BY PollerAssumption DEF Version
<1>4. /\ Idle \notin Version /\ Asked \notin Version /\ Idle # Asked
      /\ Nothing \notin Version /\ Garbled \notin Version /\ Garbled # Nothing
  BY <1>3 DEF Nothing, Garbled, Idle, Asked
<1> QED
  BY <1>1, <1>2, <1>3, <1>4

\* What TypeOK says of one loop, with the sentinels as the integers they are.
LEMMA LoopTypes ==
  ASSUME TypeOK, NEW l \in Loop
  PROVE  /\ lastContent[l] \in Int /\ reading[l] \in Int
         /\ lastContent[l] \in Version \cup {Nothing}
         /\ \A v \in Version : lastContent[l] = Nothing => lastContent[l] <= v
         /\ loopKey[l] \in Key => pane[loopKey[l]] \in Version /\ pane[loopKey[l]] \in Nat
<1>1. lastContent[l] \in Version \cup {Nothing} /\ reading[l] \in Version \cup {Idle, Asked}
  BY DEF TypeOK
<1>2. loopKey[l] \in Key => pane[loopKey[l]] \in Version
  BY DEF TypeOK
<1>3. lastContent[l] \in Int /\ reading[l] \in Int
  BY <1>1, PollerAssumption DEF Nothing, Idle, Asked, Version
<1>4. \A v \in Version : Nothing <= v
  BY PollerAssumption DEF Nothing, Version
<1> QED
  BY <1>1, <1>2, <1>3, <1>4, Constants

\* A subscriber belongs to one loop, the live one of the key it is indexed at.
LEMMA SubscriberOfOneLoop ==
  ASSUME IInv, NEW l \in Loop, NEW s \in subscribers[l]
  PROVE  /\ s \in Sub /\ loopKey[l] \in Key /\ bySubscription[s] = loopKey[l]
         /\ bySubscription[s] # NoKey /\ entries[bySubscription[s]] = l
<1>1. s \in Sub
  BY DEF IInv, TypeOK
<1>2. loopKey[l] \in Key /\ entries[loopKey[l]] = l
  BY DEF IInv, LoopsKeyed
<1>3. bySubscription[s] = loopKey[l]
  BY <1>1, <1>2, Constants DEF IInv, MapsAgree, SubscribersOf
<1> QED
  BY <1>1, <1>2, <1>3, Constants

(* One lemma per action: it preserves the invariant.                       *)

LEMMA InitEstablishesIInv == Init => IInv
  <1> SUFFICES ASSUME Init PROVE IInv
    OBVIOUS
  <1> USE DEF Init
  <1>1. TypeOK
    BY Constants, PollerAssumption DEF TypeOK
  <1>2. LoopsKeyed /\ MapsAgree
    BY Constants DEF LoopsKeyed, MapsAgree, SubscribersOf
  <1>3. FreshIds
    BY DEF FreshIds
  <1>4. ReadsInOrder
    BY Constants DEF ReadsInOrder, ReadInOrder
  <1>5. PrimedInSync /\ NoGarbledScreen
    BY Constants DEF PrimedInSync, NoGarbledScreen
  <1> QED
    BY <1>1, <1>2, <1>3, <1>4, <1>5 DEF IInv

LEMMA ClosingPreserves ==
  ASSUME NEW c \in Conn, IInv, SocketClosing(c)
  PROVE  IInv'
  <1> USE DEF IInv, SocketClosing, entryVars, subVars
  <1>1. TypeOK'
    BY Constants DEF TypeOK
  <1>2. LoopsKeyed'
    BY DEF LoopsKeyed
  <1>3. MapsAgree'
    BY DEF MapsAgree, SubscribersOf, TypeOK
  <1>4. FreshIds'
    BY DEF FreshIds
  <1>5. ReadsInOrder'
    BY DEF ReadsInOrder, ReadInOrder
  <1>6. PrimedInSync'
    BY DEF PrimedInSync, TypeOK
  <1>7. NoGarbledScreen'
    BY DEF NoGarbledScreen
  <1> QED
    BY <1>1, <1>2, <1>3, <1>4, <1>5, <1>6, <1>7 DEF IInv

LEMMA PollStartPreserves ==
  ASSUME NEW k \in Key, IInv, PollStart(k)
  PROVE  IInv'
  <1> USE DEF IInv, PollStart, entryVars, subVars
  <1>1. TypeOK'
    BY Constants DEF TypeOK
  <1>2. LoopsKeyed'
    BY DEF LoopsKeyed
  <1>3. MapsAgree'
    BY DEF MapsAgree, SubscribersOf
  <1>4. FreshIds'
    BY Constants DEF FreshIds, LoopsKeyed, TypeOK
  <1>5. ReadsInOrder'
    BY Constants DEF ReadsInOrder, ReadInOrder, LoopsKeyed, TypeOK
  <1>6. PrimedInSync'
    BY DEF PrimedInSync
  <1>7. NoGarbledScreen'
    BY DEF NoGarbledScreen
  <1> QED
    BY <1>1, <1>2, <1>3, <1>4, <1>5, <1>6, <1>7 DEF IInv

LEMMA HerdrReadsPreserves ==
  ASSUME NEW l \in Loop, IInv, HerdrReads(l)
  PROVE  IInv'
  <1> USE DEF IInv, HerdrReads, entryVars, subVars
  <1>1. TypeOK'
    <2>1. pane[loopKey[l]] \in Version
      BY LoopTypes, Constants DEF ReadsInOrder, ReadInOrder
    <2> QED
      BY <2>1 DEF TypeOK
  <1>2. LoopsKeyed'
    BY DEF LoopsKeyed
  <1>3. MapsAgree'
    BY DEF MapsAgree, SubscribersOf
  <1>4. FreshIds'
    BY Constants DEF FreshIds, TypeOK, ReadsInOrder, ReadInOrder
  <1>5. ReadsInOrder'
    <2> SUFFICES ASSUME NEW m \in Loop PROVE ReadInOrder(m)'
      BY DEF ReadsInOrder
    <2>1. CASE m = l
      <3>1. loopKey[l] \in Key
        BY Constants DEF ReadsInOrder, ReadInOrder
      <3>2. pane[loopKey[l]] \in Version /\ pane[loopKey[l]] \in Nat /\ lastContent[l] <= pane[loopKey[l]]
        BY <3>1, LoopTypes DEF ReadsInOrder, ReadInOrder
      <3>3. reading'[l] = pane[loopKey[l]]
        BY DEF TypeOK
      <3> QED
        BY <2>1, <3>1, <3>2, <3>3 DEF ReadInOrder, ReadsInOrder
    <2>2. CASE m # l
      BY <2>2 DEF ReadsInOrder, ReadInOrder, TypeOK
    <2> QED
      BY <2>1, <2>2
  <1>6. PrimedInSync'
    BY DEF PrimedInSync
  <1>7. NoGarbledScreen'
    BY DEF NoGarbledScreen
  <1> QED
    BY <1>1, <1>2, <1>3, <1>4, <1>5, <1>6, <1>7 DEF IInv

LEMMA PollUnchangedPreserves ==
  ASSUME NEW l \in Loop, IInv, PollUnchanged(l)
  PROVE  IInv'
  <1> USE DEF IInv, PollUnchanged, entryVars, subVars
  <1>1. TypeOK'
    BY Constants DEF TypeOK
  <1>2. LoopsKeyed'
    BY DEF LoopsKeyed
  <1>3. MapsAgree'
    BY DEF MapsAgree, SubscribersOf
  <1>4. FreshIds'
    BY Constants DEF FreshIds, TypeOK
  <1>5. ReadsInOrder'
    BY Constants DEF ReadsInOrder, ReadInOrder, TypeOK
  <1>6. PrimedInSync'
    BY DEF PrimedInSync
  <1>7. NoGarbledScreen'
    BY DEF NoGarbledScreen
  <1> QED
    BY <1>1, <1>2, <1>3, <1>4, <1>5, <1>6, <1>7 DEF IInv

LEMMA PollFailsPreserves ==
  ASSUME NEW l \in Loop, IInv, PollFails(l)
  PROVE  IInv'
  <1> USE DEF IInv, PollFails, entryVars, subVars
  <1>1. TypeOK'
    BY Constants DEF TypeOK
  <1>2. LoopsKeyed'
    BY DEF LoopsKeyed
  <1>3. MapsAgree'
    BY DEF MapsAgree, SubscribersOf
  <1>4. FreshIds'
    BY Constants DEF FreshIds, TypeOK
  <1>5. ReadsInOrder'
    BY Constants DEF ReadsInOrder, ReadInOrder, TypeOK
  <1>6. PrimedInSync'
    BY DEF PrimedInSync
  <1>7. NoGarbledScreen'
    BY DEF NoGarbledScreen
  <1> QED
    BY <1>1, <1>2, <1>3, <1>4, <1>5, <1>6, <1>7 DEF IInv

LEMMA PaneWritesPreserves ==
  ASSUME NEW k \in Key, IInv, PaneWrites(k)
  PROVE  IInv'
  <1> USE DEF IInv, PaneWrites, entryVars, subVars
  <1>1. TypeOK'
    BY PollerAssumption DEF TypeOK, Version
  <1>2. LoopsKeyed'
    BY DEF LoopsKeyed
  <1>3. MapsAgree'
    BY DEF MapsAgree, SubscribersOf
  <1>4. FreshIds'
    BY DEF FreshIds
  <1>5. ReadsInOrder'
    <2> SUFFICES ASSUME NEW l \in Loop PROVE ReadInOrder(l)'
      BY DEF ReadsInOrder
    <2>1. CASE loopKey[l] = k
      <3>1. pane[k] \in Nat /\ pane'[k] = pane[k] + 1
        BY Constants DEF TypeOK
      <3>2. lastContent[l] \in Int /\ reading[l] \in Int
        BY LoopTypes
      <3>3. reading[l] \in Version => reading[l] <= pane'[k]
        BY <2>1, <3>1, <3>2 DEF ReadsInOrder, ReadInOrder
      <3>4. lastContent[l] # Nothing => lastContent[l] <= pane'[k]
        BY <2>1, <3>1, <3>2 DEF ReadsInOrder, ReadInOrder
      <3> QED
        BY <2>1, <3>3, <3>4 DEF ReadsInOrder, ReadInOrder
    <2>2. CASE loopKey[l] # k
      BY <2>2, Constants DEF ReadsInOrder, ReadInOrder, TypeOK
    <2> QED
      BY <2>1, <2>2
  <1>6. PrimedInSync'
    BY DEF PrimedInSync
  <1>7. NoGarbledScreen'
    BY DEF NoGarbledScreen
  <1> QED
    BY <1>1, <1>2, <1>3, <1>4, <1>5, <1>6, <1>7 DEF IInv

LEMMA UnsubscribePreserves ==
  ASSUME NEW s \in Sub, IInv, Unsubscribe(s)
  PROVE  IInv'
  <1> USE DEF IInv, Unsubscribe, Remove, StopEmpty
  <1>1. TypeOK'
    BY Constants DEF TypeOK
  <1>2. LoopsKeyed'
    BY Constants DEF LoopsKeyed, MapsAgree, SubscribersOf, TypeOK
  <1>3. MapsAgree'
    BY Constants DEF MapsAgree, SubscribersOf, TypeOK, LoopsKeyed
  <1>4. FreshIds'
    BY DEF FreshIds
  <1>5. ReadsInOrder'
    BY DEF ReadsInOrder, ReadInOrder
  <1>6. PrimedInSync'
    BY DEF PrimedInSync
  <1>7. NoGarbledScreen'
    BY DEF NoGarbledScreen
  <1> QED
    BY <1>1, <1>2, <1>3, <1>4, <1>5, <1>6, <1>7 DEF IInv

LEMMA ClosedPreserves ==
  ASSUME NEW c \in Conn, IInv, SocketClosed(c)
  PROVE  IInv'
  <1> USE DEF IInv, SocketClosed, Remove, StopEmpty
  <1>1. TypeOK'
    BY Constants DEF TypeOK
  <1>2. LoopsKeyed'
    BY Constants DEF LoopsKeyed, MapsAgree, SubscribersOf, TypeOK
  <1>3. MapsAgree'
    BY Constants DEF MapsAgree, SubscribersOf, TypeOK, LoopsKeyed
  <1>4. FreshIds'
    BY DEF FreshIds
  <1>5. ReadsInOrder'
    BY DEF ReadsInOrder, ReadInOrder
  <1>6. PrimedInSync'
    BY DEF PrimedInSync, TypeOK
  <1>7. NoGarbledScreen'
    BY DEF NoGarbledScreen
  <1> QED
    BY <1>1, <1>2, <1>3, <1>4, <1>5, <1>6, <1>7 DEF IInv

LEMMA SubscribePreserves ==
  ASSUME NEW c \in Conn, NEW k \in Key, NEW d \in BOOLEAN, NEW r \in 0 .. pane[k],
         IInv, Subscribe(c, k, d, r)
  PROVE  IInv'
  <1> USE DEF IInv, Subscribe, PrimedAtJoin
  <1>a. nextSub \in Sub /\ nextSub + 1 \in 1 .. MaxSubs + 1 /\ \A s \in Sub : s >= nextSub + 1 => s >= nextSub /\ s # nextSub
    BY PollerAssumption DEF TypeOK, Sub
  <1>b. /\ entries'[k] \in Loop /\ nextLoop' \in 1 .. MaxLoops + 1
        /\ \/ entries[k] # NoLoop /\ UNCHANGED <<entries, loopKey, nextLoop>>
           \/ /\ entries[k] = NoLoop /\ nextLoop \in Loop /\ nextLoop' = nextLoop + 1
              /\ entries' = [entries EXCEPT ![k] = nextLoop]
              /\ loopKey' = [loopKey EXCEPT ![nextLoop] = k]
              /\ \A l \in Loop : l >= nextLoop + 1 => l >= nextLoop /\ l # nextLoop
              /\ \A l \in Loop : l < nextLoop => l < nextLoop + 1
    BY PollerAssumption DEF TypeOK, Loop
  <1>c. r \in Version
    BY PollerAssumption DEF TypeOK, Version
  <1>1. TypeOK'
    BY <1>a, <1>b, <1>c DEF TypeOK
  <1>2. LoopsKeyed'
    <2>1. CASE entries[k] # NoLoop
      <3>1. UNCHANGED <<entries, loopKey, nextLoop>>
        BY <2>1, <1>b
      <3>2. subscribers' = [subscribers EXCEPT ![entries[k]] = @ \cup {nextSub}]
        BY <3>1
      <3> QED
        BY <2>1, <3>1, <3>2 DEF LoopsKeyed, TypeOK
    <2>2. CASE entries[k] = NoLoop
      <3>1. /\ nextLoop \in Loop /\ nextLoop' = nextLoop + 1
            /\ entries' = [entries EXCEPT ![k] = nextLoop]
            /\ loopKey' = [loopKey EXCEPT ![nextLoop] = k]
            /\ subscribers' = [subscribers EXCEPT ![nextLoop] = @ \cup {nextSub}]
            /\ loopKey[nextLoop] = NoKey /\ subscribers[nextLoop] = {}
            /\ nextLoop < nextLoop + 1
        BY <2>2, <1>b, Constants DEF FreshIds, TypeOK
      <3>2. \A m \in Loop : m < nextLoop => m < nextLoop + 1 /\ m # nextLoop
        BY <3>1, Constants
      <3>3. \A q \in Key : q # k /\ entries[q] # NoLoop => entries[q] \in Loop /\ entries[q] # nextLoop
        BY <3>1, Constants DEF LoopsKeyed, TypeOK
      <3>4. ASSUME NEW q \in Key, entries'[q] # NoLoop
            PROVE  loopKey'[entries'[q]] = q /\ entries'[q] < nextLoop'
        <4>1. CASE q = k
          BY <4>1, <3>1 DEF TypeOK
        <4>2. CASE q # k
          <5>1. entries'[q] = entries[q] /\ entries[q] \in Loop /\ entries[q] # nextLoop
            BY <4>2, <3>1, <3>3, <3>4 DEF TypeOK
          <5>2. loopKey[entries[q]] = q /\ entries[q] < nextLoop
            BY <5>1, <3>4 DEF LoopsKeyed
          <5> QED
            BY <5>1, <5>2, <3>1, <3>2 DEF TypeOK
        <4> QED
          BY <4>1, <4>2
      <3>5. ASSUME NEW m \in Loop, subscribers'[m] # {}
            PROVE  loopKey'[m] \in Key /\ entries'[loopKey'[m]] = m
        <4>1. CASE m = nextLoop
          BY <4>1, <3>1 DEF TypeOK
        <4>2. CASE m # nextLoop
          <5>1. loopKey[m] \in Key /\ entries[loopKey[m]] = m /\ loopKey'[m] = loopKey[m]
            BY <4>2, <3>1, <3>5 DEF LoopsKeyed, TypeOK
          <5>2. loopKey[m] # k
            BY <5>1, <2>2, Constants
          <5> QED
            BY <5>1, <5>2, <3>1 DEF TypeOK
        <4> QED
          BY <4>1, <4>2
      <3> QED
        BY <3>4, <3>5 DEF LoopsKeyed
    <2> QED
      BY <2>1, <2>2
  <1>3. MapsAgree'
    <2>1. bySubscription[nextSub] = NoKey /\ bySubscription' = [bySubscription EXCEPT ![nextSub] = k]
      BY <1>a DEF FreshIds, TypeOK
    <2>2. ASSUME NEW q \in Key
          PROVE  SubscribersOf(q)' = {s \in Sub : bySubscription'[s] = q} /\ (entries'[q] # NoLoop => SubscribersOf(q)' # {})
      <3>1. CASE q = k
        <4>1. SubscribersOf(k)' = SubscribersOf(k) \cup {nextSub}
          BY <1>b, Constants DEF SubscribersOf, FreshIds, TypeOK
        <4>2. SubscribersOf(k) = {s \in Sub : bySubscription[s] = k}
          BY DEF MapsAgree
        <4> QED
          BY <3>1, <4>1, <4>2, <2>1, <1>a DEF TypeOK
      <3>2. CASE q # k
        <4>1. entries'[q] = entries[q]
          BY <3>2, <1>b DEF TypeOK
        <4>2. entries[q] # NoLoop => entries[q] # entries'[k]
          BY <3>2, <1>b, Constants DEF LoopsKeyed, TypeOK
        <4>3. SubscribersOf(q)' = SubscribersOf(q)
          BY <4>1, <4>2, <1>b DEF SubscribersOf, TypeOK
        <4> QED
          BY <3>2, <4>1, <4>3, <2>1, <1>a, Constants DEF MapsAgree, TypeOK
      <3> QED
        BY <3>1, <3>2
    <2>3. \A s \in Sub : bySubscription'[s] # NoKey => conn'[s] \in Conn /\ socket'[conn'[s]] # "closed"
      BY <2>1, <1>a DEF MapsAgree, TypeOK
    <2> QED
      BY <2>2, <2>3 DEF MapsAgree
  <1>4. FreshIds'
    BY <1>a, <1>b, <1>c, Constants DEF FreshIds, TypeOK, LoopsKeyed
  <1>5. ReadsInOrder'
    BY <1>a, <1>b, Constants DEF ReadsInOrder, ReadInOrder, FreshIds, TypeOK
  <1>6. PrimedInSync'
    BY <1>a, <1>b, <1>c, Constants DEF PrimedInSync, TypeOK, FreshIds, LoopsKeyed
  <1>7. NoGarbledScreen'
    BY <1>c, Constants DEF NoGarbledScreen, TypeOK
  <1> QED
    BY <1>1, <1>2, <1>3, <1>4, <1>5, <1>6, <1>7 DEF IInv

LEMMA PollChangedPreserves ==
  ASSUME NEW l \in Loop, IInv, PollChanged(l)
  PROVE  IInv'
  <1> USE DEF IInv, PollChanged, PolledEntry
  <1>a. reading[l] \in Version /\ RevisionOf[reading[l]] \in Nat /\ loopKey[l] \in Key
    BY PollerAssumption, Constants DEF ReadsInOrder, ReadInOrder
  <1>b. \A s \in subscribers[l] : socket[conn[s]] = "open" => Rebuilt(l, s, reading[l]) = reading[l]
    BY DEF PrimedInSync, Rebuilt, UsesDelta
  <1>c. \A s \in subscribers[l] : s \in Sub /\ (socket[conn[s]] = "open" => held'[s] = reading[l])
    BY <1>b DEF TypeOK
  <1>1. TypeOK'
    BY <1>a, <1>b DEF TypeOK
  <1>2. LoopsKeyed'
    BY DEF LoopsKeyed
  <1>3. MapsAgree'
    BY DEF MapsAgree, SubscribersOf
  <1>4. FreshIds'
    <2>1. \A s \in Sub : s >= nextSub => s \notin subscribers[l]
      BY SubscriberOfOneLoop DEF FreshIds
    <2>2. ~(l >= nextLoop)
      BY <1>a, Constants DEF FreshIds
    <2> QED
      BY <2>1, <2>2 DEF FreshIds, TypeOK
  <1>5. ReadsInOrder'
    BY <1>a, Constants DEF ReadsInOrder, ReadInOrder, TypeOK
  <1>6. PrimedInSync'
    <2> SUFFICES ASSUME NEW m \in Loop, NEW s \in subscribers[m], primed'[s]
                 PROVE  lastContent'[m] # Nothing /\ (socket[conn[s]] = "open" => held'[s] = lastContent'[m])
      BY DEF PrimedInSync
    <2>1. CASE m = l
      BY <2>1, <1>a, <1>c, Constants DEF TypeOK
    <2>2. CASE m # l
      <3>1. s \notin subscribers[l] /\ s \in Sub
        BY <2>2, SubscriberOfOneLoop
      <3> QED
        BY <2>2, <3>1 DEF PrimedInSync, TypeOK
    <2> QED
      BY <2>1, <2>2
  <1>7. NoGarbledScreen'
    BY <1>b, <1>c, Constants DEF NoGarbledScreen
  <1> QED
    BY <1>1, <1>2, <1>3, <1>4, <1>5, <1>6, <1>7 DEF IInv

-----------------------------------------------------------------------------
(* The theorems.                                                           *)

\* The invariant is inductive: it holds initially and every action, and every
\* stuttering step, preserves it.
THEOREM Invariance == Spec => []IInv
<1>1. Init => IInv
  BY InitEstablishesIInv
<1>2. IInv /\ [Next]_vars => IInv'
  <2> SUFFICES ASSUME IInv, [Next]_vars PROVE IInv'
    OBVIOUS
  <2>1. ASSUME NEW c \in Conn, NEW k \in Key, NEW d \in BOOLEAN, NEW r \in 0 .. pane[k], Subscribe(c, k, d, r)
        PROVE  IInv'
    BY <2>1, SubscribePreserves
  <2>2. ASSUME NEW s \in Sub, Unsubscribe(s)
        PROVE  IInv'
    BY <2>2, UnsubscribePreserves
  <2>3. ASSUME NEW c \in Conn, SocketClosing(c)
        PROVE  IInv'
    BY <2>3, ClosingPreserves
  <2>4. ASSUME NEW c \in Conn, SocketClosed(c)
        PROVE  IInv'
    BY <2>4, ClosedPreserves
  <2>5. ASSUME NEW k \in Key, PollStart(k)
        PROVE  IInv'
    BY <2>5, PollStartPreserves
  <2>6. ASSUME NEW k \in Key, PaneWrites(k)
        PROVE  IInv'
    BY <2>6, PaneWritesPreserves
  <2>7. ASSUME NEW l \in Loop, HerdrReads(l)
        PROVE  IInv'
    BY <2>7, HerdrReadsPreserves
  <2>8. ASSUME NEW l \in Loop, PollUnchanged(l)
        PROVE  IInv'
    BY <2>8, PollUnchangedPreserves
  <2>9. ASSUME NEW l \in Loop, PollChanged(l)
        PROVE  IInv'
    BY <2>9, PollChangedPreserves
  <2>10. ASSUME NEW l \in Loop, PollFails(l)
        PROVE  IInv'
    BY <2>10, PollFailsPreserves
  <2>11. CASE UNCHANGED vars
    BY <2>11 DEF vars, entryVars, subVars, IInv, TypeOK, LoopsKeyed, MapsAgree, SubscribersOf,
                 FreshIds, ReadsInOrder, ReadInOrder, PrimedInSync, NoGarbledScreen
  <2> QED
    BY <2>1, <2>2, <2>3, <2>4, <2>5, <2>6, <2>7, <2>8, <2>9, <2>10, <2>11 DEF Next
<1> QED
  BY <1>1, <1>2, PTL DEF Spec

\* Every reachable state is well typed.
THEOREM TypeCorrect == Spec => []TypeOK
<1>1. IInv => TypeOK
  BY DEF IInv
<1> QED
  BY <1>1, Invariance, PTL

\* A primed subscriber has painted the snapshot its loop keeps, so the deltas
\* it is sent next are computed against what it holds.
THEOREM DeltasAreSafe == Spec => [](PrimedHoldsLastContent /\ NoGarbledScreen)
<1>1. IInv => PrimedHoldsLastContent
  <2> SUFFICES ASSUME IInv, NEW s \in Sub, Live(s), primed[s]
               PROVE  held[s] = lastContent[LoopOf(s)]
    BY DEF PrimedHoldsLastContent
  <2>1. bySubscription[s] \in Key
    BY DEF Live, IInv, TypeOK
  <2>2. s \in SubscribersOf(bySubscription[s])
    BY <2>1 DEF IInv, MapsAgree
  <2>3. LoopOf(s) \in Loop /\ s \in subscribers[LoopOf(s)]
    BY <2>1, <2>2 DEF LoopOf, SubscribersOf, IInv, TypeOK
  <2> QED
    BY <2>3 DEF IInv, PrimedInSync, Live
<1>2. IInv => NoGarbledScreen
  BY DEF IInv
<1> QED
  BY <1>1, <1>2, Invariance, PTL

\* A poll loop runs exactly while an open connection is subscribed to it.
THEOREM NoLoopWithoutSubscriber == Spec => []LoopsRunForSubscribers
<1>1. IInv => LoopsRunForSubscribers
  BY DEF IInv, MapsAgree, LoopsRunForSubscribers
<1> QED
  BY <1>1, Invariance, PTL

\* Snapshots reach a primed subscriber in the order herdr took them.
LEMMA StepsMoveForward ==
  ASSUME IInv, [Next]_vars, NEW s \in Sub, primed[s]
  PROVE  held'[s] >= held[s]
<1>1. held[s] \in Int
  <2>1. held[s] \in Version \cup {Nothing, Garbled}
    BY DEF IInv, TypeOK
  <2> QED
    BY <2>1, PollerAssumption DEF Version, Nothing, Garbled
<1>2. ASSUME NEW l \in Loop, PollChanged(l) PROVE held'[s] >= held[s]
  <2>1. CASE s \in subscribers[l] /\ socket[conn[s]] = "open"
    <3>1. held[s] = lastContent[l] /\ lastContent[l] # Nothing
      BY <2>1 DEF IInv, PrimedInSync
    <3>2. reading[l] \in Version /\ lastContent[l] <= reading[l]
      BY <1>2 DEF PollChanged, IInv, ReadsInOrder, ReadInOrder
    <3>3. held'[s] = reading[l]
      BY <1>2, <2>1, <3>1 DEF PollChanged, PolledEntry, Rebuilt, UsesDelta
    <3> QED
      BY <3>1, <3>2, <3>3
  <2>2. CASE ~(s \in subscribers[l] /\ socket[conn[s]] = "open")
    BY <1>1, <1>2, <2>2 DEF PollChanged, PolledEntry
  <2> QED
    BY <2>1, <2>2
<1>3. ASSUME NEW c \in Conn, NEW k \in Key, NEW d \in BOOLEAN, NEW r \in 0 .. pane[k], Subscribe(c, k, d, r)
      PROVE  held'[s] >= held[s]
  <2>1. s # nextSub
    BY PollerAssumption DEF IInv, FreshIds, TypeOK, Sub
  <2>2. held'[s] = held[s]
    BY <1>3, <2>1 DEF Subscribe, IInv, TypeOK
  <2> QED
    BY <1>1, <2>2
<1>4. CASE UNCHANGED held
  BY <1>1, <1>4
<1>5. Next => \/ \E l \in Loop : PollChanged(l)
              \/ \E c \in Conn, k \in Key, d \in BOOLEAN : \E r \in 0 .. pane[k] : Subscribe(c, k, d, r)
              \/ UNCHANGED held
  BY DEF Next, subVars, Unsubscribe, SocketClosing, SocketClosed, PollStart, PaneWrites,
         HerdrReads, PollUnchanged, PollFails
<1>6. UNCHANGED vars => UNCHANGED held
  BY DEF vars, subVars
<1> QED
  BY <1>2, <1>3, <1>4, <1>5, <1>6

\* A primed subscriber's screen never goes back to an older snapshot, although
\* the answer to a stopped loop's read may arrive at any time.
THEOREM ScreensNeverGoBack == Spec => ScreensMoveForward
<1>1. IInv /\ [Next]_vars => [\A s \in Sub : primed[s] => held'[s] >= held[s]]_vars
  BY StepsMoveForward
<1> QED
  BY <1>1, Invariance, PTL DEF Spec, ScreensMoveForward

\* The poller implements the feed: every step of it is a step of SnapshotFeed,
\* or leaves what SnapshotFeed sees unchanged.
THEOREM Refinement == Spec => ImplementsFeed
<1>1. Init => Feed!Init
  BY DEF Init, Feed!Init, NoKey, Nothing
<1>2. IInv /\ [Next]_vars => [Feed!Next]_(Feed!feedVars)
  <2> SUFFICES ASSUME IInv, [Next]_vars PROVE [Feed!Next]_(Feed!feedVars)
    OBVIOUS
  <2>1. ASSUME NEW c \in Conn, NEW k \in Key, NEW d \in BOOLEAN, NEW r \in 0 .. pane[k], Subscribe(c, k, d, r)
        PROVE  Feed!Next
    <3>1. nextSub \in Sub /\ bySubscription[nextSub] = "no key" /\ held[nextSub] = -1 /\ ~primed[nextSub]
      <4>1. nextSub \in Sub /\ nextSub >= nextSub
        BY <2>1, PollerAssumption DEF Subscribe, IInv, TypeOK, Sub
      <4> QED
        BY <4>1 DEF IInv, FreshIds, NoKey, Nothing
    <3>2. primed' = primed
      BY <2>1, <3>1 DEF Subscribe, PrimedAtJoin, IInv, TypeOK
    <3>3. Feed!Join(nextSub, k)
      BY <2>1, <3>1, <3>2 DEF Subscribe, Feed!Join
    <3> QED
      BY <3>1, <3>3 DEF Feed!Next
  <2>2. ASSUME NEW S \in SUBSET Sub, Remove(S), UNCHANGED <<pane, primed, held>>
        PROVE  Feed!Next
    <3>1. Feed!Leave(S)
      BY <2>2 DEF Remove, Feed!Leave, NoKey
    <3> QED
      BY <3>1 DEF Feed!Next
  <2>3. ASSUME NEW l \in Loop, PollChanged(l) PROVE Feed!Next
    <3> DEFINE k == loopKey[l]
               S == subscribers[l]
               Lost == {s \in S : socket[conn[s]] # "open"}
               v == reading[l]
    <3>1. S \in SUBSET Sub /\ Lost \in SUBSET Sub
      BY DEF IInv, TypeOK
    <3>2. v \in Version /\ k \in Key /\ v <= pane[k]
      BY <2>3, Constants DEF PollChanged, IInv, ReadsInOrder, ReadInOrder
    <3>3. v \in 0 .. pane[k] /\ v \in Nat
      BY <3>2, PollerAssumption DEF IInv, TypeOK, Version
    <3>4. \A s \in S : bySubscription[s] = k
      BY SubscriberOfOneLoop
    <3>5. \A s \in S \ Lost : primed[s] => v >= held[s]
      BY <3>1, <3>2, <3>3, Constants DEF IInv, PrimedInSync, ReadsInOrder, ReadInOrder, TypeOK
    <3>6. \A s \in S \ Lost : Rebuilt(l, s, v) = v
      BY DEF Rebuilt, UsesDelta, IInv, PrimedInSync
    <3>7. held' = [s \in Sub |-> IF s \in S \ Lost THEN v ELSE held[s]]
      BY <2>3, <3>6 DEF PollChanged, PolledEntry
    <3>8. primed' = [s \in Sub |-> primed[s] \/ s \in S]
      BY <2>3 DEF PollChanged, PolledEntry
    <3>9. Feed!Push(k, S, Lost, v)
      BY <2>3, <3>3, <3>4, <3>5, <3>7, <3>8 DEF PollChanged, Feed!Push
    <3> QED
      BY <3>1, <3>2, <3>9 DEF Feed!Next
  <2>4. ASSUME NEW k \in Key, PaneWrites(k) PROVE Feed!Next
    BY <2>4 DEF PaneWrites, subVars, Feed!Next, Feed!PaneMoves
  <2>5. ASSUME NEW s \in Sub, Unsubscribe(s) PROVE Feed!Next
    BY <2>2, <2>5 DEF Unsubscribe
  <2>6. ASSUME NEW c \in Conn, SocketClosed(c) PROVE Feed!Next
    BY <2>2, <2>6 DEF SocketClosed
  <2>7. CASE UNCHANGED <<pane, bySubscription, held, primed>>
    BY <2>7 DEF Feed!feedVars
  <2> QED
    BY <2>1, <2>3, <2>4, <2>5, <2>6, <2>7
    DEF Next, vars, subVars, SocketClosing, PollStart, HerdrReads, PollUnchanged, PollFails
<1> QED
  BY <1>1, <1>2, Invariance, PTL DEF Spec, ImplementsFeed, Feed!Spec

=============================================================================
