-------------------------- MODULE WriteQueueProofs --------------------------
(***************************************************************************)
(* Proofs about WriteQueue for any set of keys and any number of writes.   *)
(*                                                                         *)
(* The order of the writes is not inductive by itself: a task looks only   *)
(* at the one promise it was chained on, which may have been anything the  *)
(* map held.  The invariant below says what the map may hold (Tails), what *)
(* a task was therefore chained on (Chain), and that a task which started  *)
(* has nothing unfinished before it (Started).                             *)
(***************************************************************************)
EXTENDS WriteQueue, TLAPS

\* Exactly the tasks below nextTask have been enqueued.
Numbered ==
  \A t \in Task : /\ phase[t] = "unborn" <=> t >= nextTask
                  /\ keyOf[t] = NoKey <=> t >= nextTask
                  /\ t >= nextTask => prior[t] = NoTask

\* The tail of a key is an unfinished task of it, and the last one.
Tails ==
  \A k \in Key :
    /\ tails[k] # NoTask => keyOf[tails[k]] = k /\ phase[tails[k]] # "cleaned"
    /\ \A t \in Task : keyOf[t] = k /\ phase[t] # "cleaned" =>
                         tails[k] # NoTask /\ t <= tails[k]

\* A task is chained on an earlier one of its key, and no unfinished task of
\* the key lies between them.
Chain ==
  \A u \in Task :
    /\ prior[u] # NoTask => prior[u] < u /\ keyOf[prior[u]] = keyOf[u]
    /\ \A t \in Task : (t < u /\ keyOf[u] # NoKey /\ keyOf[t] = keyOf[u] /\ phase[t] # "cleaned")
                         => prior[u] # NoTask /\ t <= prior[u]

\* Everything before a task that started is finished.
Started ==
  \A t, u \in Task : (t < u /\ keyOf[t] = keyOf[u] /\ phase[u] \notin {"unborn", "chained"})
                       => phase[t] = "cleaned"

IInv == TypeOK /\ Numbered /\ Tails /\ Chain /\ Started

-----------------------------------------------------------------------------

(* The bounds are numbers, and NoTask and NoKey stand for nothing else.    *)
LEMMA Constants == /\ MaxTasks \in Nat
                   /\ Task \subseteq Nat /\ NoTask \notin Task
                   /\ NoKey \notin Key /\ NoTask = 0
  BY QueueAssumption DEF Task, NoTask

(* The next number is a task as long as the bound is not reached.          *)
LEMMA FreshTask == TypeOK /\ nextTask <= MaxTasks => nextTask \in Task
  BY QueueAssumption DEF TypeOK, Task

(* The queue starts empty.                                                 *)
LEMMA InitHolds == Init => IInv
  <1> SUFFICES ASSUME Init PROVE IInv
    OBVIOUS
  <1> USE Constants DEF Init
  <1>1. TypeOK
    BY QueueAssumption DEF TypeOK, Task, Phase
  <1>2. Numbered
    BY QueueAssumption DEF Numbered, Task
  <1>3. Tails
    BY DEF Tails
  <1>4. Chain /\ Started
    BY DEF Chain, Started
  <1> QED
    BY <1>1, <1>2, <1>3, <1>4 DEF IInv

(* Every step keeps the types.                                             *)
LEMMA TypesStep == TypeOK /\ [Next]_vars => TypeOK'
  <1> SUFFICES ASSUME TypeOK, [Next]_vars PROVE TypeOK'
    OBVIOUS
  <1> USE Constants DEF TypeOK, Phase
  <1>1. ASSUME NEW k \in Key, Enqueue(k) PROVE TypeOK'
    <2>1. nextTask \in Task /\ nextTask + 1 \in 1 .. MaxTasks + 1
      BY <1>1, FreshTask DEF Enqueue
    <2> QED
      BY <1>1, <2>1 DEF Enqueue, PriorOf
  <1>2. ASSUME NEW t \in Task,
               Start(t) \/ Land(t) \/ Settle(t) \/ \E ok \in BOOLEAN : Answer(t, ok)
        PROVE TypeOK'
    BY <1>2 DEF Start, Land, Settle, Answer
  <1>3. ASSUME NEW t \in Task, CleanUp(t) PROVE TypeOK'
    BY <1>3 DEF CleanUp
  <1>4. CASE UNCHANGED vars
    BY <1>4 DEF vars
  <1> QED
    BY <1>1, <1>2, <1>3, <1>4 DEF Next

(* Chaining a new task behind the tail of its key keeps the invariant.     *)
LEMMA EnqueueStep ==
  ASSUME NEW k \in Key, IInv, Enqueue(k)
  PROVE  Numbered' /\ Tails' /\ Chain' /\ Started'
  <1> DEFINE n == nextTask
  <1> USE Constants
  <1>1. TypeOK /\ n \in Task /\ n \in Nat
    BY FreshTask DEF IInv, Enqueue, TypeOK
  <1>2. /\ phase' = [phase EXCEPT ![n] = "chained"]
        /\ keyOf' = [keyOf EXCEPT ![n] = k]
        /\ tails' = [tails EXCEPT ![k] = n]
        /\ prior' = [prior EXCEPT ![n] = tails[k]]
        /\ nextTask' = n + 1
    BY DEF Enqueue, PriorOf
  <1>3. phase[n] = "unborn" /\ keyOf[n] = NoKey /\ n # NoTask
    BY <1>1 DEF IInv, Numbered
  <1>4. \A t \in Task : keyOf[t] # NoKey => t < n
    BY <1>1 DEF IInv, Numbered
  <1>5. tails[k] # NoTask => tails[k] \in Task /\ keyOf[tails[k]] = k /\ tails[k] < n
    BY <1>1, <1>4 DEF IInv, Tails, TypeOK
  <1>6. Numbered'
    BY <1>1, <1>2, <1>3 DEF IInv, Numbered, TypeOK
  <1>7. Tails'
    <2> SUFFICES ASSUME NEW j \in Key
                 PROVE  /\ tails'[j] # NoTask => keyOf'[tails'[j]] = j /\ phase'[tails'[j]] # "cleaned"
                        /\ \A t \in Task : keyOf'[t] = j /\ phase'[t] # "cleaned" =>
                                             tails'[j] # NoTask /\ t <= tails'[j]
      BY DEF Tails
    <2>1. CASE j = k
      BY <1>1, <1>2, <1>3, <1>4, <2>1 DEF TypeOK
    <2>2. CASE j # k
      <3>1. tails'[j] = tails[j] /\ (tails[j] # NoTask => tails[j] # n)
        BY <1>1, <1>2, <1>3, <2>2 DEF IInv, Tails, TypeOK
      <3> QED
        BY <1>1, <1>2, <2>2, <3>1 DEF IInv, Tails, TypeOK
    <2> QED
      BY <2>1, <2>2
  <1>8. Chain'
    <2> SUFFICES ASSUME NEW u \in Task
                 PROVE  /\ prior'[u] # NoTask => prior'[u] < u /\ keyOf'[prior'[u]] = keyOf'[u]
                        /\ \A t \in Task : (t < u /\ keyOf'[u] # NoKey /\ keyOf'[t] = keyOf'[u]
                                            /\ phase'[t] # "cleaned")
                                             => prior'[u] # NoTask /\ t <= prior'[u]
      BY DEF Chain
    <2>1. CASE u = n
      <3>1. prior'[u] = tails[k] /\ keyOf'[u] = k
        BY <1>1, <1>2, <2>1 DEF TypeOK
      <3>2. \A t \in Task : t < n => keyOf'[t] = keyOf[t] /\ phase'[t] = phase[t]
        BY <1>1, <1>2 DEF TypeOK
      <3> QED
        BY <1>5, <2>1, <3>1, <3>2 DEF IInv, Tails
    <2>2. CASE u # n
      <3>1. prior'[u] = prior[u] /\ keyOf'[u] = keyOf[u]
        BY <1>1, <1>2, <2>2 DEF TypeOK
      <3>2. prior[u] # NoTask => prior[u] \in Task /\ prior[u] # n
        <4>1. prior[u] # NoTask => u < n
          BY <1>1 DEF IInv, Numbered
        <4> QED
          BY <1>1, <4>1 DEF IInv, Chain, TypeOK
      <3>3. keyOf[u] # NoKey => u < n
        BY <1>4
      <3> QED
        BY <1>1, <1>2, <2>2, <3>1, <3>2, <3>3 DEF IInv, Chain, TypeOK
    <2> QED
      BY <2>1, <2>2
  <1>9. Started'
    <2>1. \A t \in Task : t # n => keyOf'[t] = keyOf[t] /\ phase'[t] = phase[t]
      BY <1>1, <1>2 DEF TypeOK
    <2>2. \A u \in Task : phase[u] \notin {"unborn", "chained"} => u < n
      BY <1>1 DEF IInv, Numbered
    <2>3. phase'[n] = "chained"
      BY <1>1, <1>2 DEF TypeOK
    <2> QED
      BY <2>1, <2>2, <2>3 DEF IInv, Started
  <1> QED
    BY <1>6, <1>7, <1>8, <1>9

(* A task starts when its promise is fulfilled: nothing before it is left. *)
LEMMA StartStep ==
  ASSUME NEW u \in Task, IInv, Start(u)
  PROVE  /\ \A t \in Task : t < u /\ keyOf[t] = keyOf[u] => phase[t] = "cleaned"
         /\ \A t \in Task : t # u /\ keyOf[t] = keyOf[u] => phase[t] # "running"
  <1> USE Constants
  <1>1. TypeOK /\ phase[u] = "chained" /\ Ready(u)
    BY DEF IInv, Start
  <1>2. keyOf[u] # NoKey
    BY <1>1 DEF IInv, Numbered
  <1>3. ASSUME NEW t \in Task, t < u, keyOf[t] = keyOf[u] PROVE phase[t] = "cleaned"
    <2> SUFFICES ASSUME phase[t] # "cleaned" PROVE FALSE
      OBVIOUS
    <2> DEFINE p == prior[u]
    <2>1. p # NoTask /\ t <= p /\ keyOf[p] = keyOf[u]
      BY <1>2, <1>3 DEF IInv, Chain
    <2>2. p \in Task /\ phase[p] = "cleaned"
      BY <1>1, <2>1 DEF Ready, TypeOK
    <2>3. t = p \/ t < p
      <3>1. t \in Nat /\ p \in Nat
        BY <2>2
      <3> HIDE DEF p
      <3> QED
        BY <2>1, <3>1
    <2>4. t < p => phase[t] = "cleaned"
      BY <1>3, <2>1, <2>2 DEF IInv, Started
    <2> QED
      BY <2>2, <2>3, <2>4
  <1>4. ASSUME NEW t \in Task, t # u, keyOf[t] = keyOf[u] PROVE phase[t] # "running"
    <2>1. t < u \/ u < t
      BY <1>4
    <2>2. u < t /\ phase[t] = "running" => phase[u] = "cleaned"
      BY <1>4 DEF IInv, Started
    <2> QED
      BY <1>1, <1>3, <1>4, <2>1, <2>2
  <1> QED
    BY <1>3, <1>4

(* The steps that only advance one task.                                   *)
LEMMA AdvanceStep ==
  ASSUME NEW t \in Task, IInv,
         Start(t) \/ Land(t) \/ Settle(t) \/ \E ok \in BOOLEAN : Answer(t, ok)
  PROVE  Numbered' /\ Tails' /\ Chain' /\ Started'
  <1> USE Constants
  <1>1. UNCHANGED <<tails, keyOf, prior, nextTask>>
    BY DEF Start, Land, Settle, Answer
  <1>2. \A u \in Task : u # t => phase'[u] = phase[u]
    BY DEF IInv, TypeOK, Start, Land, Settle, Answer
  <1>3. /\ phase'[t] \notin {"unborn", "cleaned"}
        /\ phase[t] \notin {"unborn", "cleaned"}
        /\ phase[t] = "chained" => Start(t) \/ phase'[t] = "chained"
    BY DEF IInv, TypeOK, Start, Land, Settle, Settles, Answer
  <1>4. Numbered'
    BY <1>1, <1>2, <1>3 DEF IInv, Numbered
  <1>5. \A u \in Task : (phase'[u] = "cleaned") <=> (phase[u] = "cleaned")
    BY <1>2, <1>3
  <1>6. Tails'
    <2>1. \A k \in Key : tails[k] # NoTask => tails[k] \in Task
      BY DEF IInv, TypeOK
    <2> QED
      BY <1>1, <1>5, <2>1 DEF IInv, Tails
  <1>7. Chain'
    BY <1>1, <1>5 DEF IInv, Chain
  <1>8. Started'
    <2> SUFFICES ASSUME NEW s \in Task, NEW u \in Task, s < u, keyOf[s] = keyOf[u],
                        phase'[u] \notin {"unborn", "chained"}
                 PROVE  phase[s] = "cleaned"
      BY <1>1, <1>5 DEF Started
    <2>1. CASE phase[u] \notin {"unborn", "chained"}
      BY <2>1 DEF IInv, Started
    <2>2. CASE phase[u] \in {"unborn", "chained"}
      <3>1. u = t /\ Start(t)
        BY <1>2, <1>3, <2>2
      <3> QED
        BY <3>1, StartStep
    <2> QED
      BY <2>1, <2>2
  <1> QED
    BY <1>4, <1>6, <1>7, <1>8

(* The clean-up of the last task finds nothing unfinished behind it.       *)
LEMMA CleanUpStep ==
  ASSUME NEW t \in Task, IInv, CleanUp(t)
  PROVE  Numbered' /\ Tails' /\ Chain' /\ Started'
  <1> USE Constants
  <1>1. TypeOK /\ phase[t] = "settled" /\ UNCHANGED <<keyOf, prior, nextTask>>
    BY DEF IInv, CleanUp
  <1>2. phase' = [phase EXCEPT ![t] = "cleaned"]
    BY DEF CleanUp
  <1>3. keyOf[t] \in Key
    BY <1>1 DEF IInv, Numbered, TypeOK
  <1>4. Numbered'
    BY <1>1, <1>2 DEF IInv, Numbered, TypeOK
  <1>5. Chain'
    BY <1>1, <1>2 DEF IInv, Chain, TypeOK
  <1>6. Started'
    BY <1>1, <1>2 DEF IInv, Started, TypeOK
  <1>7. Tails'
    <2>1. CASE HoldsTail(t)
      <3>1. tails' = [tails EXCEPT ![keyOf[t]] = NoTask]
        BY <2>1 DEF CleanUp
      <3>2. ASSUME NEW u \in Task, keyOf[u] = keyOf[t], u # t PROVE phase[u] = "cleaned"
        <4>1. phase[u] # "cleaned" => u < t
          BY <1>3, <2>1, <3>2 DEF IInv, Tails, HoldsTail
        <4>2. u < t => phase[u] = "cleaned"
          BY <1>1, <3>2 DEF IInv, Started
        <4> QED
          BY <4>1, <4>2
      <3> QED
        BY <1>1, <1>2, <1>3, <3>1, <3>2 DEF IInv, Tails, TypeOK
    <2>2. CASE ~HoldsTail(t)
      <3>1. tails' = tails
        BY <2>2 DEF CleanUp
      <3>2. \A k \in Key : tails[k] # t
        BY <1>1, <1>3, <2>2 DEF IInv, Tails, HoldsTail
      <3> QED
        BY <1>1, <1>2, <3>1, <3>2 DEF IInv, Tails, TypeOK
    <2> QED
      BY <2>1, <2>2
  <1> QED
    BY <1>4, <1>5, <1>6, <1>7

(* The invariant is inductive.                                             *)
LEMMA Inductive == IInv /\ [Next]_vars => IInv'
  <1> SUFFICES ASSUME IInv, [Next]_vars PROVE IInv'
    OBVIOUS
  <1>1. TypeOK'
    BY TypesStep DEF IInv
  <1>2. Numbered' /\ Tails' /\ Chain' /\ Started'
    <2>1. ASSUME NEW k \in Key, Enqueue(k) PROVE Numbered' /\ Tails' /\ Chain' /\ Started'
      BY <2>1, EnqueueStep
    <2>2. ASSUME NEW t \in Task,
                 Start(t) \/ Land(t) \/ Settle(t) \/ \E ok \in BOOLEAN : Answer(t, ok)
          PROVE  Numbered' /\ Tails' /\ Chain' /\ Started'
      BY <2>2, AdvanceStep
    <2>3. ASSUME NEW t \in Task, CleanUp(t) PROVE Numbered' /\ Tails' /\ Chain' /\ Started'
      BY <2>3, CleanUpStep
    <2>4. CASE UNCHANGED vars
      BY <2>4 DEF IInv, Numbered, Tails, Chain, Started, vars
    <2> QED
      BY <2>1, <2>2, <2>3, <2>4 DEF Next
  <1> QED
    BY <1>1, <1>2 DEF IInv

(* The invariant holds in every reachable state.                           *)
THEOREM Invariance == Spec => []IInv
  BY InitHolds, Inductive, PTL DEF Spec

(* Every variable keeps its type (write-queue.ts).                         *)
THEOREM TypeCorrect == Spec => []TypeOK
  <1>1. IInv => TypeOK
    BY DEF IInv
  <1> QED
    BY <1>1, Invariance, PTL

(* For any number of writes and keys, a write is sent only when every      *)
(* write enqueued before it under its key has been answered, so writes to  *)
(* one pane land in the order they were typed (write-queue.ts:1-9).        *)
THEOREM InOrder == Spec => []WritesLandInOrder
  <1>1. IInv => WritesLandInOrder
    <2> SUFFICES ASSUME IInv, NEW t \in Task, NEW u \in Task, keyOf[t] # NoKey,
                        keyOf[t] = keyOf[u], t < u, phase[u] # "chained"
                 PROVE  t \in Done
      BY DEF WritesLandInOrder
    <2>1. phase[u] # "unborn"
      BY DEF IInv, Numbered
    <2> QED
      BY <2>1 DEF IInv, Started, Done
  <1> QED
    BY <1>1, Invariance, PTL

(* The map holds exactly the last unfinished write of every key: it leaks  *)
(* no idle key and forgets no busy one (write-queue.ts:24).                *)
THEOREM NoLeakNoLoss == Spec => []TailsAreLastUnfinished
  <1>1. IInv => TailsAreLastUnfinished
    <2> SUFFICES ASSUME IInv, NEW k \in Key
                 PROVE  LET unfinished == {t \in Task : keyOf[t] = k /\ phase[t] # "cleaned"}
                        IN  IF unfinished = {} THEN tails[k] = NoTask
                            ELSE tails[k] \in unfinished /\ \A t \in unfinished : t <= tails[k]
      BY DEF TailsAreLastUnfinished
    <2>1. tails[k] # NoTask => tails[k] \in Task
      BY DEF IInv, TypeOK
    <2> QED
      BY <2>1 DEF IInv, Tails
  <1> QED
    BY <1>1, Invariance, PTL

(* The initial states of the queue are the server's.                       *)
LEMMA InitRefines == Init => Server!Init
  <1> SUFFICES ASSUME Init PROVE Server!Init
    OBVIOUS
  <1>1. \A k \in Key : Waiting(k) = {} /\ Running(k) = {}
    BY DEF Init, Waiting, Running
  <1>2. Done = {}
    BY DEF Init, Done
  <1> QED
    BY <1>1, <1>2 DEF Server!Init

(* Every step of the queue is a step of the server or changes nothing it   *)
(* can see.                                                                *)
LEMMA StepRefines == IInv /\ IInv' /\ [Next]_vars => [Server!Next]_(Server!fifoVars)
  <1> SUFFICES ASSUME IInv, IInv', [Next]_vars
               PROVE  Server!Next \/ UNCHANGED Server!fifoVars
    OBVIOUS
  <1> USE Constants
  <1>0. TypeOK
    BY DEF IInv
  <1>1. ASSUME NEW k \in Key, Enqueue(k) PROVE Server!Give(k, nextTask) /\ nextTask \in Task
    <2> DEFINE n == nextTask
    <2>1. n \in Task /\ n \in Nat
      BY <1>0, <1>1, FreshTask DEF Enqueue, TypeOK
    <2>2. /\ phase' = [phase EXCEPT ![n] = "chained"]
          /\ keyOf' = [keyOf EXCEPT ![n] = k]
      BY <1>1 DEF Enqueue
    <2>3. keyOf[n] = NoKey /\ phase[n] = "unborn"
      BY <2>1 DEF IInv, Numbered
    <2>4. \A t \in Task : phase[t] # "unborn" => t < n
      BY <2>1 DEF IInv, Numbered
    <2>5. \A u \in Server!Known : u < n
      BY <2>4 DEF Server!Known, Waiting, Running, Done
    <2>6. \A j \in Key : Waiting(j)' = IF j = k THEN Waiting(j) \cup {n} ELSE Waiting(j)
      <3>1. \A j \in Key : \A t \in Task :
              t \in Waiting(j)' <=> (t \in Waiting(j) \/ (t = n /\ j = k))
        BY <1>0, <2>1, <2>2, <2>3 DEF Waiting, TypeOK
      <3>2. \A j \in Key : Waiting(j) \subseteq Task /\ Waiting(j)' \subseteq Task
        BY DEF Waiting
      <3> QED
        BY <2>1, <3>1, <3>2
    <2>7. \A j \in Key : Running(j)' = Running(j)
      BY <1>0, <2>1, <2>2, <2>3 DEF Running, TypeOK
    <2>8. Done' = Done
      BY <1>0, <2>1, <2>2, <2>3 DEF Done, TypeOK
    <2> QED
      BY <2>1, <2>5, <2>6, <2>7, <2>8 DEF Server!Give
  <1>2. ASSUME NEW t \in Task, NEW k \in Key, k = keyOf[t], Start(t) PROVE Server!Serve(k, t)
    <2>1. phase[t] = "chained" /\ phase' = [phase EXCEPT ![t] = "running"] /\ keyOf' = keyOf
      BY <1>2 DEF Start
    <2>2. \A u \in Task : keyOf[u] = k => phase[u] # "running"
      BY <1>2, <2>1, StartStep
    <2>3. \A u \in Task : keyOf[u] = k /\ phase[u] = "chained" => ~(u < t)
      BY <1>2, StartStep
    <2>4. Running(k) = {}
      BY <2>2 DEF Running
    <2>5. t \in Waiting(k) /\ \A u \in Waiting(k) : t <= u
      BY <1>2, <2>1, <2>3 DEF Waiting
    <2>6. \A j \in Key : Waiting(j)' = IF j = k THEN Waiting(j) \ {t} ELSE Waiting(j)
      BY <1>0, <1>2, <2>1 DEF Waiting, TypeOK
    <2>7. \A j \in Key : Running(j)' = IF j = k THEN {t} ELSE Running(j)
      <3>1. \A j \in Key : Running(j)' = Running(j) \cup (IF j = k THEN {t} ELSE {})
        BY <1>0, <1>2, <2>1 DEF Running, TypeOK
      <3> QED
        BY <2>4, <3>1
    <2>8. Done' = Done
      BY <1>0, <2>1 DEF Done, TypeOK
    <2> QED
      BY <2>4, <2>5, <2>6, <2>7, <2>8 DEF Server!Serve
  <1>3. ASSUME NEW t \in Task, NEW k \in Key, k = keyOf[t], NEW ok \in BOOLEAN, Answer(t, ok)
        PROVE  Server!Complete(k, t)
    <2>1. /\ phase[t] = "running" /\ keyOf' = keyOf
          /\ phase' = [phase EXCEPT ![t] = IF ok THEN "fulfilled" ELSE "rejected"]
      BY <1>3 DEF Answer
    <2>2. \A u \in Task : keyOf[u] = k /\ phase[u] = "running" => u = t
      BY <1>3, <2>1 DEF IInv, Started
    <2>3. \A u : u \in Running(k) <=> u = t
      BY <1>3, <2>1, <2>2 DEF Running
    <2>4. \A j \in Key : Waiting(j)' = Waiting(j)
      BY <1>0, <2>1 DEF Waiting, TypeOK
    <2>5. \A j \in Key : Running(j)' = IF j = k THEN {} ELSE Running(j)
      <3>1. \A j \in Key : Running(j)' = Running(j) \ {t}
        BY <1>0, <2>1 DEF Running, TypeOK
      <3>2. \A j \in Key \ {k} : t \notin Running(j)
        BY <1>3 DEF Running
      <3> QED
        BY <2>3, <3>1, <3>2
    <2>6. Done' = Done \cup {t}
      BY <1>0, <2>1 DEF Done, TypeOK
    <2> QED
      BY <2>3, <2>4, <2>5, <2>6 DEF Server!Complete
  <1>4. ASSUME NEW t \in Task, Land(t) \/ Settle(t) \/ CleanUp(t)
        PROVE  UNCHANGED Server!fifoVars
    <2>1. Done' = Done
      BY <1>0, <1>4 DEF Land, Settle, Settles, CleanUp, Done, TypeOK
    <2>2. \A j \in Key : Waiting(j)' = Waiting(j)
      BY <1>0, <1>4 DEF Land, Settle, Settles, CleanUp, Waiting, TypeOK
    <2>3. \A j \in Key : Running(j)' = Running(j)
      BY <1>0, <1>4 DEF Land, Settle, Settles, CleanUp, Running, TypeOK
    <2> QED
      BY <2>1, <2>2, <2>3 DEF Server!fifoVars
  <1>5. CASE UNCHANGED vars
    BY <1>5 DEF vars, Server!fifoVars, Waiting, Running, Done
  <1>6. \A t \in Task : phase[t] # "unborn" => keyOf[t] \in Key
    BY <1>0 DEF IInv, Numbered, TypeOK
  <1>7. ASSUME NEW t \in Task, Start(t) PROVE Server!Next
    BY <1>2, <1>6, <1>7 DEF Start, Server!Next
  <1>8. ASSUME NEW t \in Task, NEW ok \in BOOLEAN, Answer(t, ok) PROVE Server!Next
    BY <1>3, <1>6, <1>8 DEF Answer, Server!Next
  <1> QED
    BY <1>1, <1>4, <1>5, <1>7, <1>8 DEF Next, Server!Next

(* The chain of promises implements a server that takes the tasks of each  *)
(* key one at a time in the order they were enqueued.                      *)
THEOREM Refinement == Spec => ImplementsFifoServer
  BY InitRefines, StepRefines, Invariance, PTL DEF Spec, ImplementsFifoServer, Server!Spec
=============================================================================
