----------------------------- MODULE WriteQueue -----------------------------
(***************************************************************************)
(* The bridge's write queues, apps/bridge/src/herdr/write-queue.ts.  Herdr *)
(* serves every request on a thread of its own, so two writes to one pane  *)
(* (PaneWriteQueue) or two lifecycle changes of one host                   *)
(* (HostMutationQueue) may land in either order; the bridge sends the next *)
(* one only when the one before has settled.  The queue is a chain of      *)
(* promises: `tails` maps a key to the promise of its last task, `prior`   *)
(* is the promise a task was chained on, and an idle key is dropped from   *)
(* the map by the last task's own clean-up, two microtasks after its       *)
(* answer, during which another write may have been chained.               *)
(*                                                                         *)
(* The two classes are one algorithm; Key is the set of host::pane keys,   *)
(* or of hosts.                                                            *)
(***************************************************************************)
EXTENDS Integers

CONSTANTS
  Key,        \* queue keys
  MaxTasks    \* bound: writes ever enqueued

Task == 1 .. MaxTasks
NoTask == 0
NoKey == "no key"

ASSUME QueueAssumption == MaxTasks \in Nat /\ NoKey \notin Key

VARIABLES
  tails,     \* the map: key -> its last task, NoTask when the key is absent
  keyOf,     \* task -> key it was enqueued under
  prior,     \* task -> task whose `settled` it waits for, NoTask: resolved
  phase,     \* task -> how far its promises are
  landed,    \* task -> herdr applied the write
  nextTask   \* the task not enqueued yet

vars == <<tails, keyOf, prior, phase, landed, nextTask>>

(* unborn     not enqueued                                                 *)
(* chained    prior.then(task), prior unsettled or its callback not yet run*)
(* running    the request is on its way to herdr or back                   *)
(* fulfilled, rejected   `result` is settled, `settled` is not             *)
(* settled    `settled` is fulfilled                                       *)
(* cleaned    the clean-up callback has run                                *)
Phase == {"unborn", "chained", "running", "fulfilled", "rejected", "settled",
          "cleaned"}

TypeOK ==
  /\ tails \in [Key -> Task \cup {NoTask}]
  /\ keyOf \in [Task -> Key \cup {NoKey}]
  /\ prior \in [Task -> Task \cup {NoTask}]
  /\ phase \in [Task -> Phase]
  /\ landed \in [Task -> BOOLEAN]
  /\ nextTask \in 1 .. MaxTasks + 1

Init ==
  /\ tails = [k \in Key |-> NoTask]
  /\ keyOf = [t \in Task |-> NoKey]
  /\ prior = [t \in Task |-> NoTask]
  /\ phase = [t \in Task |-> "unborn"]
  /\ landed = [t \in Task |-> FALSE]
  /\ nextTask = 1

-----------------------------------------------------------------------------

\* Mutant: the new task is chained on nothing.
NothingPrior(k) == NoTask


\* `this.tails.get(key) ?? Promise.resolve()`
PriorOf(k) == tails[k]


\* `this.tails.get(key) === settled`
HoldsTail(t) == tails[keyOf[t]] = t

\* Mutant: only a fulfilled task settles the chain.
FulfilledOnly(t) == phase[t] = "fulfilled"

\* `result.then(() => undefined, () => undefined)`: either outcome will do.
Settles(t) == phase[t] \in {"fulfilled", "rejected"}

\* The promise the task waits for is fulfilled, and the callbacks that were
\* registered on it before the task's own have run.
Ready(t) == prior[t] # NoTask => phase[prior[t]] = "cleaned"

\* `enqueue`, up to its return.
Enqueue(k) ==
  /\ nextTask <= MaxTasks
  /\ prior' = [prior EXCEPT ![nextTask] = PriorOf(k)]
  /\ tails' = [tails EXCEPT ![k] = nextTask]
  /\ keyOf' = [keyOf EXCEPT ![nextTask] = k]
  /\ phase' = [phase EXCEPT ![nextTask] = "chained"]
  /\ nextTask' = nextTask + 1
  /\ UNCHANGED landed

\* The callback `prior.then(task)` registered: the request is sent.
Start(t) ==
  /\ phase[t] = "chained"
  /\ Ready(t)
  /\ phase' = [phase EXCEPT ![t] = "running"]
  /\ UNCHANGED <<tails, keyOf, prior, landed, nextTask>>

\* Herdr applies the write, once, on the request's own thread.
Land(t) ==
  /\ phase[t] = "running"
  /\ ~landed[t]
  /\ landed' = [landed EXCEPT ![t] = TRUE]
  /\ UNCHANGED <<tails, keyOf, prior, phase, nextTask>>

\* The request settles `result`: herdr answers after applying the write, or
\* the request fails, before or after the write landed.
Answer(t, ok) ==
  /\ phase[t] = "running"
  /\ ok => landed[t]
  /\ phase' = [phase EXCEPT ![t] = IF ok THEN "fulfilled" ELSE "rejected"]
  /\ UNCHANGED <<tails, keyOf, prior, landed, nextTask>>

\* The microtask that turns either outcome of `result` into `settled`.
Settle(t) ==
  /\ Settles(t)
  /\ phase' = [phase EXCEPT ![t] = "settled"]
  /\ UNCHANGED <<tails, keyOf, prior, landed, nextTask>>

\* The microtask that drops an idle key.
CleanUp(t) ==
  /\ phase[t] = "settled"
  /\ tails' = IF HoldsTail(t) THEN [tails EXCEPT ![keyOf[t]] = NoTask] ELSE tails
  /\ phase' = [phase EXCEPT ![t] = "cleaned"]
  /\ UNCHANGED <<keyOf, prior, landed, nextTask>>

Next ==
  \/ \E k \in Key : Enqueue(k)
  \/ \E t \in Task :
       \/ Start(t) \/ Land(t) \/ Settle(t) \/ CleanUp(t)
       \/ \E ok \in BOOLEAN : Answer(t, ok)

(* Microtasks run, and every request settles: client.ts has no timeout, so *)
(* that herdr answers, or drops the connection, is an assumption about it. *)
Fairness ==
  \A t \in Task :
    /\ WF_vars(Start(t) \/ Settle(t) \/ CleanUp(t))
    /\ WF_vars(\E ok \in BOOLEAN : Answer(t, ok))

Spec == Init /\ [][Next]_vars
FairSpec == Spec /\ Fairness

-----------------------------------------------------------------------------
(* Properties.                                                             *)

Waiting(k) == {t \in Task : keyOf[t] = k /\ phase[t] = "chained"}
Running(k) == {t \in Task : keyOf[t] = k /\ phase[t] = "running"}
Done == {t \in Task : phase[t] \in {"fulfilled", "rejected", "settled", "cleaned"}}

(* Writes land in the order they were enqueued: while an earlier write of  *)
(* the same key is still to be answered, a later one is not even sent      *)
(* (write-queue.ts:1-9).                                                   *)
WritesLandInOrder ==
  \A t, u \in Task :
    (/\ keyOf[t] # NoKey /\ keyOf[t] = keyOf[u]
     /\ t < u
     /\ phase[u] # "chained")
    => t \in Done

(* The map holds the last task of every key that has an unfinished one,    *)
(* and nothing else: no idle key leaks, and the clean-up of a finished     *)
(* task never forgets a task enqueued behind it (write-queue.ts:24).       *)
TailsAreLastUnfinished ==
  \A k \in Key :
    LET unfinished == {t \in Task : keyOf[t] = k /\ phase[t] # "cleaned"}
    IN  IF unfinished = {} THEN tails[k] = NoTask
        ELSE tails[k] \in unfinished /\ \A t \in unfinished : t <= tails[k]

(* Every enqueued write is sent and its promise settles, although writes   *)
(* before it may fail: a failed write never stalls the queue behind it.    *)
EveryWriteIsServed == \A t \in Task : phase[t] = "chained" ~> t \in Done

(* The chain of promises implements one FIFO server per key.               *)
Server == INSTANCE FifoServer WITH
  waiting <- [k \in Key |-> Waiting(k)],
  serving <- [k \in Key |-> Running(k)],
  served <- Done
ImplementsFifoServer == Server!Spec
=============================================================================
