----------------------------- MODULE FifoServer -----------------------------
(***************************************************************************)
(* What a write queue promises: for every key, the tasks are served one at *)
(* a time in the order they were given, and a task that fails is served    *)
(* like one that succeeds.  Tasks are numbered in the order of their       *)
(* arrival, so the next task of a key is its smallest waiting one.         *)
(***************************************************************************)
EXTENDS Integers

CONSTANTS Key, Task

VARIABLES
  waiting,   \* key -> tasks given and not started
  serving,   \* key -> the task being served, if any, as a set
  served     \* tasks served, whatever their outcome

fifoVars == <<waiting, serving, served>>

Init ==
  /\ waiting = [k \in Key |-> {}]
  /\ serving = [k \in Key |-> {}]
  /\ served = {}

Known == served \cup UNION {waiting[k] \cup serving[k] : k \in Key}

Give(k, t) ==
  /\ \A u \in Known : u < t
  /\ waiting' = [waiting EXCEPT ![k] = @ \cup {t}]
  /\ UNCHANGED <<serving, served>>

Serve(k, t) ==
  /\ serving[k] = {}
  /\ t \in waiting[k]
  /\ \A u \in waiting[k] : t <= u
  /\ waiting' = [waiting EXCEPT ![k] = @ \ {t}]
  /\ serving' = [serving EXCEPT ![k] = {t}]
  /\ UNCHANGED served

Complete(k, t) ==
  /\ t \in serving[k]
  /\ serving' = [serving EXCEPT ![k] = {}]
  /\ served' = served \cup {t}
  /\ UNCHANGED waiting

Next == \E k \in Key, t \in Task : Give(k, t) \/ Serve(k, t) \/ Complete(k, t)

Spec == Init /\ [][Next]_fifoVars
=============================================================================
