---------------------------- MODULE SnapshotFeed ----------------------------
(***************************************************************************)
(* What the output feed promises to a browser, without loops, polls or     *)
(* deltas: a subscription shows snapshots of its own pane only, each one   *)
(* whole, and after its first frame never an older one than before.        *)
(***************************************************************************)
EXTENDS Integers

CONSTANTS Key, Sub, Version

VARIABLES
  pane,     \* what each pane shows
  of,       \* the pane each subscription is on, "no key" when it is on none
  view,     \* the snapshot each subscription's browser shows
  synced    \* whether a frame arrived on it

feedVars == <<pane, of, view, synced>>

Init ==
  /\ pane = [k \in Key |-> 0]
  /\ of = [s \in Sub |-> "no key"]
  /\ view = [s \in Sub |-> -1]
  /\ synced = [s \in Sub |-> FALSE]

PaneMoves(k) ==
  /\ pane' = [pane EXCEPT ![k] = @ + 1]
  /\ UNCHANGED <<of, view, synced>>

\* A browser that read the pane a while ago subscribes to it.
Join(s, k) ==
  /\ of[s] = "no key" /\ view[s] = -1
  /\ of' = [of EXCEPT ![s] = k]
  /\ \E r \in 0 .. pane[k] : view' = [view EXCEPT ![s] = r]
  /\ UNCHANGED <<pane, synced>>

\* Subscribers in S get snapshot v of pane k; frames to those in Lost, whose
\* connections are closing, do not arrive.
Push(k, S, Lost, v) ==
  /\ \A s \in S : of[s] = k
  /\ v \in 0 .. pane[k]
  /\ \A s \in S \ Lost : synced[s] => v >= view[s]
  /\ view' = [s \in Sub |-> IF s \in S \ Lost THEN v ELSE view[s]]
  /\ synced' = [s \in Sub |-> synced[s] \/ s \in S]
  /\ UNCHANGED <<pane, of>>

Leave(S) ==
  /\ of' = [s \in Sub |-> IF s \in S THEN "no key" ELSE of[s]]
  /\ UNCHANGED <<pane, view, synced>>

Next ==
  \/ \E k \in Key : PaneMoves(k)
  \/ \E s \in Sub, k \in Key : Join(s, k)
  \/ \E k \in Key, S, Lost \in SUBSET Sub, v \in Version : Push(k, S, Lost, v)
  \/ \E S \in SUBSET Sub : Leave(S)

Spec == Init /\ [][Next]_feedVars
=============================================================================
