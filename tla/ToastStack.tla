---- MODULE ToastStack ----
(***************************************************************************)
(* The notice stack of the browser (apps/web/src/app/state/                *)
(* toast.service.ts): the toasts that show, and a timer for each toast     *)
(* that leaves by itself.  A stack is a record                             *)
(*   list    the toasts,                                                   *)
(*   timers  the keys of the toasts whose timer is running.                *)
(* A toast keeps its id as long as its key shows, an id is not used twice, *)
(* and a toast's timer ends with it, so here the key stands for the id.    *)
(* Wording, lengths of time and the order on the screen are left out: a    *)
(* running timer may fire, and the user may dismiss any toast.             *)
(***************************************************************************)

EmptyStack == [list |-> {}, timers |-> {}]

\* clearTimer() and the filter of dismiss(); nothing when the key does not
\* show, as in dismissByKey().
dismiss(stack, key) ==
  [list   |-> {toast \in stack.list : toast.key # key},
   timers |-> stack.timers \ {key}]

\* The list after a push: the toast replaces the one under its key.
Replaced(stack, key, level, persistent) ==
  {toast \in stack.list : toast.key # key}
    \cup {[key |-> key, level |-> level, persistent |-> persistent]}

\* A push onto a key that shows replaces that toast where it stands and
\* restarts its clock.
push(stack, key, level, persistent) ==
  [list   |-> Replaced(stack, key, level, persistent),
   timers |-> IF persistent THEN stack.timers \ {key} ELSE stack.timers \cup {key}]

\* A push of an error under each of the keys.
pushErrors(stack, keys) ==
  [list   |-> {toast \in stack.list : toast.key \notin keys}
                \cup {[key |-> key, level |-> "error", persistent |-> FALSE] : key \in keys},
   timers |-> stack.timers \cup keys]

----
\* What every reachable stack looks like: one toast under a key, and a timer
\* for exactly those that are not persistent.
StackIsSound(stack) ==
  /\ \A s, t \in stack.list : s.key = t.key => s = t
  /\ stack.timers = {toast.key : toast \in {t \in stack.list : ~t.persistent}}
====
