------------------------------- MODULE Chords -------------------------------
(***************************************************************************)
(* Which keystroke is the prefix, which is a direct chord, and which never *)
(* reach the keyboard service: the pure half of                            *)
(* apps/web/src/app/state/keyboard.service.ts and App.onKeydown of app.ts. *)
(*                                                                         *)
(* A chord and a keystroke have one form here, [key, mods]: what           *)
(* parsePrefix() makes of "Ctrl+B", and what a KeyboardEvent carries.      *)
(***************************************************************************)
Chord(key, mods) == [key |-> key, mods |-> mods]

DEFAULT_PREFIX == Chord("b", {"ctrl"})
DIRECT_CHORDS  == {[chord |-> Chord("i", {"ctrl", "alt"}), action |-> "focus-card-switcher"]}

sameChord(a, b)     == a.key = b.key /\ a.mods = b.mods
matchesPrefix(p, e) == sameChord(p, e)

\* KeyboardService.prefix(): the user's own, else herdr's, else the default.
prefixOf(override, herdr, none) ==
  CASE override # none -> override
    [] override = none /\ herdr # none -> herdr
    [] OTHER -> DEFAULT_PREFIX

\* The direct chords a keystroke may run; the prefix is never shadowed.
directActions(e, prefix) ==
  {d.action : d \in {x \in DIRECT_CHORDS :
                       ~sameChord(x.chord, prefix) /\ matchesPrefix(x.chord, e)}}

isUnmodified(e, key) == e.key = key /\ e.mods \subseteq {"shift"}

\* Mutant: Escape as a global key.
ForwardedAlways(e, chromeOpen) == ~isUnmodified(e, "?")
\* App.onKeydown(): the two keys the terminal keeps.
Forwarded(e, chromeOpen) ==
  /\ ~isUnmodified(e, "?")
  /\ isUnmodified(e, "Escape") => chromeOpen
=============================================================================
