---------------------------- MODULE MCBoardShell ----------------------------
(* Two hosts.  On the first the workspace w0, always there and empty; on the *)
(* second w1, with the tab t1 of two panes and t2 of one: both may close.    *)
EXTENDS BoardShell

CONSTANTS h1, h2, w0, w1, t1, t2, c1, c2, c3
MCHostOf == [w \in Workspace |-> IF w = w0 THEN h1 ELSE h2]
MCWorkspaceOf == [t \in Tab |-> w1]
MCTabOf == [c \in Card |-> IF c = c3 THEN t2 ELSE t1]
MCHostOrder == <<h1, h2>>
MCCaps == [h \in {h1, h2} |-> IF h = h1 THEN {"paneCreate", "tabCrud", "workspaceCrud"}
                              ELSE {"paneCreate", "tabCrud"}]
MCCardOrder == <<c1, c2, c3>>
MCPrefix == Chord("i", {"ctrl", "alt"})
MCKeystroke ==
  {Chord(k, {}) : k \in {"0", "n", "p", "l", "w", "o", "x", "Escape"}}
  \cup {MCPrefix, Chord("Escape", {"ctrl"}), Chord("?", {"alt"})}
=============================================================================
