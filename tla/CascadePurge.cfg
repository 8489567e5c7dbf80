SPECIFICATION Spec
CONSTANTS
  w1 = w1
  w2 = w2
  t1 = t1
  t2 = t2
  t3 = t3
  Workspace = {w1, w2}
  Tab = {t1, t2, t3}
  Pane = {p1, p2}
  Home <- MCHome
  MaxOps = 3
  MaxPushes = 2
INVARIANTS
  OpenIsShown
  TrackedIsPlaced
PROPERTIES
  OnlyMovesLoseCards
  MovesKeepAge
SYMMETRY Symmetry
