SPECIFICATION FairSpec
CONSTANTS
  Pane = {p1}
  Board = {b1}
  Status = {idle, working}
  Poll = {q1, q2}
  Attempt = {a1, a2}
  MaxChains = 2
  MaxInFlight = 2
PROPERTIES
  GhostsAreSwept
  NoLiveCardDropped
  BridgeCatchesUp
  NewPanesAppear
