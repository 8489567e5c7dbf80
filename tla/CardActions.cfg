SPECIFICATION CardsSpec
CONSTANTS
  Request = {1, 2}
  MaxSockets = 2
  NoAnswer = NoAnswer
  Pane = {p1, p2}
  View = {v1}
  Virtualized = FALSE
  Menu = {"move", "split", "overflow"}
  Outcome = {"done", "HostUnavailableError", "Error"}
  None = None
INVARIANTS
  PromisesCanSettle
  ActionsEndWithTheirPromises
  LastingNoticesAreTrue
  ActsOnItsOwnCard
CHECK_DEADLOCK FALSE
