CONSTANTS
  Terminal = {p1, p2}
  Project = {"local", "remote"}
  Path <- MCPath
  Root = ""
  Above <- MCAbove
  Refused = {}
  TreeMax = 2
  StatusMax = 2
  Claims <- MCClaims
  Checkouts <- MCCheckouts
  MaxCalls = 3
SYMMETRY TerminalSymmetry
SPECIFICATION PanelSpec
INVARIANTS
  ViewerShowsSelected
  FirstReadsEnd
PROPERTIES
  OpenIsRead
