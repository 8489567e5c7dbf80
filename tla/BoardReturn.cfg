SPECIFICATION FairReturnSpec
CONSTANTS
  Home = home
  Scoped = {w1, w2}
  Shape <- MCShape
  Status = {s1, s2}
  Parked = {k1}
  CardId = {c1, c2}
  Nothing = Nothing
INVARIANTS
  BackLeadsToTheBoardLeft
PROPERTIES
  FocusIsReturned
  RestoreEnds
