\* Two panes, two loads in flight, three subscriptions, one error answer.
SPECIFICATION FairSpec
CONSTANTS
  Pane = {p1, p2}
  Load = {l1, l2}
  Sub = {s1, s2, s3}
  MaxVersion = 1
  MaxFailures = 1
INVARIANTS
  ScreenIsOfView
  LiveMeansFed
PROPERTIES
  ViewSettles
CHECK_DEADLOCK FALSE
