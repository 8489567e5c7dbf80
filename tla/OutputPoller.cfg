\* Two browsers, two subscriptions and two poll entries of one key; the pane's
\* text moves under an unmoved revision, then the revision under an unmoved text.
SPECIFICATION FairSpec
CONSTANTS
  Conn = {c1, c2}
  Key = {k1}
  MaxSubs = 2
  MaxLoops = 2
  MaxVersion = 2
  ContentOf <- MCContentOf
  RevisionOf <- MCRevisionOf
  Deltable <- MCDeltable
INVARIANTS
  NoGarbledScreen
PROPERTIES
  ImplementsFeed
  PrimedCatchUp
CHECK_DEADLOCK FALSE
