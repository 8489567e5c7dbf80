\* Up to four overlapping attempts, any number of outages.
SPECIFICATION FairSpec
CONSTANTS
  Attempt = {a1, a2, a3, a4}
  MaxChains = 4
INVARIANTS
  SomebodyRetries
PROPERTIES
  LinkRecovers
CHECK_DEADLOCK FALSE
