SPECIFICATION StripSpec
CONSTANTS
  StatusOrder <- MCStatusOrder
  working = working
  idle = idle
  MaxParked = 3
  Band = {b1}
  Grouped = FALSE
INVARIANTS
  PageIsDrawn
PROPERTIES
  RowChangesKeepThePage
  DropsLandWhereDrawn
  ChoiceIsReached
