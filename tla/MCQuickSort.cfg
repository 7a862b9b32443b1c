SPECIFICATION FairSpec
CONSTANTS
  Size = 6
  Value = {1, 2, 3}
  Threshold = 3
CHECK_DEADLOCK FALSE
INVARIANTS TypeOK InBounds NoRace
PROPERTIES ImplementsSorting Terminates
