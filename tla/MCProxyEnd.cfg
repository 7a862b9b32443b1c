SPECIFICATION Spec
CONSTANTS
  Room = 2
  MaxSend = 3
CHECK_DEADLOCK FALSE
INVARIANT AllBeforeEnd
