SPECIFICATION Spec
CONSTANTS
  Char = {"a", " ", "q", "n", "<", ">", "&", "|", "ff"}
  MaxInput = 6
CHECK_DEADLOCK FALSE
INVARIANTS TypeOK WholeLines ParsesRight
PROPERTY Advances
