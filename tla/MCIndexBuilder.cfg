SPECIFICATION Spec
CONSTANTS
  MaxParts = 3
  DocId = {1, 2}
  Word <- MCWord
  MaxDocs = 3
  MaxWords = 2
CHECK_DEADLOCK FALSE
INVARIANTS TypeOK AllRead InStep ListsApart IndexRight
