SPECIFICATION FairSpec
CONSTANTS
  MaxProcesses = 4
  MaxSigints = 1
CHECK_DEADLOCK FALSE
INVARIANTS TypeOK LeftToRight StopsAfterSigint ReportsTrue
PROPERTIES AllReaped LineEnds
