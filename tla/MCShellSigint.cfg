SPECIFICATION Spec
CONSTANTS
  MaxProcesses = 3
  MaxSigints = 1
CHECK_DEADLOCK FALSE
PROPERTY SigintReachesAll
