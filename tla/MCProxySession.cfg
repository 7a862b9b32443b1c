SPECIFICATION FairSpec
CONSTANTS
  Room = 2
  MaxSend = 3
CHECK_DEADLOCK FALSE
INVARIANTS TypeOK InTransit
PROPERTIES ImplementsStreams SessionEnds HalfOpenFlows
