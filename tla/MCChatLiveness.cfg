SPECIFICATION FairSpec
CONSTANTS
  Clients = {c1, c2}
  Chunk = {"line"}
  Fds = {4, 5}
  Listen = Listen
  None = None
  MaxEvents = 1
  Recv = 1
  SendBuf = 4
  MaxSend = 2
CHECK_DEADLOCK FALSE
PROPERTIES ConnectionAccepted ChunksRelayed
