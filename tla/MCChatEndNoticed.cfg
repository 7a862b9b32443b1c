SPECIFICATION FairSpec
CONSTANTS
  Clients = {c1, c2}
  Chunk = {"line", "part"}
  Fds = {4, 5}
  Listen = Listen
  None = None
  MaxEvents = 2
  Recv = 2
  SendBuf = 4
  MaxSend = 2
CHECK_DEADLOCK FALSE
PROPERTY EndNoticed
