SPECIFICATION Spec
CONSTANTS
  Clients = {c1, c2, c3}
  Fds = {4, 5}
  Chunk = {"line"}
  Listen = Listen
  None = None
  MaxEvents = 2
  Recv = 1
  SendBuf = 3
  MaxSend = 1
SYMMETRY ClientSymmetry
CHECK_DEADLOCK FALSE
INVARIANTS TypeOK EventsStayGood LogTellsUsers InboxInOrder
