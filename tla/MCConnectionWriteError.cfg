SPECIFICATION Spec
CONSTANTS
  m1 = m1  m2 = m2
  Messages = {m1, m2}
  Threads = {}
  ThreadsClose = FALSE
  MessageLen = 2
  Room = 1
  HighWaterMark = 1
  MaxInput = 1
  MaxCalls = 0
  Disposal = FALSE
PROPERTIES OutputLeavesByWire
CHECK_DEADLOCK FALSE
