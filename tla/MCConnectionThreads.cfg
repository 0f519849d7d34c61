SPECIFICATION Spec
CONSTANTS
  m1 = m1  m2 = m2
  Messages = {m1, m2}
  Threads = {t1}
  ThreadsClose = TRUE
  MessageLen = 2
  Room = 2
  HighWaterMark = 1
  MaxInput = 1
  MaxCalls = 1
  Disposal = TRUE
INVARIANTS OutputInOrderWhileOpen
CHECK_DEADLOCK FALSE
