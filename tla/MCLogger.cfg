SPECIFICATION FairSpec
CONSTANTS
  m1 = m1  m2 = m2
  t1 = t1  t2 = t2
  Main = Main  NoItem = NoItem
  Messages = {m1, m2}
  Threads = {t1, t2}
  Capacity = 1
  MaxLoggers = 2
INVARIANTS ShutdownDrains
PROPERTIES LogsInOrder LoggedIsWritten
CHECK_DEADLOCK FALSE
