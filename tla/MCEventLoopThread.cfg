SPECIFICATION ThreadFairSpec
CONSTANTS
  f1 = f1  f2 = f2
  owner = owner
  Functors = {f1, f2}
  Threads = {owner}
  Channels = {c1}
  WakeupChannel = wk
  MaxEvents = 1
INVARIANTS ObjectOutlivesThread JoinBlocksOnLostQuit
PROPERTIES StartLoopReturns DestructorReturns
CHECK_DEADLOCK FALSE
