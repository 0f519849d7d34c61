SPECIFICATION FairSpec
CONSTANTS
  m1 = m1  m2 = m2
  Messages = {m1, m2}
  Threads = {}
  ThreadsClose = FALSE
  MessageLen = 2
  Room = 3
  HighWaterMark = 1
  MaxInput = 2
  MaxCalls = 2
  Disposal = FALSE
INVARIANTS OutputInOrder ChannelInSync NothingDangles ClosesOnce
PROPERTIES PeerCloseDeletes OutputDrains
CHECK_DEADLOCK FALSE
