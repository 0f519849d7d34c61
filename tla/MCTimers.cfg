SPECIFICATION FairSpec
CONSTANTS
  Fds <- MCFds
  MaxTimers = 3
  Delays <- MCDelays
  Waits <- MCWaits
  MicrosPerMilli = 2
  IntMax = 3
INVARIANTS IdsNameTheirTimers
PROPERTIES TimersRun
CHECK_DEADLOCK FALSE
