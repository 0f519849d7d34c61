SPECIFICATION FairSpec
CONSTANTS
  Fds <- MCFds
  MaxCalls = 3
INVARIANTS OneAttempt EverySocketOwned StopIsFinal
INVARIANTS OnlyResetIsLeft
PROPERTIES KeepsTrying
CHECK_DEADLOCK FALSE
