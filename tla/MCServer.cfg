SPECIFICATION ServerSpec
CONSTANTS
  MaxThreads = 2
  MaxConns = 2
  MaxCloses = 2
  Forced = {1}
  MaxForced = 1
  Descriptors = 3
  MaxArrivals = 3
  Others = FALSE
INVARIANTS SpareKept MapTracksOpen EstablishedFirst NoUseAfterDisposal
PROPERTIES NotDestroyedInHandler BacklogServed ClosedFreesDescriptor
CHECK_DEADLOCK FALSE
