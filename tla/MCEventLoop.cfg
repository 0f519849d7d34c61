SPECIFICATION FairSpec
CONSTANTS
  f1 = f1  f2 = f2
  Functors = {f1, f2}
  Threads = {t1, t2}
  Channels = {c1, c2}
  WakeupChannel = wk
  MaxEvents = 2
INVARIANTS NoLostWakeup NoLostQuit
PROPERTIES ImplementsFunctorQueue FunctorsEventuallyRun QuitStopsLoop NoStarvation
CHECK_DEADLOCK FALSE
