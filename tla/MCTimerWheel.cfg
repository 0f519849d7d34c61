SPECIFICATION Spec
CONSTANTS
  a = a  b = b
  Timers = {a, b}
  Delays <- MCDelays
  secondsPerMinute = 3
  secondsPerHour = 9
  secondsPerDay = 18
  MaxDays = 2
  UintRange = 256
  MaxTick = 12
SYMMETRY MCSymmetry
INVARIANTS TimersConserved NoneOverdue
PROPERTIES RunsOnTime
CHECK_DEADLOCK FALSE
