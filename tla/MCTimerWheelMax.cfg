SPECIFICATION Spec
CONSTANTS
  a = a  b = b
  Timers = {a}
  Delays <- MCLongDelays
  secondsPerMinute = 3
  secondsPerHour = 9
  secondsPerDay = 18
  MaxDays = 2
  UintRange = 256
  MaxTick = 40
INVARIANTS MaximumIntervalServed
CHECK_DEADLOCK FALSE
