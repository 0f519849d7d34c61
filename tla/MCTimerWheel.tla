---------------------------- MODULE MCTimerWheel ----------------------------
(* Small instances of TimerWheel for TLC: a minute of 3 seconds, an hour of *)
(* 3 minutes, a day of 2 hours and 2 days.                                  *)
EXTENDS TimerWheel

CONSTANTS a, b

MCSymmetry == Permutations({a, b})

\* Below, at and above every border of insertNode, and not convertible.
MCDelays == {-1, 0, 1, 2, 3, 5, 6, 8, 9, 20, 54}

\* From half an hour to the maximum.
MCLongDelays == {8, 9, 11, 18, 36}
=============================================================================
