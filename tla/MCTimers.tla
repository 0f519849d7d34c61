------------------------------ MODULE MCTimers ------------------------------
(* A small instance of Timers for TLC: three timers on two descriptors, so  *)
(* that numbers are given again; an int of three bits, and waits around the *)
(* borders of a millisecond and of the int.                                 *)
EXTENDS Timers

MCFds == 1 .. 2
MCDelays == {0, 2}
MCWaits == {-3, 1, 2, 5, 8}
=============================================================================
