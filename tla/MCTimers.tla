------------------------------ MODULE MCTimers ------------------------------
(* The timers, for TLC. *)
EXTENDS Timers, TLC

TimerSymmetry == Permutations(Timer)
=============================================================================
