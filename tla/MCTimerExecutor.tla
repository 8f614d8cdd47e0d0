-------------------------- MODULE MCTimerExecutor ---------------------------
(* The two tasks of main(), with two timers and one, and a third task. *)
EXTENDS TimerExecutor

CONSTANTS t1, t2, t3

TimersOf == [t \in Tasks |-> IF t = t2 THEN 1 ELSE 2]
=============================================================================
