---------------------------- MODULE MCTimerQueue ----------------------------
(* A timer that repeats every two ticks and two one-shot timers.           *)
EXTENDS TimerQueue

MCInterval == [t \in Timers |-> IF t = 1 THEN 2 ELSE 0]
=============================================================================
