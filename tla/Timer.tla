------------------------------- MODULE Timer -------------------------------
(***************************************************************************)
(* Calibration and delays of the timer (devices/timer.c).  A behaviour is  *)
(* one run of timer_calibrate() on a machine that does TrueLoops loops in  *)
(* a tick.                                                                 *)
(***************************************************************************)
EXTENDS Integers

CONSTANTS
  Speeds,       \* values of TrueLoops
  TIMER_FREQ

VARIABLES TrueLoops, loops_per_tick, high_bit, test_bit, pc

vars == <<TrueLoops, loops_per_tick, high_bit, test_bit, pc>>

-----------------------------------------------------------------------------
(* LOOPS iterations take longer than a tick.                               *)
too_many_loops(loops) == loops > TrueLoops

(* loops_per_tick never leaves its range, and the calibration is at a      *)
(* known step.                                                             *)
TypeOK ==
  /\ TrueLoops \in Speeds /\ loops_per_tick \in 1 .. 2 ^ 30 /\ test_bit \in 0 .. 2 ^ 30
  /\ pc \in {"double", "refine", "done"}

Init ==
  /\ TrueLoops \in Speeds
  /\ loops_per_tick = 1024 /\ high_bit = 0 /\ test_bit = 0 /\ pc = "double"

(* The first loop of timer_calibrate().                                    *)
Double ==
  /\ pc = "double"
  /\ IF too_many_loops(loops_per_tick * 2)
     THEN /\ high_bit' = loops_per_tick /\ test_bit' = loops_per_tick \div 2 /\ pc' = "refine"
          /\ UNCHANGED loops_per_tick
     ELSE loops_per_tick' = loops_per_tick * 2 /\ UNCHANGED <<high_bit, test_bit, pc>>
  /\ UNCHANGED TrueLoops

(* The second loop tests each bit together with high_bit alone.            *)
Refine ==
  /\ pc = "refine"
  /\ IF test_bit = high_bit \div 1024
     THEN pc' = "done" /\ UNCHANGED <<loops_per_tick, test_bit>>
     ELSE /\ loops_per_tick' = IF too_many_loops(high_bit + test_bit) THEN loops_per_tick
                               ELSE loops_per_tick + test_bit
          /\ test_bit' = test_bit \div 2 /\ UNCHANGED pc
  /\ UNCHANGED <<TrueLoops, high_bit>>

Next == Double \/ Refine

Spec == Init /\ [][Next]_vars

-----------------------------------------------------------------------------
(* The iterations real_time_delay() waits for num / denom seconds.         *)
real_time_delay(num, denom) ==
  (((loops_per_tick * num) \div 1000) * TIMER_FREQ) \div (denom \div 1000)

(* The whole ticks real_time_sleep() sleeps for num / denom seconds; it    *)
(* delays when there are none.                                             *)
real_time_sleep(num, denom) == (num * TIMER_FREQ) \div denom

-----------------------------------------------------------------------------
(* Calibration ends within a factor of two of the speed of a machine that  *)
(* does at least 1024 loops in a tick.                                     *)
WithinFactorTwo == pc = "done" => loops_per_tick < 2 * TrueLoops /\ TrueLoops < 2 * loops_per_tick

(* A delay is never longer than asked for, in loops, and shorter only by   *)
(* the rounding of one step of the formula; one that real_time_sleep()     *)
(* leaves to it is shorter than a tick.                                    *)
DelayRight ==
  pc = "done" => \A num \in {0, 1, 9, 10, 400, 999}, denom \in {1000, 1000000, 1000000000} :
    real_time_sleep(num, denom) = 0 =>
      LET exact == (loops_per_tick * num * TIMER_FREQ) \div denom
          loops == real_time_delay(num, denom)
      IN  /\ loops <= exact /\ exact - loops <= TIMER_FREQ \div (denom \div 1000) + 1
          /\ loops <= loops_per_tick
=============================================================================
