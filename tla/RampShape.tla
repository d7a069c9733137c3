----------------------------- MODULE RampShape ------------------------------
(***************************************************************************)
(* Where the speed ramp of a fixed move turns and ends, in closed form.    *)
(* StepMotor uses it in place of the ramp; StepRamp generates the ramp     *)
(* step by step and checks that it ends there.                             *)
(***************************************************************************)
EXTENDS Integers

(* decel_val of a move of n > 1 steps that reaches full speed after        *)
(* max_s_lim steps: minus the number of steps spent in deceleration.       *)
DecelVal(n, max_s_lim) ==
  LET accel_lim == IF n \div 2 = 0 THEN 1 ELSE n \div 2
  IN IF accel_lim <= max_s_lim THEN accel_lim - n ELSE -max_s_lim

(* The number of steps after which the ramp is in rsSTOP: deceleration     *)
(* starts at decel_start, not before the second step, and lasts -decel_val *)
(* steps.                                                                  *)
StopAt(n, max_s_lim) ==
  LET decel_val   == DecelVal(n, max_s_lim)
      decel_start == n + decel_val
  IN (IF decel_start < 2 THEN 2 ELSE decel_start) - decel_val
=============================================================================
