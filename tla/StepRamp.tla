------------------------------ MODULE StepRamp ------------------------------
(***************************************************************************)
(* The speed ramp of one axis: the arithmetic by which hm_step_motor_move, *)
(* hm_step_motor_start_run and hm_step_motor_stop_smooth set up, and       *)
(* hm_dma_update generates, the delay of every step.  StepMotor has the    *)
(* buffers, the interrupts and the positions; here a buffer is only the    *)
(* number of steps it still takes, because commands reach the ramp between *)
(* two calls of hm_dma_update and never inside one.                        *)
(*                                                                         *)
(* Delays are uint16_t and wrap.  The int32_t numerators and denominators  *)
(* do not wrap for the requests of the runs: TLC's own integers have the   *)
(* same width, and TLC stops on an overflow.                               *)
(***************************************************************************)
EXTENDS RampShape

CONSTANTS
  HM_DMA_BUF_SIZE, \* steps in one DMA buffer
  StopSteps,       \* steps of a smooth stop (acount)
  Drives,          \* accel and speed of the requests
  Lengths,         \* steps of the fixed moves
  Methods,         \* curves in use: a subset of {"TCurve", "sCurve"}
  CurveWhileBusy,  \* the host may change the curve of a running axis
  StopWhileDecel   \* a smooth stop may come when the ramp is in rsDECEL or
                   \* rsSTOP already

HM_INVALID_STEP == -1
Word16 == 0 .. 65535

(* Below 213 the first delay does not fit its 16 bits; from there the      *)
(* double arithmetic of the code and the integer one here agree.           *)
ASSUME DriveAssumption ==
  \A d \in Drives : /\ d.accel \in Nat /\ 213 <= d.accel /\ d.accel <= 200000
                    /\ d.speed \in Nat /\ 1 <= d.speed /\ d.speed <= 4000
ASSUME LengthAssumption == Lengths \subseteq Nat \ {0}
ASSUME SizeAssumption == HM_DMA_BUF_SIZE > 1 /\ StopSteps > 1
ASSUME MethodAssumption ==
  Methods \subseteq {"TCurve", "sCurve"} /\ {StopWhileDecel, CurveWhileBusy} \subseteq BOOLEAN

VARIABLES
  ramp,   \* the ramp part of s_axis_info[axis]
  busy,   \* the axis is running
  todo,   \* buffers the handler at work still has to fill
  len,    \* steps in the buffer it is filling
  hung,   \* in one of the while(1) of hm_dma_update
  from    \* history: delay of the first step, or when a smooth stop came

vars == <<ramp, busy, todo, len, hung, from>>

RunState == {"rsSTOP", "rsACCEL", "rsRUN", "rsDECEL"}

Ramp ==
  [run_state: RunState, method: {"TCurve", "sCurve"}, bstopping: BOOLEAN,
   n2: Nat, steps_request: Nat \cup {HM_INVALID_STEP}, steps_taken: Nat,
   decel_start: Nat \cup {HM_INVALID_STEP}, decel_val: Int,
   accel_count: Int, rest: Int,
   last_accel_delay: Word16, min_delay: Word16, step_delay: Word16]

Init ==
  /\ ramp = [run_state |-> "rsSTOP", method |-> "TCurve", bstopping |-> FALSE,
             n2 |-> 0, steps_request |-> 0, steps_taken |-> 0,
             decel_start |-> 0, decel_val |-> 0, accel_count |-> 0, rest |-> 0,
             last_accel_delay |-> 0, min_delay |-> 0, step_delay |-> 0]
  /\ busy = FALSE
  /\ todo = 0
  /\ len = 0
  /\ hung = FALSE
  /\ from = 0

-----------------------------------------------------------------------------
(* C arithmetic.                                                           *)

Abs(n) == IF n < 0 THEN -n ELSE n

(* Division truncates towards zero; by zero it is 0 on this CPU, with the  *)
(* divide-by-zero trap left disabled.                                      *)
CDiv(a, b) ==
  IF b = 0 THEN 0
  ELSE LET q == Abs(a) \div Abs(b) IN IF (a < 0) = (b < 0) THEN q ELSE -q
CMod(a, b) == a - b * CDiv(a, b)

UInt16(n) == n % 65536

(* The last line of mysqrt.                                                *)
SqrtRound(s) == IF s.xr < s.x THEN s.xr + 1 ELSE s.xr

(* Mutant: the scan ends one bit early.                                    *)
mysqrt_short(x) ==
  LET round[i \in -1 .. 14] ==
        IF i = -1 THEN [x |-> x, xr |-> 0]
        ELSE LET s  == round[i - 1]
                 q2 == 4 ^ (15 - i)
             IN IF s.xr + q2 <= s.x
                THEN [x |-> s.x - (s.xr + q2), xr |-> s.xr \div 2 + q2]
                ELSE [s EXCEPT !.xr = @ \div 2]
  IN SqrtRound(round[14])

(* mysqrt: one result bit per round, q2 = 4^15 .. 4^0.                     *)
mysqrt(x) ==
  LET round[i \in -1 .. 15] ==
        IF i = -1 THEN [x |-> x, xr |-> 0]
        ELSE LET s  == round[i - 1]
                 q2 == 4 ^ (15 - i)
             IN IF s.xr + q2 <= s.x
                THEN [x |-> s.x - (s.xr + q2), xr |-> s.xr \div 2 + q2]
                ELSE [s EXCEPT !.xr = @ \div 2]
  IN SqrtRound(round[15])

tim_base_fre(speed) == IF speed <= 15 THEN 10000 ELSE 1000000

-----------------------------------------------------------------------------
(* Setting up a ramp.                                                      *)

FirstDelay(d) ==
  UInt16(((tim_base_fre(d.speed) \div 10000) * 676 * mysqrt(200000000 \div d.accel))
           \div 1000)

(* Steps to full speed; the factor of the S-curve is 125 / 92.             *)
MaxSLim(r, d) ==
  IF r.method = "sCurve" THEN (125 * d.speed * d.speed) \div (92 * d.accel)
  ELSE ((d.speed \div 2) * d.speed) \div d.accel

AtLeastOne(n) == IF n = 0 THEN 1 ELSE n

(* What a move and a free run share: limits, first delay, first state.     *)
SetUp(r, d) ==
  LET min == UInt16(tim_base_fre(d.speed) \div d.speed)
      c0  == FirstDelay(d)
  IN [r EXCEPT !.bstopping = FALSE, !.rest = 0,
               !.n2 = MaxSLim(r, d), !.min_delay = min,
               !.step_delay = IF c0 <= min THEN min ELSE c0,
               !.run_state = IF c0 <= min THEN "rsRUN" ELSE "rsACCEL",
               !.accel_count = 0, !.steps_taken = 1]

Starting == ~hung /\ ~busy

(* hm_step_motor_move.  One step has its own delay and is not generated.   *)
Move(n, d) ==
  LET val == DecelVal(n, AtLeastOne(MaxSLim(ramp, d))) IN
  /\ Starting
  /\ ramp' = IF n = 1
             THEN [ramp EXCEPT !.bstopping = FALSE, !.rest = 0,
                               !.steps_request = 1, !.steps_taken = 1,
                               !.accel_count = -1, !.run_state = "rsDECEL",
                               !.step_delay = 1000]
             ELSE [SetUp(ramp, d) EXCEPT
                     !.steps_request = n, !.decel_val = val,
                     !.decel_start = n + val]
  /\ from' = ramp'.step_delay
  /\ busy' = TRUE
  /\ todo' = IF n = 1 THEN 0 ELSE 2
  /\ len' = 1
  /\ UNCHANGED hung

(* hm_step_motor_start_run.                                                *)
StartRun(d) ==
  /\ Starting
  /\ ramp' = [SetUp(ramp, d) EXCEPT
                !.steps_request = HM_INVALID_STEP,
                !.decel_start = HM_INVALID_STEP]
  /\ from' = ramp'.step_delay
  /\ busy' = TRUE
  /\ todo' = 2
  /\ len' = 1
  /\ UNCHANGED hung

(* hmCmdGetAxisSetting -> hm_motor_set_stop_mode writes the method without *)
(* looking whether the axis runs.                                          *)
SetCurve(method) ==
  /\ ~hung /\ todo = 0
  /\ CurveWhileBusy \/ ~busy
  /\ ramp' = [ramp EXCEPT !.method = method]
  /\ UNCHANGED <<busy, todo, len, hung, from>>

-----------------------------------------------------------------------------
(* One iteration of the loop of hm_dma_update.                             *)

(* The delay after r.step_delay, with div1 / div2 of it taken off.         *)
Divided(r, div1, div2) ==
  [r EXCEPT !.step_delay = UInt16(@ - CDiv(div1, div2)),
            !.rest = CMod(div1, div2)]

TDivided(r) == Divided(r, 2 * r.step_delay + r.rest, 4 * r.accel_count + 1)

AccelDelay(r) ==
  LET s == IF r.method = "sCurve" /\ r.accel_count \in {r.n2, r.n2 + 1}
           THEN [r EXCEPT !.rest = 0] ELSE r
  IN IF s.method = "sCurve" /\ s.n2 > s.accel_count
     THEN Divided(s, 2 * s.step_delay * (s.n2 - s.accel_count) + s.rest,
                     (4 * s.accel_count + 1) * s.n2)
     ELSE TDivided(s)

(* Mutant: the count is taken as positive.                                 *)
DecelDelay_sign(r) ==
  IF r.method = "sCurve"
  THEN Divided(r, 2 * r.step_delay * (r.n2 + r.accel_count) + r.rest,
                  (1 - 4 * r.accel_count) * r.n2)
  ELSE Divided(r, 2 * r.step_delay + r.rest, 1 - 4 * r.accel_count)

DecelDelay(r) ==
  IF r.method = "sCurve"
  THEN Divided(r, 2 * r.step_delay * (r.n2 + r.accel_count) + r.rest,
                  (4 * r.accel_count + 1) * r.n2)
  ELSE TDivided(r)

(* Mutant: compared before the step is counted.                            *)
DecelDue_late(r) ==
  r.decel_start # HM_INVALID_STEP /\ r.steps_taken > r.decel_start

DecelDue(r) ==
  r.decel_start # HM_INVALID_STEP /\ r.steps_taken >= r.decel_start

StartDecel(r) == [r EXCEPT !.accel_count = r.decel_val, !.run_state = "rsDECEL"]

(* Mutant: full speed is not noticed, the ramp goes on.                    *)
Accelerated_nolimit(r0) ==
  LET r == AccelDelay([r0 EXCEPT !.accel_count = @ + 1])
  IN IF DecelDue(r) THEN StartDecel(r) ELSE r

Accelerated(r0) ==
  LET r == AccelDelay([r0 EXCEPT !.accel_count = @ + 1])
  IN IF DecelDue(r) THEN StartDecel(r)
     ELSE IF r.step_delay <= r.min_delay
     THEN [r EXCEPT !.last_accel_delay = r.step_delay,
                    !.step_delay = r.min_delay, !.rest = 0,
                    !.run_state = "rsRUN"]
     ELSE r

(* At full speed.                                                          *)
Cruised(r) ==
  IF DecelDue(r)
  THEN [StartDecel(r) EXCEPT !.step_delay = r.last_accel_delay]
  ELSE [r EXCEPT !.step_delay = r.min_delay]

Decelerated(r0) ==
  LET r == DecelDelay([r0 EXCEPT !.accel_count = @ + 1])
  IN IF r.accel_count >= 0 THEN [r EXCEPT !.run_state = "rsSTOP"] ELSE r

Wanted(r) ==
  r.steps_request = HM_INVALID_STEP \/ r.steps_taken < r.steps_request

Stepped(r) ==
  LET c == IF r.steps_request = HM_INVALID_STEP THEN r
           ELSE [r EXCEPT !.steps_taken = @ + 1]
  IN CASE c.run_state = "rsACCEL" -> Accelerated(c)
       [] c.run_state = "rsRUN"   -> Cruised(c)
       [] c.run_state = "rsDECEL" -> Decelerated(c)
       [] c.run_state = "rsSTOP"  -> c

(* A step asked of a stopped ramp, or a delay of 0 or 1, is a while(1).    *)
Generate ==
  /\ ~hung /\ todo > 0 /\ len < HM_DMA_BUF_SIZE /\ Wanted(ramp)
  /\ ramp' = Stepped(ramp)
  /\ len' = len + 1
  /\ hung' = (ramp.run_state = "rsSTOP" \/ ramp'.step_delay \in {0, 1})
  /\ UNCHANGED <<busy, todo, from>>

(* hm_dma_update returns; a start goes on to the second buffer unless the  *)
(* ramp stopped in the first.                                              *)
Filled ==
  /\ ~hung /\ todo > 0 /\ (len = HM_DMA_BUF_SIZE \/ ~Wanted(ramp))
  /\ todo' = IF ramp.run_state = "rsSTOP" THEN 0 ELSE todo - 1
  /\ len' = 0
  /\ UNCHANGED <<ramp, busy, hung, from>>

(* hm_dma_fill_next_buf, when a buffer was played.                         *)
Refill ==
  /\ ~hung /\ busy /\ todo = 0 /\ Wanted(ramp)
  /\ todo' = 1
  /\ len' = 0
  /\ UNCHANGED <<ramp, busy, hung, from>>

-----------------------------------------------------------------------------
(* Stops.                                                                  *)

(* Mutant: the deceleration is half as long as the request.                *)
SlowDown_short(r) ==
  [r EXCEPT !.bstopping = TRUE, !.rest = 0, !.steps_request = StopSteps,
            !.steps_taken = 0, !.run_state = "rsDECEL",
            !.accel_count = -(StopSteps \div 2)]

(* hm_step_motor_stop_smooth, what it does to the ramp.                    *)
SlowDown(r) ==
  [r EXCEPT !.bstopping = TRUE, !.rest = 0, !.steps_request = StopSteps,
            !.steps_taken = 0, !.run_state = "rsDECEL",
            !.accel_count = -StopSteps]

StopSmooth ==
  /\ ~hung /\ busy /\ todo = 0 /\ ~ramp.bstopping
  /\ StopWhileDecel \/ ramp.run_state \in {"rsACCEL", "rsRUN"}
  /\ ramp' = SlowDown(ramp)
  /\ from' = ramp.step_delay
  /\ UNCHANGED <<busy, todo, len, hung>>

(* The axis stops, all steps sent or by a sudden stop: nothing of the ramp *)
(* changes.                                                                *)
AxisStops ==
  /\ ~hung /\ busy /\ todo = 0
  /\ busy' = FALSE
  /\ UNCHANGED <<ramp, todo, len, hung, from>>

Next ==
  \/ \E n \in Lengths, d \in Drives : Move(n, d)
  \/ \E d \in Drives : StartRun(d)
  \/ \E m \in Methods : SetCurve(m)
  \/ Generate
  \/ Filled
  \/ Refill
  \/ StopSmooth
  \/ AxisStops

Spec == Init /\ [][Next]_vars

-----------------------------------------------------------------------------
(* Properties.                                                             *)

TypeOK ==
  /\ ramp \in Ramp
  /\ busy \in BOOLEAN /\ hung \in BOOLEAN
  /\ todo \in 0 .. 2
  /\ len \in 0 .. HM_DMA_BUF_SIZE
  /\ from \in Word16

(* The ramp is never asked for a step after it stopped, and never produces *)
(* a delay of 0 or 1: neither while(1) of hm_dma_update is entered.        *)
NoTrap == ~hung

(* A fixed move of more than one step that nobody stops: the loop reaches  *)
(* rsSTOP exactly at the step the closed form StopAt gives, which is what  *)
(* StepMotor and its proofs use for the ramp.                              *)
StopsWhereExpected ==
  busy /\ ~ramp.bstopping /\ ramp.steps_request > 1 =>
    (ramp.run_state = "rsSTOP" <=>
       ramp.steps_taken >= StopAt(ramp.steps_request, AtLeastOne(ramp.n2)))

(* The axis does not exceed the speed asked for by more than a fraction of *)
(* a step's rounding, 2/3 here: also not in the first step of deceleration, *)
(* which reuses last_accel_delay of this move's acceleration.              *)
SpeedLimit ==
  busy /\ ramp.steps_request # 1 /\ ramp.run_state # "rsSTOP" =>
    5 * ramp.step_delay >= 3 * ramp.min_delay

(* The axis speeds up, cruises, slows down: a step generated in rsACCEL or *)
(* rsRUN is not slower than the one before, a step generated in rsDECEL    *)
(* not faster, except the very last, which is not played.                  *)
OneHill ==
  [][Generate =>
       CASE ramp.run_state \in {"rsACCEL", "rsRUN"} ->
              ramp'.step_delay <= ramp.step_delay
         [] ramp.run_state = "rsDECEL" ->
              ramp'.run_state = "rsSTOP" \/ ramp'.step_delay >= ramp.step_delay
         [] OTHER -> TRUE]_vars

(* Deceleration comes down to where acceleration began: the last step of a *)
(* move but one is as slow as its first was, within a fifth, and that of a *)
(* smooth stop ten times slower than the axis was when it came.            *)
EndsSlow ==
  busy /\ ramp.run_state = "rsDECEL" /\ ramp.accel_count = -1
    /\ ramp.steps_request > 2 =>
      IF ramp.bstopping THEN ramp.step_delay >= 10 * from
      ELSE 5 * ramp.step_delay >= 4 * from

(* An axis reaches the speed asked for when the set-up says it will, after *)
(* max_s_lim steps, within two steps and 1/64: the first delay (mysqrt,    *)
(* the timer frequency), the limit and the recurrence of either curve fit  *)
(* each other, which the point where deceleration starts relies on.        *)
FullSpeedOnTime ==
  busy /\ ramp.run_state = "rsRUN" =>
    ramp.accel_count \in ramp.n2 - 2 .. ramp.n2 + ramp.n2 \div 64 + 2

-----------------------------------------------------------------------------
(* The inductive invariant of StopsWhereExpected: the counters decide      *)
(* where a move stops, whatever the delays are.                            *)

(* The ramp has its fields, whatever the delays in them are.               *)
Whole(r) ==
  r = [run_state |-> r.run_state, method |-> r.method, bstopping |-> r.bstopping,
       n2 |-> r.n2, steps_request |-> r.steps_request, steps_taken |-> r.steps_taken,
       decel_start |-> r.decel_start, decel_val |-> r.decel_val,
       accel_count |-> r.accel_count, rest |-> r.rest,
       last_accel_delay |-> r.last_accel_delay, min_delay |-> r.min_delay,
       step_delay |-> r.step_delay]

(* The step of a move of n steps with which deceleration starts.           *)
TurnsAt(n, max_s_lim) ==
  IF n + DecelVal(n, max_s_lim) < 2 THEN 2 ELSE n + DecelVal(n, max_s_lim)

(* What the set-up of a move has fixed, and how far each state has got.    *)
InvMove(r) ==
  LET lim   == AtLeastOne(r.n2)
      n     == r.steps_request
      turns == TurnsAt(n, lim)
  IN /\ n \in Nat /\ lim \in Nat \ {0} /\ r.steps_taken \in Nat \ {0}
     /\ r.decel_val = DecelVal(n, lim) /\ r.decel_start = n + r.decel_val
     /\ r.run_state \in {"rsACCEL", "rsRUN"} => r.steps_taken < turns
     /\ r.run_state = "rsDECEL" =>
          /\ r.steps_taken >= turns
          /\ r.accel_count = r.decel_val + (r.steps_taken - turns)
          /\ r.accel_count < 0
     /\ r.run_state = "rsSTOP" => r.steps_taken >= StopAt(n, lim)

IndInv ==
  /\ Whole(ramp)
  /\ ramp.run_state \in RunState
  /\ busy /\ ~ramp.bstopping /\ ramp.steps_request > 1 => InvMove(ramp)
=============================================================================
