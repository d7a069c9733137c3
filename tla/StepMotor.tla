----------------------------- MODULE StepMotor -----------------------------
(***************************************************************************)
(* One axis of the motion controller: the software state kept in          *)
(* s_axis_info[axis] (hm_step_motor.c, hm_step_motor_limit_operation.c),  *)
(* the timer and DMA channel that turn it into step pulses, the limit     *)
(* sensors, and the interrupt handlers and network commands that act on   *)
(* them.  The four axes share code and CPU but no data, so one axis is    *)
(* the whole story for the properties below.                              *)
(*                                                                         *)
(* Granularity: one action per handler.  DMA, EXTI and SysTick handlers    *)
(* have the same preemption priority and never interrupt each other, so   *)
(* they are atomic to one another.  Commands run in the lower priority    *)
(* Ethernet interrupt: one starts only when no DMA or EXTI interrupt is   *)
(* pending.  (A command interrupted half way is a finer model.)           *)
(*                                                                         *)
(* Data: a DMA buffer is the number of steps in it.  The delays of the    *)
(* speed ramp are left out; what is kept of the ramp is the step at which *)
(* it reaches rsSTOP (stop_at); StepRamp has the rest.                    *)
(***************************************************************************)
EXTENDS Integers, RampShape

CONSTANTS
  HM_DMA_BUF_SIZE, \* steps in one DMA buffer (100)
  StopSteps,       \* steps a smooth stop asks for (acount, 100)
  Commands,        \* kinds of command the host sends: a subset of CommandKinds
  FixSteps,        \* arguments of hmCmdFixMove
  RampLimits,      \* steps to full speed (max_s_lim), set by speed and accel
  NewPositions,    \* arguments of hmCmdSetPos
  SettingFlags,    \* flag fields of hmCmdGetAxisSetting requests
  Sensors,         \* the sensors that change in this run
  MaxTravel,       \* bound: farthest position a command or a free run goes to
  LateTravel       \* bound: farthest position a start is followed from once a
                   \* limit handler has stopped the axis too late

CommandKinds ==
  {"fix", "free", "home", "smooth", "sudden", "setpos", "enable", "setting",
   "reset"}

Flags == {"HomeTriger", "StopModeCW", "StopModeCCW", "StopModeHome", "Curve"}

ASSUME BufAssumption == HM_DMA_BUF_SIZE \in Nat \ {0}
ASSUME StopAssumption == StopSteps \in Nat \ {0}
ASSUME CommandAssumption == Commands \subseteq CommandKinds
ASSUME FixAssumption == FixSteps \subseteq Int
ASSUME RampAssumption == RampLimits \subseteq Nat \ {0}
ASSUME PosAssumption == NewPositions \subseteq Int
ASSUME FlagAssumption == SettingFlags \subseteq SUBSET Flags
ASSUME SensorAssumption == Sensors \subseteq {"CW", "CCW", "Home"}
ASSUME TravelAssumption == MaxTravel \in Nat /\ LateTravel \in Nat

VARIABLES
  axis,   \* motion part of s_axis_info[axis]
  cfg,    \* settings part of s_axis_info[axis]
  chan,   \* registers of the axis' timer and DMA channel
  pins,   \* limit and home sensors: TRUE is HM_SENSE_HIT
  exti,   \* sensors whose EXTI line has a pending falling edge
  hung,   \* the CPU is in one of the code's while(1) traps
  fed,    \* history: the true position, counted in steps fed to the timer
  out,    \* history: steps fed since the last start
  late    \* history: a sudden limit stop has left a transfer-complete pending

vars == <<axis, cfg, chan, pins, exti, hung, fed, out, late>>

-----------------------------------------------------------------------------
(* Types.                                                                  *)

HM_INVALID_STEP == -1    \* (uint32_t)-1: counting on from it is mod 2^32
Lines == {"CW", "CCW", "Home"}
Blocks == 0 .. 1         \* HM_DMA_BUF_BLOCK_SZ = 2

DmaBuf == [len: 0 .. HM_DMA_BUF_SIZE, valid: BOOLEAN, first: Nat]

AxisState == {"asPreparing", "asStoped", "asRuning"}

(* stop_at stands for run_state, accel_count, decel_val and decel_start:   *)
(* the number of steps after which the ramp is in rsSTOP.  first and gen   *)
(* are history: the steps generated since the start before this buffer,    *)
(* and in all.                                                             *)
Axis ==
  [axis_state: AxisState, dir: {"rdCW", "rdCCW"}, bdo_home: BOOLEAN,
   bstopping: BOOLEAN, blast_hit_home: BOOLEAN,
   steps_request: Int, steps_taken: Nat, steps_actual: Int, stop_at: Nat,
   pos: Int, dma_buf: [Blocks -> DmaBuf], dma_buf_idx: Blocks, gen: Nat]

Cfg ==
  [benabled: BOOLEAN, bhome_stop_low_triger: BOOLEAN,
   bStopImmediatelyCW: BOOLEAN, bStopImmediatelyCCW: BOOLEAN,
   bStopImmediatelyHome: BOOLEAN, method: {"TCurve", "sCurve"}]

(* tim: counter enabled.  dma: channel enabled.  cndtr: steps still to     *)
(* transfer of the len programmed, from buffer cmar.  ht, tc: half and     *)
(* full transfer flags, each raising the channel's interrupt.  cw: level   *)
(* of the direction pin.                                                   *)
Chan ==
  [tim: BOOLEAN, dma: BOOLEAN, cndtr: Nat, len: Nat, cmar: Blocks,
   ht: BOOLEAN, tc: BOOLEAN, cw: BOOLEAN]

EmptyBuf == [len |-> 0, valid |-> FALSE, first |-> 0]

(* hm_step_motor_init on zeroed static data; every stop mode is sudden.    *)
Init ==
  /\ axis = [axis_state |-> "asStoped", dir |-> "rdCW", bdo_home |-> FALSE,
             bstopping |-> FALSE, blast_hit_home |-> FALSE,
             steps_request |-> 0, steps_taken |-> 0, steps_actual |-> 0,
             stop_at |-> 0, pos |-> 0,
             dma_buf |-> [b \in Blocks |-> EmptyBuf], dma_buf_idx |-> 0,
             gen |-> 0]
  /\ cfg = [benabled |-> TRUE, bhome_stop_low_triger |-> TRUE,
            bStopImmediatelyCW |-> TRUE, bStopImmediatelyCCW |-> TRUE,
            bStopImmediatelyHome |-> TRUE, method |-> "TCurve"]
  /\ chan = [tim |-> FALSE, dma |-> FALSE, cndtr |-> HM_DMA_BUF_SIZE,
             len |-> HM_DMA_BUF_SIZE, cmar |-> 0, ht |-> FALSE, tc |-> FALSE,
             cw |-> FALSE]
  /\ pins = [l \in Lines |-> FALSE]
  /\ exti = {}
  /\ hung = FALSE
  /\ fed = 0
  /\ out = 0
  /\ late = FALSE

-----------------------------------------------------------------------------
(* Helpers on the axis.                                                    *)

(* n steps in direction dir, as pos counts them.                           *)
Signed(dir, n) == IF dir = "rdCW" THEN n ELSE -n

Abs(n) == IF n < 0 THEN -n ELSE n

Cur(a) == a.dma_buf[a.dma_buf_idx]

OtherBlock(a) == 1 - a.dma_buf_idx

(* hm_step_motor_state(axis) == rsSTOP.                                    *)
IsStoped(a) == a.axis_state = "asStoped"

(* hm_step_motor_get_cur_pos: the base of the current buffer plus what the *)
(* DMA counter says of it.                                                 *)
hm_step_motor_get_cur_pos(a, c) ==
  IF IsStoped(a) THEN a.pos
  ELSE a.pos + Signed(a.dir, Cur(a).len - c.cndtr)

(* Mutant: the check against steps_request comes after the step is added.  *)
FillCount_late(a, b) ==
  LET room == HM_DMA_BUF_SIZE - a.dma_buf[b].len
      left == a.steps_request - a.steps_taken
  IN IF a.steps_request = HM_INVALID_STEP THEN room
     ELSE IF left < 0 THEN 0
     ELSE IF left + 1 < room THEN left + 1 ELSE room

(* The steps one call of hm_dma_update adds to a buffer.                   *)
FillCount(a, b) ==
  LET room == HM_DMA_BUF_SIZE - a.dma_buf[b].len
      left == a.steps_request - a.steps_taken
  IN IF a.steps_request = HM_INVALID_STEP THEN room
     ELSE IF left <= 0 THEN 0
     ELSE IF left < room THEN left ELSE room

(* hm_dma_update: fill buffer b with the next steps of the ramp.           *)
hm_dma_update(a, b) ==
  LET n == FillCount(a, b) IN
  [a EXCEPT
     !.dma_buf[b] = [len |-> @.len + n, valid |-> TRUE,
                     first |-> IF @.len = 0 THEN a.gen ELSE @.first],
     !.steps_taken = IF a.steps_request = HM_INVALID_STEP THEN @ ELSE @ + n,
     !.gen = @ + n]

(* run_state = rsSTOP; a step generated past it runs into the while(1) of  *)
(* hm_dma_update.                                                          *)
RampStopped(a) ==
  a.steps_request # HM_INVALID_STEP /\ a.steps_taken >= a.stop_at
RampOverrun(a) ==
  a.steps_request # HM_INVALID_STEP /\ a.steps_taken > a.stop_at

(* Mutant: refill without looking whether the buffer was played.           *)
hm_dma_fill_next_buf_always(a) ==
  LET b == OtherBlock(a) IN
  hm_dma_update([a EXCEPT !.dma_buf[b].len = 0], b)

(* hm_dma_fill_next_buf: refill the buffer not being sent, unless it still *)
(* holds steps.                                                            *)
hm_dma_fill_next_buf(a) ==
  LET b == OtherBlock(a) IN
  IF a.dma_buf[b].valid THEN a
  ELSE hm_dma_update([a EXCEPT !.dma_buf[b].len = 0], b)

(* Mutant: the channel is switched off before count and address are set.   *)
hm_dma_setup_off_first(a, c, benable) ==
  [c EXCEPT !.dma = benable, !.cndtr = Cur(a).len, !.len = Cur(a).len,
            !.cmar = a.dma_buf_idx]

(* hm_dma_setup: program the current buffer.  The count and the address of *)
(* an enabled channel cannot be written: the stores then have no effect.   *)
hm_dma_setup(a, c, benable) ==
  IF c.dma THEN [c EXCEPT !.dma = benable]
  ELSE [c EXCEPT !.dma = benable, !.cndtr = Cur(a).len, !.len = Cur(a).len,
                 !.cmar = a.dma_buf_idx]

(* Mutant: a RUN_STATE_E stored where an AXIS_STATE_E is meant.            *)
MarkStoped_wrong_enum(a) == [a EXCEPT !.axis_state = "rsSTOP"]

(* What hm_tim_start(psrd, false, 0) does to the axis.                     *)
MarkStoped(a) == [a EXCEPT !.axis_state = "asStoped", !.bdo_home = FALSE]

(* Mutant: steps_request is not set, so a free run goes on.                *)
stop_smooth_no_request(a) ==
  IF IsStoped(a) \/ a.bstopping THEN a
  ELSE [a EXCEPT !.bstopping = TRUE, !.steps_taken = 0, !.steps_actual = 0,
                 !.stop_at = StopSteps]

(* hm_step_motor_stop_smooth: ask for StopSteps more steps in DECEL.       *)
hm_step_motor_stop_smooth(a) ==
  IF IsStoped(a) \/ a.bstopping THEN a
  ELSE [a EXCEPT !.bstopping = TRUE, !.steps_request = StopSteps,
                 !.steps_taken = 0, !.steps_actual = 0,
                 !.stop_at = StopSteps]

(* Mutant: the timer is left on.                                           *)
SuddenChan_timer_on(a, c) == hm_dma_setup(a, c, FALSE)

(* hm_step_motor_stop_sundden: switch DMA and timer off, then add what the *)
(* DMA counter says was sent of the current buffer.                        *)
SuddenChan(a, c) == [hm_dma_setup(a, c, FALSE) EXCEPT !.tim = FALSE]
SuddenAxis(a, c) ==
  LET npassed == Cur(a).len - SuddenChan(a, c).cndtr IN
  [MarkStoped(a) EXCEPT !.bstopping = FALSE,
                        !.pos = @ + Signed(a.dir, npassed)]

-----------------------------------------------------------------------------
(* The timer and the DMA channel (hardware).                               *)

(* A timer update event with steps left to transfer: DMA loads the next    *)
(* step into the timer.  Half-transfer is flagged when half of the         *)
(* half-words, rounded up to a step, are sent; transfer-complete with the  *)
(* last.  A free run is only followed for MaxTravel steps, inside          *)
(* MaxTravel.                                                              *)
Tick ==
  LET step == IF chan.cw THEN 1 ELSE -1
      left == chan.cndtr - 1
  IN
  /\ chan.tim /\ chan.dma /\ chan.cndtr > 0
  /\ axis.steps_request = HM_INVALID_STEP =>
       Abs(fed + step) <= MaxTravel /\ out < MaxTravel
  /\ chan' = [chan EXCEPT
                !.cndtr = left,
                !.ht = @ \/ (2 * left <= chan.len /\ 2 * chan.cndtr > chan.len),
                !.tc = @ \/ left = 0]
  /\ fed' = fed + step
  /\ out' = out + 1
  /\ UNCHANGED <<axis, cfg, pins, exti, hung, late>>

(* A sensor opens or closes; closing is a falling edge on its EXTI line.   *)
SensorChange(l) ==
  /\ l \in Sensors
  /\ pins' = [pins EXCEPT ![l] = ~@]
  /\ exti' = IF pins[l] THEN exti ELSE exti \cup {l}
  /\ UNCHANGED <<axis, cfg, chan, hung, fed, out, late>>

-----------------------------------------------------------------------------
(* DMA channel interrupt.                                                  *)

(* hm_dma_ck on axis state a: count the buffer just sent, then switch to   *)
(* the other one, or stop when every requested step was sent.  An other    *)
(* buffer that was not filled is a while(1).                               *)
Counted(a) ==
  [a EXCEPT !.pos = @ + Signed(a.dir, Cur(a).len),
            !.dma_buf[a.dma_buf_idx].valid = FALSE,
            !.steps_actual = @ + Cur(a).len]

(* Mutant: one comparison too weak.                                        *)
MoreToSend_le(a) ==
  a.steps_actual <= a.steps_request \/ a.steps_request = HM_INVALID_STEP

MoreToSend(a) ==
  a.steps_actual < a.steps_request \/ a.steps_request = HM_INVALID_STEP

hm_dma_ck(a) ==
  LET c    == Counted(a)
      next == [c EXCEPT !.dma_buf_idx = OtherBlock(a)]
      done == MarkStoped([c EXCEPT !.bstopping = FALSE])
  IN
  IF ~MoreToSend(c) THEN
    /\ axis' = done
    /\ chan' = [hm_dma_setup(done, chan, FALSE)
                  EXCEPT !.tim = FALSE, !.ht = FALSE, !.tc = FALSE]
    /\ UNCHANGED hung
  ELSE IF Cur(next).valid THEN
    /\ axis' = next
    /\ chan' = [hm_dma_setup(next, [chan EXCEPT !.dma = FALSE], TRUE)
                  EXCEPT !.tim = TRUE, !.ht = FALSE, !.tc = FALSE]
    /\ UNCHANGED hung
  ELSE
    /\ axis' = c
    /\ chan' = [chan EXCEPT !.ht = FALSE]
    /\ hung' = TRUE

(* Mutant: the half-transfer is not handled when the transfer has already  *)
(* completed.                                                              *)
AfterHalf_skip == IF chan.ht /\ ~chan.tc THEN hm_dma_fill_next_buf(axis) ELSE axis

(* The axis after the half-transfer part of the handler.                   *)
AfterHalf == IF chan.ht THEN hm_dma_fill_next_buf(axis) ELSE axis

(* DMA1_Channel5_IRQHandler and its siblings: half-transfer first, then    *)
(* transfer-complete.  A ramp that overruns hangs in the first part.       *)
DmaHalf ==
  /\ ~hung
  /\ chan.ht /\ ~chan.tc
  /\ axis' = AfterHalf
  /\ chan' = [chan EXCEPT !.ht = FALSE]
  /\ hung' = RampOverrun(AfterHalf)
  /\ UNCHANGED <<cfg, pins, exti, fed, out, late>>

DmaComplete ==
  /\ ~hung
  /\ chan.tc
  /\ IF RampOverrun(AfterHalf)
     THEN axis' = AfterHalf /\ hung' = TRUE /\ UNCHANGED chan
     ELSE hm_dma_ck(AfterHalf)
  /\ UNCHANGED <<cfg, pins, exti, fed, out, late>>

DmaIrq == DmaHalf \/ DmaComplete

-----------------------------------------------------------------------------
(* Limit handlers: EXTI interrupts and the 100 ms SysTick check.           *)

(* Every sensor's stop uses the stop mode of the CW sensor.  The handler   *)
(* spends its debounce loops before it stops the axis: a transfer may      *)
(* complete meanwhile, and its interrupt, of the same priority, has to     *)
(* wait.  A sudden stop does not take it back.                             *)
LimitStop(a) ==
  IF cfg.bStopImmediatelyCW
  THEN /\ axis' = SuddenAxis(a, chan)
       /\ chan' = SuddenChan(a, chan)
       /\ late' = (late \/ chan.tc)
  ELSE /\ axis' = hm_step_motor_stop_smooth(a)
       /\ UNCHANGED <<chan, late>>

(* Mutant: the limit switches are taken for each other.                    *)
HitWhileRunning_swapped(l) ==
  /\ pins[l]
  /\ axis.axis_state = "asRuning"
  /\ CASE l = "CW"   -> axis.dir = "rdCCW"
       [] l = "CCW"  -> axis.dir = "rdCW"
       [] l = "Home" -> axis.bdo_home

(* A closed sensor that has to stop the axis as it runs now.               *)
HitWhileRunning(l) ==
  /\ pins[l]
  /\ axis.axis_state = "asRuning"
  /\ CASE l = "CW"   -> axis.dir = "rdCW"
       [] l = "CCW"  -> axis.dir = "rdCCW"
       [] l = "Home" -> axis.bdo_home

(* handler_extern_irq for this axis' line l.                               *)
ExtiIrq(l) ==
  /\ ~hung
  /\ l \in exti
  /\ exti' = exti \ {l}
  /\ IF HitWhileRunning(l) THEN LimitStop(axis)
     ELSE UNCHANGED <<axis, chan, late>>
  /\ UNCHANGED <<cfg, pins, hung, fed, out>>

(* hm_motor_limit_logical_check: the home sensor stops a homing run on its *)
(* level, or only when it was open at the check before (fall trigger).     *)
LimitCheck ==
  LET home == HitWhileRunning("Home")
      stop == \/ HitWhileRunning("CW")
              \/ HitWhileRunning("CCW")
              \/ home /\ (cfg.bhome_stop_low_triger \/ ~axis.blast_hit_home)
      seen == IF axis.axis_state = "asRuning" /\ axis.bdo_home
              THEN [axis EXCEPT !.blast_hit_home = pins["Home"]] ELSE axis
  IN
  /\ ~hung
  /\ IF stop THEN LimitStop(seen) ELSE axis' = seen /\ UNCHANGED <<chan, late>>
  /\ UNCHANGED <<cfg, pins, exti, hung, fed, out>>

-----------------------------------------------------------------------------
(* Commands, run in the Ethernet interrupt.                                *)

EthMayRun == ~hung /\ ~chan.ht /\ ~chan.tc /\ exti = {}

(* The three early returns of a start: already at a sensor that would stop *)
(* the motion at once.                                                     *)
Blocked(dir, bdo_home) ==
  \/ pins["CW"] /\ dir = "rdCW"
  \/ pins["CCW"] /\ dir = "rdCCW"
  \/ pins["Home"] /\ bdo_home /\ cfg.bhome_stop_low_triger

(* The resets a start makes before it fills the buffers.                   *)
Prepared(a, dir) ==
  [a EXCEPT !.dir = dir, !.bstopping = FALSE, !.dma_buf_idx = 0, !.gen = 0,
            !.dma_buf = [b \in Blocks |-> EmptyBuf]]

(* The first step, which the start itself puts into buffer 0.              *)
FirstStep(a) ==
  [a EXCEPT !.dma_buf[0].len = 1, !.steps_taken = 1, !.gen = 1]

FillBoth(a) ==
  LET b0 == hm_dma_update(a, 0) IN
  IF RampStopped(b0) THEN b0 ELSE hm_dma_update(b0, 1)

(* The direction pin of channel c.                                         *)
hm_motor_set_dir(c, bCW) == [c EXCEPT !.cw = bCW]

(* hm_dma_setup(psrd, true), hm_tim_start(psrd, true, fre) and the         *)
(* direction pin, on a filled axis.                                        *)
StartOn(a) ==
  /\ axis' = [a EXCEPT !.axis_state = "asRuning"]
  /\ chan' = [hm_dma_setup(a, hm_motor_set_dir(chan, a.dir = "rdCW"), TRUE)
                EXCEPT !.tim = TRUE]
  /\ cfg' = [cfg EXCEPT !.benabled = TRUE]
  /\ hung' = RampOverrun(a)
  /\ out' = 0
  /\ UNCHANGED <<pins, exti, fed, late>>

(* hm_step_motor_move on an idle axis: the axis once its buffers are       *)
(* filled.  A move of one step skips the ramp (accel_count = -1 needs one  *)
(* more step to stop); a move of none fills nothing.                       *)
MoveFilled(a, n, max_s_lim) ==
  LET r == [a EXCEPT !.steps_request = n, !.steps_taken = 0,
                     !.steps_actual = 0, !.bdo_home = FALSE]
  IN CASE n = 0 -> r
       [] n = 1 -> [FirstStep(r) EXCEPT !.dma_buf[0].valid = TRUE,
                                        !.stop_at = 2]
       [] OTHER -> FillBoth([FirstStep(r) EXCEPT
                               !.stop_at = StopAt(n, max_s_lim)])

(* hmCmdFixMove -> hm_step_motor_move.  On a busy axis it returns false    *)
(* and changes nothing.                                                    *)
FixMove(step, max_s_lim) ==
  LET dir == IF step < 0 THEN "rdCCW" ELSE "rdCW" IN
  /\ "fix" \in Commands
  /\ EthMayRun
  /\ IsStoped(axis)
  /\ Abs(fed + step) <= MaxTravel
  /\ late => Abs(axis.pos) <= LateTravel
  /\ IF Blocked(dir, axis.bdo_home)
     THEN /\ axis' = [axis EXCEPT !.dir = dir]
          /\ UNCHANGED <<cfg, chan, pins, exti, hung, fed, out, late>>
     ELSE StartOn(MoveFilled(Prepared(axis, dir), Abs(step), max_s_lim))

(* hm_step_motor_start_run on an idle axis, buffers filled.                *)
RunFilled(a) ==
  FillBoth(FirstStep([a EXCEPT !.steps_request = HM_INVALID_STEP,
                               !.steps_actual = HM_INVALID_STEP,
                               !.blast_hit_home =
                                  IF a.bdo_home THEN pins["Home"] ELSE @]))

(* hmCmdKeepMove -> hm_step_motor_start_homing / start_free_run: bdo_home  *)
(* is written before start_run looks whether the axis is busy.             *)
KeepMove(dir, bhome) ==
  /\ (IF bhome THEN "home" ELSE "free") \in Commands
  /\ EthMayRun
  /\ \/ /\ ~IsStoped(axis)
        /\ axis' = [axis EXCEPT !.bdo_home = bhome]
        /\ UNCHANGED <<cfg, chan, pins, exti, hung, fed, out, late>>
     \/ /\ IsStoped(axis)
        /\ Blocked(dir, bhome)
        /\ axis' = [axis EXCEPT !.bdo_home = bhome, !.dir = dir]
        /\ UNCHANGED <<cfg, chan, pins, exti, hung, fed, out, late>>
     \/ /\ IsStoped(axis)
        /\ ~Blocked(dir, bhome)
        /\ Abs(fed + Signed(dir, HM_DMA_BUF_SIZE)) <= MaxTravel
        /\ late => Abs(axis.pos) <= LateTravel
        /\ StartOn(RunFilled(Prepared([axis EXCEPT !.bdo_home = bhome], dir)))

(* hmCmdStopMove.  A sudden stop does not look at the axis' state.         *)
StopSmooth ==
  /\ "smooth" \in Commands
  /\ EthMayRun
  /\ axis' = hm_step_motor_stop_smooth(axis)
  /\ UNCHANGED <<cfg, chan, pins, exti, hung, fed, out, late>>

StopSudden ==
  /\ "sudden" \in Commands
  /\ EthMayRun
  /\ axis' = SuddenAxis(axis, chan)
  /\ chan' = SuddenChan(axis, chan)
  /\ UNCHANGED <<cfg, pins, exti, hung, fed, out, late>>

(* hm_step_motor_set_cur_pos.  On a running axis it sets the position of   *)
(* the start of the current buffer, so the true position becomes newpos    *)
(* plus the steps already sent of that buffer.                             *)
SetPosition(a, newpos) ==
  /\ axis' = [a EXCEPT !.pos = newpos]
  /\ fed' = newpos + (hm_step_motor_get_cur_pos(axis, chan) - axis.pos)

SetPos(newpos) ==
  /\ "setpos" \in Commands
  /\ EthMayRun
  /\ SetPosition(axis, newpos)
  /\ UNCHANGED <<cfg, chan, pins, exti, hung, out, late>>

(* hmResetBoard, for this axis.                                            *)
ResetBoard ==
  /\ "reset" \in Commands
  /\ EthMayRun
  /\ SetPosition(hm_step_motor_stop_smooth(axis), 0)
  /\ UNCHANGED <<cfg, chan, pins, exti, hung, out, late>>

(* hmCmdEnableAxis -> hm_motor_enable_axis.                                *)
EnableAxis(benable) ==
  /\ "enable" \in Commands
  /\ EthMayRun
  /\ cfg' = [cfg EXCEPT !.benabled = benable]
  /\ UNCHANGED <<axis, chan, pins, exti, hung, fed, out, late>>

(* hmCmdGetAxisSetting with bget = 0: each flag of the request, in turn,   *)
(* calls hm_motor_set_stop_mode with the values read before the first.     *)
SetStopMode(g, sudCW, sudCCW, sudHome, method) ==
  [g EXCEPT !.bStopImmediatelyCW = sudCW, !.bStopImmediatelyCCW = sudCCW,
            !.bStopImmediatelyHome = sudHome, !.method = method]

SettingApplied(g, flag, v) ==
  LET ccw  == g.bStopImmediatelyCCW
      home == g.bStopImmediatelyHome
      g0 == IF "HomeTriger" \in flag
            THEN [g EXCEPT !.bhome_stop_low_triger = v.trig] ELSE g
      g1 == IF "StopModeCW" \in flag
            THEN SetStopMode(g0, v.cw, ccw, home, g.method) ELSE g0
      g2 == IF "StopModeCCW" \in flag
            THEN SetStopMode(g1, ccw, v.ccw, home, g.method) ELSE g1
      g3 == IF "StopModeHome" \in flag
            THEN SetStopMode(g2, ccw, ccw, v.home, g.method) ELSE g2
  IN IF "Curve" \in flag
     THEN SetStopMode(g3, ccw, ccw, home, v.method) ELSE g3

SettingValues ==
  [trig: BOOLEAN, cw: BOOLEAN, ccw: BOOLEAN, home: BOOLEAN,
   method: {"TCurve", "sCurve"}]

SetAxisSetting(flag, v) ==
  /\ "setting" \in Commands
  /\ EthMayRun
  /\ cfg' = SettingApplied(cfg, flag, v)
  /\ UNCHANGED <<axis, chan, pins, exti, hung, fed, out, late>>

-----------------------------------------------------------------------------
Next ==
  \/ Tick
  \/ \E l \in Lines : SensorChange(l)
  \/ DmaIrq
  \/ \E l \in Lines : ExtiIrq(l)
  \/ LimitCheck
  \/ \E step \in FixSteps, lim \in RampLimits : FixMove(step, lim)
  \/ \E dir \in {"rdCW", "rdCCW"}, bhome \in BOOLEAN : KeepMove(dir, bhome)
  \/ StopSmooth
  \/ StopSudden
  \/ \E p \in NewPositions : SetPos(p)
  \/ ResetBoard
  \/ \E b \in BOOLEAN : EnableAxis(b)
  \/ \E flag \in SettingFlags, v \in SettingValues : SetAxisSetting(flag, v)

Spec == Init /\ [][Next]_vars

(* The timer keeps counting, a pending interrupt is eventually served, and *)
(* SysTick fires every millisecond and stays pending while it has to wait. *)
Fairness ==
  /\ WF_vars(Tick)
  /\ WF_vars(DmaIrq)
  /\ \A l \in Lines : SF_vars(ExtiIrq(l))
  /\ SF_vars(LimitCheck)

FairSpec == Spec /\ Fairness

-----------------------------------------------------------------------------
(* Properties.                                                             *)

TypeOK ==
  /\ axis \in Axis
  /\ cfg \in Cfg
  /\ chan \in Chan
  /\ pins \in [Lines -> BOOLEAN]
  /\ exti \in SUBSET Lines
  /\ hung \in BOOLEAN
  /\ fed \in Int
  /\ out \in Nat
  /\ late \in BOOLEAN

(* A transfer-complete that a limit handler's sudden stop leaves pending   *)
(* (late) still runs hm_dma_ck, which counts the buffer again and may      *)
(* switch the stopped axis on.  StopIsFinal denies it, and fails; the      *)
(* properties below say what holds until it happens.                       *)
StopIsFinal == axis.axis_state = "asStoped" => ~chan.tim /\ ~chan.dma

(* An axis marked asStoped is at rest and stays so until a command starts  *)
(* it: no interrupt left over from the run switches its timer or its DMA   *)
(* channel on again behind axis_state, but the one of a late limit stop.   *)
StopHolds == ~late => StopIsFinal

(* hm_step_motor_get_cur_pos answers the true position until a limit stop  *)
(* comes late: every step that DMA feeds to the timer is counted exactly   *)
(* once, whether a transfer-complete, a sudden stop or the live DMA        *)
(* counter accounts for it, and stays counted across stops, restarts and   *)
(* direction changes.                                                      *)
ExactCount == ~late => hm_step_motor_get_cur_pos(axis, chan) = fed

(* The while(1) traps of hm_dma_update (a step asked of a stopped ramp)    *)
(* and of hm_dma_ck (the next buffer is not ready) are not entered before  *)
(* a limit stop comes late.                                                *)
NoTrap == hung => late

(* The next step DMA will feed is the one out says.                        *)
InOrder ==
  chan.tim /\ chan.cndtr > 0 =>
    axis.dma_buf[chan.cmar].first + (chan.len - chan.cndtr) = out

(* DMA plays the generated ramp in order: the next step it will feed is    *)
(* the next one hm_dma_update generated, none skipped, none overwritten    *)
(* before it was played, none played twice, until a limit stop comes late. *)
PlaysInOrder == ~late => InOrder

(* The timer runs, but DMA has nothing to feed it and no interrupt is due: *)
(* the axis pulses at its last speed until a sudden stop.                  *)
FreeWheel == chan.tim /\ chan.cndtr = 0 /\ ~chan.tc

(* A move that nobody asked to stop smoothly never free-wheels.            *)
NoRunaway == FreeWheel => axis.bstopping \/ axis.steps_request = 0 \/ late

(* A fixed move that runs to its end, not cut short by a stop, has fed     *)
(* exactly the requested number of steps when the axis is marked stopped   *)
(* by the transfer-complete of its last buffer.                            *)
MoveIsExact ==
  [][ /\ chan.tc /\ ~chan'.tc /\ ~axis.bstopping /\ ~late
      /\ axis.steps_request # HM_INVALID_STEP
      /\ axis.axis_state = "asRuning" /\ axis'.axis_state = "asStoped"
      => out = axis.steps_request ]_vars

(* A fixed move that nobody stops smoothly ends: the hand-over from buffer *)
(* to buffer never stalls short of the last requested step.                *)
EveryMoveEnds ==
  ( /\ axis.steps_request # HM_INVALID_STEP
    /\ axis.axis_state = "asRuning" /\ ~axis.bstopping )
    ~> (axis.axis_state = "asStoped" \/ axis.bstopping \/ late)

(* A smooth stop ends with the axis stopped.                               *)
SmoothStopEnds == axis.bstopping ~> axis.axis_state = "asStoped"

(* The axis slows down before a smooth stop ends: the last step it takes   *)
(* is one of the deceleration generated since the stop (steps_taken counts *)
(* them), not one generated before it.                                     *)
SmoothStopDecelerates ==
  [][ /\ chan.tc /\ axis.bstopping
      /\ axis.axis_state = "asRuning" /\ axis'.axis_state = "asStoped"
      => out > axis.gen - axis.steps_taken ]_vars

(* A smooth stop that finds a full buffer being sent ends: every free run, *)
(* and every fixed move that is not in its last buffer.                    *)
FullBufferStopEnds ==
  (axis.bstopping /\ Cur(axis).len = HM_DMA_BUF_SIZE)
    ~> (axis.axis_state = "asStoped" \/ late)

(* An axis running into a closed limit switch stops, unless the switch     *)
(* opens again: a free run always, any run when the stop mode is and stays *)
(* sudden, also when a smooth stop got stuck before.                       *)
RunsInto(l) ==
  /\ axis.axis_state = "asRuning" /\ pins[l]
  /\ axis.dir = IF l = "CW" THEN "rdCW" ELSE "rdCCW"

LimitStops ==
  \A l \in {"CW", "CCW"} :
    /\ (RunsInto(l) /\ axis.steps_request = HM_INVALID_STEP)
         ~> (axis.axis_state = "asStoped" \/ ~pins[l] \/ late)
    /\ (RunsInto(l) /\ cfg.bStopImmediatelyCW)
         ~> (axis.axis_state = "asStoped" \/ ~pins[l]
               \/ ~cfg.bStopImmediatelyCW \/ late)

(* A move of some steps, away from any closed limit switch, moves the axis *)
(* when hm_step_motor_move accepts it.                                     *)
AcceptedMoveStarts ==
  [][\A step \in FixSteps \ {0}, lim \in RampLimits :
        /\ FixMove(step, lim)
        /\ ~pins[IF step < 0 THEN "CCW" ELSE "CW"]
        => axis'.axis_state = "asRuning"]_vars

-----------------------------------------------------------------------------
(* The inductive invariant behind the safety properties: what holds until  *)
(* a limit handler stops the axis too late.                                *)

Other(a) == a.dma_buf[OtherBlock(a)]

OtherLen(a) == IF Other(a).valid THEN Other(a).len ELSE 0

(* A stopped axis is switched off, and its position is the whole truth.    *)
InvStoped ==
  axis.axis_state = "asStoped" =>
    ~chan.tim /\ ~chan.dma /\ ~chan.tc /\ axis.pos = fed

(* A running axis: the channel sends the current buffer, the direction pin *)
(* agrees with dir, and pos is the position at the start of that buffer.   *)
InvRunning ==
  axis.axis_state = "asRuning" =>
    /\ chan.tim /\ chan.dma
    /\ chan.cmar = axis.dma_buf_idx
    /\ chan.len = Cur(axis).len
    /\ chan.cndtr <= chan.len
    /\ chan.cw <=> (axis.dir = "rdCW")
    /\ chan.tc <=> (chan.cndtr = 0 /\ chan.len > 0)
    /\ fed = axis.pos + Signed(axis.dir, chan.len - chan.cndtr)

(* Once half of the current buffer is sent and the half-transfer served,   *)
(* the other buffer is ready.                                              *)
InvNextReady ==
  axis.axis_state = "asRuning" /\ chan.len > 0
    /\ 2 * chan.cndtr <= chan.len /\ ~chan.ht
    => Other(axis).valid

(* A bounded request never asks the ramp for a step after rsSTOP.          *)
InvRamp ==
  axis.steps_request # HM_INVALID_STEP =>
    /\ 0 <= axis.steps_taken
    /\ axis.steps_taken <= axis.steps_request
    /\ axis.steps_request <= axis.stop_at

(* The steps generated are those sent, those left of the current buffer    *)
(* and those of the other buffer, in this order.                           *)
InvOrder ==
  axis.axis_state = "asRuning" =>
    /\ Cur(axis).first + (chan.len - chan.cndtr) = out
    /\ axis.gen = Cur(axis).first + Cur(axis).len + OtherLen(axis)
    /\ Other(axis).valid =>
         Other(axis).first = Cur(axis).first + Cur(axis).len

(* A fixed move nobody asked to stop: what was generated is what is        *)
(* counted, in the current buffer or ready, and a ready buffer is short    *)
(* only when nothing is left to generate.                                  *)
InvMove ==
  /\ axis.axis_state = "asRuning"
  /\ axis.steps_request # HM_INVALID_STEP
  /\ ~axis.bstopping
  => /\ axis.steps_taken = axis.steps_actual + Cur(axis).len + OtherLen(axis)
     /\ out = axis.steps_actual + (chan.len - chan.cndtr)
     /\ axis.steps_request # 0 => Cur(axis).len > 0
     /\ Other(axis).valid /\ OtherLen(axis) < HM_DMA_BUF_SIZE
          => axis.steps_taken = axis.steps_request

(* A free run always has full buffers.                                     *)
InvFree ==
  axis.axis_state = "asRuning" /\ axis.steps_request = HM_INVALID_STEP =>
    /\ Cur(axis).len = HM_DMA_BUF_SIZE
    /\ Other(axis).valid => OtherLen(axis) = HM_DMA_BUF_SIZE

Motion ==
  /\ ~hung
  /\ axis.axis_state # "asPreparing"
  /\ InvStoped /\ InvRunning /\ InvNextReady /\ InvRamp
  /\ InvOrder /\ InvMove /\ InvFree

IndInv == TypeOK /\ (~late => Motion)
=============================================================================
