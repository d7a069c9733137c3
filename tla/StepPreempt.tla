---------------------------- MODULE StepPreempt -----------------------------
(***************************************************************************)
(* StepMotor at a finer grain: a command runs in the Ethernet interrupt    *)
(* and the DMA, EXTI and SysTick handlers, of higher priority, interrupt   *)
(* it between any two accesses to what they share with it.  The handlers   *)
(* are those of StepMotor and stay atomic.  An instruction of the command  *)
(* is executed only when none of their interrupts is pending (EthMayRun).  *)
(*                                                                         *)
(* What a start does before it switches the timer on needs no splitting:   *)
(* the axis is not asRuning, so limit handlers leave it alone, and its     *)
(* channel is off, so there is no DMA interrupt.                           *)
(***************************************************************************)
EXTENDS StepMotor

CONSTANTS
  Ops,     \* commands of this run: a subset of {"start", "sudden", "smooth", "getpos"}
  StopFixed, \* a smooth stop may come while the host's fixed move runs
  Window   \* bound: step pulses in the course of one command

ASSUME OpsAssumption == Ops \subseteq {"start", "sudden", "smooth", "getpos"}
ASSUME WindowAssumption == Window \in Nat /\ StopFixed \in BOOLEAN

VARIABLES
  cmd,   \* the command half done in the Ethernet interrupt
  lost   \* history: a limit handler has marked the axis in the middle of a
         \* sudden stop, which then counts nothing of the current buffer

pvars == <<axis, cfg, chan, pins, exti, hung, fed, out, late, cmd, lost>>

(* pc: the next access to make.  idx: the buffer the command looked up     *)
(* (pdma_buf_cur).  passed: npassed.  at, ticks, turned: history, the true *)
(* position when the command began, the step pulses since then, and        *)
(* whether a handler has changed the current buffer or stopped the axis.   *)
Pc == {"idle", "mark",
       "suddenDma", "suddenTim", "suddenMark", "suddenCount",
       "smoothMark", "smoothRequest", "smoothTaken", "smoothActual",
       "smoothRamp",
       "posState", "posCount", "posAnswer"}

Idle == [pc |-> "idle", idx |-> 0, passed |-> 0, at |-> 0, ticks |-> 0,
         turned |-> FALSE]

PInit == Init /\ cmd = Idle /\ lost = FALSE

(* A step of the command, from pc to next.                                 *)
Begin(op, next) ==
  /\ op \in Ops
  /\ EthMayRun
  /\ cmd.pc = "idle"
  /\ cmd' = [Idle EXCEPT !.pc = next, !.idx = axis.dma_buf_idx, !.at = fed]
  /\ UNCHANGED lost

Goto(pc, next) ==
  /\ EthMayRun
  /\ cmd.pc = pc
  /\ cmd' = IF next = "idle" THEN Idle ELSE [cmd EXCEPT !.pc = next]
  /\ UNCHANGED lost

-----------------------------------------------------------------------------
(* Handlers of higher priority.                                            *)

PTick ==
  /\ cmd.pc = "idle" \/ cmd.ticks < Window
  /\ Tick
  /\ cmd' = IF cmd.pc = "idle" THEN cmd ELSE [cmd EXCEPT !.ticks = @ + 1]
  /\ UNCHANGED lost

Interrupt(A) ==
  /\ A
  /\ cmd' = IF cmd.pc = "idle" THEN cmd
            ELSE [cmd EXCEPT !.turned =
                    \/ @
                    \/ axis'.dma_buf_idx # axis.dma_buf_idx
                    \/ axis'.axis_state # axis.axis_state]
  /\ lost' = (\/ lost
              \/ /\ cmd.pc \in {"suddenTim", "suddenMark"}
                 /\ axis'.axis_state # axis.axis_state)

-----------------------------------------------------------------------------
(* hm_step_motor_move and hm_step_motor_start_run: everything up to        *)
(* TIM_Cmd(ENABLE) of hm_tim_start, then hm_mark_axis_state(asRuning).     *)

Arm(a) ==
  /\ axis' = [a EXCEPT !.axis_state = "asPreparing"]
  /\ chan' = [hm_dma_setup(a, hm_motor_set_dir(chan, a.dir = "rdCW"), TRUE)
                EXCEPT !.tim = TRUE]
  /\ cfg' = [cfg EXCEPT !.benabled = TRUE]
  /\ hung' = RampOverrun(a)
  /\ out' = 0
  /\ UNCHANGED <<pins, exti, fed, late>>

FixArm(step, max_s_lim) ==
  LET dir == IF step < 0 THEN "rdCCW" ELSE "rdCW" IN
  /\ Begin("start", "mark")
  /\ IsStoped(axis)
  /\ ~Blocked(dir, axis.bdo_home)
  /\ Abs(fed + step) <= MaxTravel
  /\ late \/ lost => Abs(axis.pos) <= LateTravel
  /\ Arm(MoveFilled(Prepared(axis, dir), Abs(step), max_s_lim))

FreeArm(dir) ==
  /\ Begin("start", "mark")
  /\ IsStoped(axis)
  /\ ~Blocked(dir, FALSE)
  /\ Abs(fed + Signed(dir, HM_DMA_BUF_SIZE)) <= MaxTravel
  /\ late \/ lost => Abs(axis.pos) <= LateTravel
  /\ Arm(RunFilled(Prepared([axis EXCEPT !.bdo_home = FALSE], dir)))

Mark ==
  /\ Goto("mark", "idle")
  /\ axis' = [axis EXCEPT !.axis_state = "asRuning"]
  /\ UNCHANGED <<cfg, chan, pins, exti, hung, fed, out, late>>

-----------------------------------------------------------------------------
(* hm_step_motor_stop_sundden.                                             *)

SuddenBegin ==
  /\ Begin("sudden", "suddenDma")
  /\ axis' = [axis EXCEPT !.bstopping = FALSE]
  /\ UNCHANGED <<cfg, chan, pins, exti, hung, fed, out, late>>

(* Mutant: the channel is programmed again instead of switched off.        *)
SuddenDma_on ==
  /\ Goto("suddenDma", "suddenTim")
  /\ chan' = hm_dma_setup(axis, chan, TRUE)
  /\ UNCHANGED <<axis, cfg, pins, exti, hung, fed, out, late>>

SuddenDma ==
  /\ Goto("suddenDma", "suddenTim")
  /\ chan' = hm_dma_setup(axis, chan, FALSE)
  /\ UNCHANGED <<axis, cfg, pins, exti, hung, fed, out, late>>

SuddenTim ==
  /\ Goto("suddenTim", "suddenMark")
  /\ chan' = [chan EXCEPT !.tim = FALSE]
  /\ UNCHANGED <<axis, cfg, pins, exti, hung, fed, out, late>>

SuddenMark ==
  /\ Goto("suddenMark", "suddenCount")
  /\ axis' = MarkStoped(axis)
  /\ UNCHANGED <<cfg, chan, pins, exti, hung, fed, out, late>>

SuddenCount ==
  /\ Goto("suddenCount", "idle")
  /\ axis' = [axis EXCEPT !.pos =
                @ + Signed(axis.dir, axis.dma_buf[cmd.idx].len - chan.cndtr)]
  /\ UNCHANGED <<cfg, chan, pins, exti, hung, fed, out, late>>

-----------------------------------------------------------------------------
(* hm_step_motor_stop_smooth, store by store.  stop_at counts as           *)
(* steps_taken does: when one is set alone the other moves with it, and a  *)
(* ramp that is not due to stop is given more steps than it will take.     *)

SmoothBegin ==
  /\ Begin("smooth", "smoothMark")
  /\ ~IsStoped(axis) /\ ~axis.bstopping
  /\ axis.steps_request # HM_INVALID_STEP => StopFixed
  /\ UNCHANGED vars

SmoothMark ==
  /\ Goto("smoothMark", "smoothRequest")
  /\ axis' = [axis EXCEPT !.bstopping = TRUE]
  /\ UNCHANGED <<cfg, chan, pins, exti, hung, fed, out, late>>

SmoothRequest ==
  /\ Goto("smoothRequest", "smoothTaken")
  /\ axis' = [axis EXCEPT !.steps_request = StopSteps,
                          !.stop_at = IF axis.steps_request = HM_INVALID_STEP
                                      THEN axis.steps_taken + StopSteps + 1
                                      ELSE @]
  /\ UNCHANGED <<cfg, chan, pins, exti, hung, fed, out, late>>

SmoothTaken ==
  /\ Goto("smoothTaken", "smoothActual")
  /\ axis' = [axis EXCEPT !.steps_taken = 0,
                          !.stop_at = IF @ < axis.steps_taken THEN 0
                                      ELSE @ - axis.steps_taken]
  /\ UNCHANGED <<cfg, chan, pins, exti, hung, fed, out, late>>

SmoothActual ==
  /\ Goto("smoothActual", "smoothRamp")
  /\ axis' = [axis EXCEPT !.steps_actual = 0]
  /\ UNCHANGED <<cfg, chan, pins, exti, hung, fed, out, late>>

SmoothRamp ==
  /\ Goto("smoothRamp", "idle")
  /\ axis' = [axis EXCEPT !.stop_at = axis.steps_taken + StopSteps]
  /\ UNCHANGED <<cfg, chan, pins, exti, hung, fed, out, late>>

-----------------------------------------------------------------------------
(* hm_step_motor_get_cur_pos, as hmCmdGetPos calls it.                     *)

PosBegin ==
  /\ Begin("getpos", "posState")
  /\ UNCHANGED vars

PosState ==
  /\ Goto("posState", IF IsStoped(axis) THEN "posAnswer" ELSE "posCount")
  /\ UNCHANGED vars

(* Mutant: what is left of the buffer, not what has passed of it.          *)
PosCount_left ==
  /\ EthMayRun
  /\ cmd.pc = "posCount"
  /\ cmd' = [cmd EXCEPT !.pc = "posAnswer", !.passed = chan.cndtr]
  /\ UNCHANGED <<vars, lost>>

PosCount ==
  /\ EthMayRun
  /\ cmd.pc = "posCount"
  /\ cmd' = [cmd EXCEPT !.pc = "posAnswer",
                        !.passed = axis.dma_buf[cmd.idx].len - chan.cndtr]
  /\ UNCHANGED <<vars, lost>>

PosAnswer ==
  /\ Goto("posAnswer", "idle")
  /\ UNCHANGED vars

(* What PosAnswer answers.                                                 *)
Answer == axis.pos + Signed(axis.dir, cmd.passed)

-----------------------------------------------------------------------------
(* hmCmdGetAxisSetting: its stores are to bytes of which the handlers read *)
(* one, bStopImmediatelyCW, once.                                          *)
Setting(flag, v) ==
  /\ cmd.pc = "idle"
  /\ SetAxisSetting(flag, v)
  /\ UNCHANGED <<cmd, lost>>

Command ==
  \/ \E step \in FixSteps, lim \in RampLimits : FixArm(step, lim)
  \/ \E dir \in {"rdCW", "rdCCW"} : FreeArm(dir)
  \/ Mark
  \/ SuddenBegin \/ SuddenDma \/ SuddenTim \/ SuddenMark \/ SuddenCount
  \/ SmoothBegin \/ SmoothMark \/ SmoothRequest \/ SmoothTaken
  \/ SmoothActual \/ SmoothRamp
  \/ PosBegin \/ PosState \/ PosCount \/ PosAnswer
  \/ \E flag \in SettingFlags, v \in SettingValues : Setting(flag, v)

PNext ==
  \/ PTick
  \/ Interrupt(DmaIrq)
  \/ \E l \in Lines : Interrupt(SensorChange(l))
  \/ \E l \in Lines : Interrupt(ExtiIrq(l))
  \/ Interrupt(LimitCheck)
  \/ Command

PSpec == PInit /\ [][PNext]_pvars

-----------------------------------------------------------------------------
(* Properties.                                                             *)

PTypeOK ==
  /\ TypeOK
  /\ cmd \in [pc: Pc, idx: Blocks, passed: Int, at: Int, ticks: 0 .. Window,
              turned: BOOLEAN]
  /\ lost \in BOOLEAN

(* Until a limit stop comes late, axis_state tells the truth between       *)
(* commands: an axis marked asRuning has its timer and its channel on, an  *)
(* axis marked asStoped has them off and stays so, whatever interrupted    *)
(* the command that started or stopped it.                                 *)
LabelIsTrue ==
  cmd.pc = "idle" /\ ~late =>
    /\ axis.axis_state # "asPreparing"
    /\ axis.axis_state = "asRuning" <=> chan.tim
    /\ axis.axis_state = "asStoped" => ~chan.dma

(* An axis at rest knows where it is, although a handler may have changed  *)
(* the buffer, or stopped the axis itself, in the middle of the command    *)
(* that brought it to rest: but for a sudden stop in the middle of which a *)
(* limit handler marked the axis (lost).                                   *)
RestIsExact ==
  cmd.pc = "idle" /\ axis.axis_state = "asStoped" /\ ~late /\ ~lost =>
    axis.pos = fed

(* A position query is answered with a position the axis had while it was  *)
(* being answered; if a buffer ended or the axis was stopped meanwhile,    *)
(* with one at most a buffer away.                                         *)
AnswerIsNear ==
  [][PosAnswer /\ ~late /\ ~lost =>
       LET slack == IF cmd.turned THEN HM_DMA_BUF_SIZE ELSE 0
       IN \/ Answer \in cmd.at - slack .. fed + slack
          \/ Answer \in fed - slack .. cmd.at + slack]_pvars

-----------------------------------------------------------------------------
(* The inductive invariant of LabelIsTrue.                                 *)

(* Label and channel agree, and no interrupt is left that would switch a   *)
(* stopped channel on.                                                     *)
Agree ==
  /\ axis.axis_state # "asPreparing"
  /\ axis.axis_state = "asRuning" => chan.tim /\ chan.dma
  /\ axis.axis_state = "asStoped" => ~chan.tim /\ ~chan.dma /\ ~chan.tc

(* The channel was started and the first buffer outlasts the command.      *)
AgreeMark ==
  /\ axis.axis_state = "asPreparing" /\ chan.tim /\ chan.dma /\ ~chan.tc
  /\ chan.cndtr + cmd.ticks = chan.len
  /\ chan.len = 0 \/ chan.len > Window

(* A sudden stop has switched DMA off, then the timer, then marked.        *)
AgreeSudden ==
  /\ axis.axis_state # "asPreparing" /\ ~chan.dma /\ ~chan.tc
  /\ axis.axis_state = "asStoped" \/ cmd.pc # "suddenTim" => ~chan.tim
  /\ cmd.pc = "suddenCount" => axis.axis_state = "asStoped"

InvLabel ==
  /\ cmd.pc = "mark" => AgreeMark
  /\ cmd.pc \in {"suddenTim", "suddenMark", "suddenCount"} => AgreeSudden
  /\ cmd.pc \notin {"mark", "suddenTim", "suddenMark", "suddenCount"} => Agree

-----------------------------------------------------------------------------
(* The inductive invariant of RestIsExact and AnswerIsNear, for moves of   *)
(* whole buffers, until a limit stop comes late.  Most of it is about an   *)
(* axis that is not hung: a hung one serves no command any more.           *)

(* A channel that is on sends the current buffer, and the position is its  *)
(* start and what was sent of it.                                          *)
InvSends ==
  chan.dma =>
    /\ chan.len = Cur(axis).len
    /\ chan.cndtr <= chan.len
    /\ chan.cw <=> (axis.dir = "rdCW")
    /\ chan.tc <=> (chan.cndtr = 0 /\ chan.len > 0)
    /\ chan.ht => chan.len > 0 /\ 2 * chan.cndtr <= chan.len
    /\ lost \/ fed = axis.pos + Signed(axis.dir, chan.len - chan.cndtr)

(* A channel that is off has at most the half-transfer left that a limit   *)
(* handler's sudden stop came before, and the position is right, or will   *)
(* be when the host's sudden stop has counted.                             *)
InvOff ==
  ~chan.dma =>
    /\ ~chan.tc
    /\ chan.ht =>
         /\ axis.axis_state = "asStoped"
         /\ chan.len \in 1 .. HM_DMA_BUF_SIZE /\ 2 * chan.cndtr <= chan.len
         /\ cmd.pc \notin {"suddenTim", "suddenMark", "suddenCount"}
    /\ \/ lost
       \/ fed = IF cmd.pc \in {"suddenTim", "suddenMark", "suddenCount"}
                THEN axis.pos
                       + Signed(axis.dir, axis.dma_buf[cmd.idx].len - chan.cndtr)
                ELSE axis.pos

(* n steps fill some buffers and leave no rest.                            *)
IsWhole(n) == \E k \in 0 .. n : n = k * HM_DMA_BUF_SIZE

(* The current buffer is full, or the move is empty.  So is every buffer   *)
(* that will be current: the next one is full, or there is none because    *)
(* the steps requested are sent with this one, or with the next (a smooth  *)
(* stop between two stores in the first buffer of a run).                  *)
FreeWhole(a) ==
  /\ a.steps_actual >= -1
  /\ Other(a).valid => Other(a).len = HM_DMA_BUF_SIZE
  /\ a.steps_actual = -1 => Other(a).valid

LastWhole(a) ==
  \/ a.steps_actual + HM_DMA_BUF_SIZE >= a.steps_request
  \/ /\ Other(a).valid /\ Other(a).len = HM_DMA_BUF_SIZE
     /\ a.steps_actual + 2 * HM_DMA_BUF_SIZE >= a.steps_request

MoveWhole(a) ==
  /\ a.steps_taken = a.steps_actual + HM_DMA_BUF_SIZE + OtherLen(a)
  /\ Other(a).valid => Other(a).len = HM_DMA_BUF_SIZE
  /\ IsWhole(a.steps_request - a.steps_taken)

(* A smooth stop that has stored steps_request and not yet all the rest.   *)
Stopping == cmd.pc \in {"smoothTaken", "smoothActual", "smoothRamp"}

Whole(a) ==
  Cur(a).len # 0 =>
    /\ Cur(a).len = HM_DMA_BUF_SIZE
    /\ a.steps_request = HM_INVALID_STEP => FreeWhole(a)
    /\ a.steps_request # HM_INVALID_STEP =>
         /\ a.steps_request >= 0
         /\ \/ a.steps_actual >= 0
            \/ Stopping /\ cmd.pc # "smoothRamp" /\ a.steps_actual = -1
         /\ LastWhole(a) \/ (MoveWhole(a) /\ ~Stopping)

InvWhole == chan.dma => Whole(axis)

(* The buffer a command looked up is the current one, or was until its     *)
(* last step was sent during the command; then the command is over before  *)
(* that buffer is filled again.                                            *)
InvLookup ==
  cmd.pc \in {"suddenDma", "posState", "posCount", "posAnswer"} =>
    \/ /\ cmd.idx = axis.dma_buf_idx
       /\ chan.dma /\ chan.len > 0 => chan.cndtr + cmd.ticks >= 1
    \/ /\ cmd.turned
       /\ cmd.idx = OtherBlock(axis)
       /\ Cur(axis).len = HM_DMA_BUF_SIZE
       /\ axis.dma_buf[cmd.idx].len = HM_DMA_BUF_SIZE
       /\ IF chan.dma THEN chan.cndtr + cmd.ticks >= HM_DMA_BUF_SIZE + 1
          ELSE ~chan.ht

(* What a query has counted of the buffer was sent when it began or since. *)
InvQuery ==
  cmd.pc \in {"posState", "posCount", "posAnswer"} =>
    /\ fed = cmd.at + Signed(axis.dir, cmd.ticks)
    /\ cmd.pc # "posAnswer" => cmd.passed = 0
    /\ cmd.pc = "posCount" /\ ~chan.dma =>
         cmd.turned /\ chan.cndtr <= axis.dma_buf[cmd.idx].len
    /\ cmd.passed \in 0 .. HM_DMA_BUF_SIZE
    /\ cmd.pc = "posAnswer" /\ ~cmd.turned =>
         IF chan.dma THEN chan.len - chan.cndtr \in cmd.passed .. cmd.passed + cmd.ticks
         ELSE cmd.passed = 0

InvExact ==
  /\ InvOff
  /\ Stopping => axis.steps_request = StopSteps
  /\ ~hung => InvSends /\ InvWhole /\ InvLookup /\ InvQuery

-----------------------------------------------------------------------------
(* The inductive invariant of NoTrap and PlaysInOrder, when the host stops *)
(* free runs only.                                                         *)

(* Once half of the current buffer is sent and the half-transfer served,   *)
(* the other buffer is ready.                                              *)
InvReady ==
  chan.dma /\ chan.len > 0 /\ 2 * chan.cndtr <= chan.len /\ ~chan.ht
    => Other(axis).valid

(* The steps generated are those sent, those left of the current buffer    *)
(* and those of the other buffer, in this order.                           *)
InvInOrder ==
  /\ chan.dma =>
       /\ chan.cmar = axis.dma_buf_idx
       /\ Cur(axis).first + (chan.len - chan.cndtr) = out
       /\ axis.gen = Cur(axis).first + Cur(axis).len + OtherLen(axis)
       /\ Other(axis).valid =>
            Other(axis).first = Cur(axis).first + Cur(axis).len
  /\ ~chan.dma => InOrder

(* The next buffer was filled since the smooth stop began: the stop is     *)
(* over before another one is.                                             *)
Refilled ==
  Other(axis).valid \/ chan.cndtr + cmd.ticks >= HM_DMA_BUF_SIZE + 1

(* A limit handler's smooth stop came between the host's check and its     *)
(* stores.                                                                 *)
LimitFirst ==
  /\ axis.steps_request = StopSteps /\ axis.stop_at = StopSteps
  /\ axis.steps_taken <= StopSteps
  /\ axis.steps_taken = 0 \/ Refilled

(* The ramp has a step for every step a request still asks for.  Between   *)
(* the stores of a smooth stop the request is new and steps_taken or the   *)
(* ramp is old, which is enough for the one buffer that can be filled.     *)
InvSteps ==
  /\ chan.dma \/ chan.ht =>
       /\ axis.steps_request = HM_INVALID_STEP => axis.steps_taken = 1
       /\ axis.steps_request # HM_INVALID_STEP /\ ~Stopping =>
            /\ axis.steps_taken <= axis.steps_request
            /\ axis.steps_request <= axis.stop_at
       /\ cmd.pc \in {"smoothMark", "smoothRequest"} =>
            axis.steps_request = HM_INVALID_STEP \/ LimitFirst
       /\ cmd.pc = "smoothTaken" =>
            /\ axis.steps_taken <= StopSteps
            /\ \/ axis.stop_at = StopSteps + 2 /\ (axis.steps_taken = 1 \/ Refilled)
               \/ LimitFirst
       /\ cmd.pc \in {"smoothActual", "smoothRamp"} =>
            /\ axis.steps_taken <= StopSteps /\ axis.steps_taken <= axis.stop_at
            /\ axis.stop_at >= StopSteps \/ Refilled
  /\ chan.dma =>
       /\ Stopping \/ cmd.pc = "smoothRequest" => axis.bstopping
       /\ Stopping \/ cmd.pc \in {"smoothMark", "smoothRequest"} =>
            chan.len = 0 \/ chan.cndtr + cmd.ticks >= 1

InvSafe == ~hung /\ InvReady /\ InvInOrder /\ InvSteps
=============================================================================
