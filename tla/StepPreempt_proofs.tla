------------------------- MODULE StepPreempt_proofs -------------------------
(* Type correctness of a command that is interrupted half way, the truth   *)
(* of axis_state between commands, the position of an axis at rest and the *)
(* answers of position queries, the absence of traps and the order of the  *)
(* steps, for every buffer size, every bound on the pulses during a        *)
(* command and every travel bound.                                         *)
EXTENDS StepPreempt, StepMotor_proofs

-----------------------------------------------------------------------------
(* Types.                                                                  *)

CmdType ==
  [pc: Pc, idx: Blocks, passed: Int, at: Int, ticks: 0 .. Window,
   turned: BOOLEAN]

(* An action of a handler of higher priority.                              *)
Handler ==
  \/ DmaIrq \/ LimitCheck
  \/ \E l \in Lines : SensorChange(l) \/ ExtiIrq(l)

LEMMA HandlerTypes ==
  ASSUME TypeOK, Tick \/ Handler
  PROVE  TypeOK'
BY TypeStep, Zenon DEF Handler, Next

LEMMA IdleType == Idle \in CmdType
BY WindowAssumption DEF Idle, CmdType, Pc, Blocks

(* What the command part of a step keeps.                                  *)
LEMMA CmdUpdate ==
  ASSUME NEW c \in CmdType
  PROVE  /\ \A v \in Pc : [c EXCEPT !.pc = v] \in CmdType
         /\ \A v \in Pc, n \in Int :
              [c EXCEPT !.pc = v, !.passed = n] \in CmdType
         /\ \A n \in 0 .. Window : [c EXCEPT !.ticks = n] \in CmdType
         /\ \A b \in BOOLEAN : [c EXCEPT !.turned = b] \in CmdType
BY DEF CmdType

LEMMA BeginDoes ==
  ASSUME TypeOK, NEW op, NEW next \in Pc, Begin(op, next)
  PROVE  /\ cmd' \in CmdType /\ cmd'.pc = next /\ cmd'.ticks = 0
         /\ cmd.pc = "idle" /\ EthMayRun /\ lost' = lost
<1>1. axis.dma_buf_idx \in Blocks /\ fed \in Int
  BY DEF TypeOK, Axis
<1>2. cmd' = [pc |-> next, idx |-> axis.dma_buf_idx, passed |-> 0, at |-> fed,
              ticks |-> 0, turned |-> FALSE]
  BY DEF Begin, Idle
<1>3. cmd' \in CmdType
  BY <1>1, <1>2, WindowAssumption DEF CmdType
<1>4. cmd.pc = "idle" /\ EthMayRun /\ lost' = lost
  BY DEF Begin
<1> QED BY <1>2, <1>3, <1>4

LEMMA GotoDoes ==
  ASSUME cmd \in CmdType, NEW pc, NEW next \in Pc, Goto(pc, next)
  PROVE  /\ cmd' \in CmdType /\ cmd'.pc = next /\ cmd.pc = pc /\ EthMayRun
         /\ lost' = lost
<1>1. cmd.pc = pc /\ EthMayRun /\ lost' = lost
  BY DEF Goto
<1>2. CASE next = "idle"
  <2>1. cmd' = Idle
    BY <1>2 DEF Goto
  <2> QED BY <1>1, <1>2, <2>1, IdleType DEF Idle
<1>3. CASE next # "idle"
  <2>1. cmd' = [cmd EXCEPT !.pc = next]
    BY <1>3 DEF Goto
  <2> QED BY <1>1, <2>1 DEF CmdType
<1> QED BY <1>2, <1>3

LEMMA InterruptDoes ==
  ASSUME cmd \in CmdType, NEW ACTION A, Interrupt(A)
  PROVE  /\ A /\ cmd' \in CmdType
         /\ cmd'.pc = cmd.pc /\ cmd'.ticks = cmd.ticks
         /\ cmd'.idx = cmd.idx /\ cmd'.passed = cmd.passed /\ cmd'.at = cmd.at
         /\ cmd.turned => cmd'.turned
         /\ cmd.pc # "idle" =>
              (cmd'.turned <=> \/ cmd.turned
                               \/ axis'.dma_buf_idx # axis.dma_buf_idx
                               \/ axis'.axis_state # axis.axis_state)
         /\ lost' \in BOOLEAN
         /\ lost' <=> \/ lost
                      \/ /\ cmd.pc \in {"suddenTim", "suddenMark"}
                         /\ axis'.axis_state # axis.axis_state
<1> DEFINE t == \/ cmd.turned
                \/ axis'.dma_buf_idx # axis.dma_buf_idx
                \/ axis'.axis_state # axis.axis_state
<1>1. A /\ (\/ cmd.pc = "idle" /\ cmd' = cmd
            \/ cmd' = [cmd EXCEPT !.turned = t])
  BY DEF Interrupt
<1>2. t \in BOOLEAN
  BY Zenon
<1> HIDE DEF t
<1>3. /\ cmd' \in CmdType
      /\ cmd'.pc = cmd.pc /\ cmd'.ticks = cmd.ticks
      /\ cmd'.idx = cmd.idx /\ cmd'.passed = cmd.passed /\ cmd'.at = cmd.at
      /\ (cmd.pc = "idle" /\ cmd' = cmd) \/ cmd'.turned = t
  BY <1>1, <1>2 DEF CmdType
<1>4. cmd.pc # "idle" => cmd'.turned = t
  BY <1>3
<1>5. cmd.turned => cmd'.turned
  BY <1>3 DEF t
<1>6. /\ lost' \in BOOLEAN
      /\ lost' <=> \/ lost
                   \/ /\ cmd.pc \in {"suddenTim", "suddenMark"}
                      /\ axis'.axis_state # axis.axis_state
  BY Zenon DEF Interrupt
<1> QED BY <1>1, <1>3, <1>4, <1>5, <1>6, Zenon DEF t

LEMMA TickDoes ==
  ASSUME TypeOK, cmd \in CmdType, PTick
  PROVE  /\ Tick /\ cmd' \in CmdType /\ cmd'.pc = cmd.pc
         /\ cmd.pc # "idle" => cmd'.ticks = cmd.ticks + 1
         /\ cmd'.idx = cmd.idx /\ cmd'.passed = cmd.passed /\ cmd'.at = cmd.at
         /\ cmd'.turned = cmd.turned
         /\ axis' = axis /\ cfg' = cfg /\ hung' = hung
         /\ late' = late /\ lost' = lost
         /\ fed' = fed + (IF chan.cw THEN 1 ELSE -1)
         /\ chan.tim /\ chan.dma
         /\ chan'.tim = chan.tim /\ chan'.dma = chan.dma
         /\ chan'.len = chan.len /\ chan'.cndtr = chan.cndtr - 1
         /\ chan'.tc = (chan.tc \/ chan.cndtr - 1 = 0)
         /\ chan'.cw = chan.cw /\ chan'.cmar = chan.cmar
         /\ chan'.ht => chan.ht \/ 2 * (chan.cndtr - 1) <= chan.len
         /\ chan.ht => chan'.ht
         /\ 2 * (chan.cndtr - 1) <= chan.len /\ 2 * chan.cndtr > chan.len
              => chan'.ht
         /\ out' = out + 1
<1>1. Tick
  BY DEF PTick
<1>2. /\ cmd' \in CmdType /\ cmd'.pc = cmd.pc
      /\ cmd.pc # "idle" => cmd'.ticks = cmd.ticks + 1
      /\ cmd'.idx = cmd.idx /\ cmd'.passed = cmd.passed /\ cmd'.at = cmd.at
      /\ cmd'.turned = cmd.turned
  BY WindowAssumption DEF PTick, CmdType
<1> DEFINE left == chan.cndtr - 1
           h == chan.ht \/ (2 * left <= chan.len /\ 2 * chan.cndtr > chan.len)
           t == chan.tc \/ left = 0
<1>3. chan' = [chan EXCEPT !.cndtr = left, !.ht = h, !.tc = t]
  BY <1>1, Zenon DEF Tick
<1>4. /\ chan'.tim = chan.tim /\ chan'.dma = chan.dma
      /\ chan'.len = chan.len /\ chan'.cndtr = left /\ chan'.tc = t
      /\ chan'.cw = chan.cw /\ chan'.ht = h /\ chan'.cmar = chan.cmar
  <2> HIDE DEF left, h, t
  <2> QED BY <1>3 DEF TypeOK, Chan
<1>5. /\ axis' = axis /\ cfg' = cfg /\ hung' = hung
      /\ late' = late /\ lost' = lost
      /\ chan.tim /\ chan.dma
      /\ fed' = fed + (IF chan.cw THEN 1 ELSE -1) /\ out' = out + 1
  BY <1>1 DEF Tick, PTick
<1> QED BY <1>1, <1>2, <1>4, <1>5

LEMMA ArmType ==
  ASSUME TypeOK, NEW a \in Axis, Arm(a)
  PROVE  TypeOK'
<1>1. axis' \in Axis
  <2>1. "asPreparing" \in AxisState
    BY DEF AxisState
  <2> QED BY <2>1, AxisUpdate, Zenon DEF Arm
<1>2. chan' \in Chan
  <2> DEFINE d == hm_motor_set_dir(chan, a.dir = "rdCW")
             s == hm_dma_setup(a, d, TRUE)
  <2>1. (a.dir = "rdCW") \in BOOLEAN
    OBVIOUS
  <2>2. d \in Chan
    BY <2>1 DEF hm_motor_set_dir, TypeOK, Chan
  <2>3. s \in Chan
    BY <2>2, SetupType, Zenon
  <2>4. chan' = [s EXCEPT !.tim = TRUE]
    BY Zenon DEF Arm
  <2> HIDE DEF s
  <2> QED BY <2>3, <2>4 DEF Chan
<1>3. cfg' \in Cfg
  BY DEF Arm, TypeOK, Cfg
<1>4. hung' \in BOOLEAN
  BY Zenon DEF Arm, RampOverrun
<1>5. /\ pins' \in [Lines -> BOOLEAN] /\ exti' \in SUBSET Lines
      /\ fed' \in Int /\ out' \in Nat /\ late' \in BOOLEAN
  BY DEF Arm, TypeOK
<1> QED BY <1>1, <1>2, <1>3, <1>4, <1>5 DEF TypeOK

(* The axis a start arms.                                                  *)
LEMMA FixArmDoes ==
  ASSUME TypeOK, NEW step \in FixSteps, NEW lim \in RampLimits,
         FixArm(step, lim)
  PROVE  \E a \in Axis :
           /\ Arm(a) /\ Filled(a) /\ a.steps_request = Abs(step)
           /\ a.pos = axis.pos
           /\ Begin("start", "mark") /\ IsStoped(axis)
<1> DEFINE dir == IF step < 0 THEN "rdCCW" ELSE "rdCW"
           p == Prepared(axis, dir)
           a == MoveFilled(p, Abs(step), lim)
<1>1. dir \in {"rdCW", "rdCCW"}
  OBVIOUS
<1>2. Abs(step) \in Nat /\ lim \in Nat \ {0}
  BY FixAssumption, RampAssumption DEF Abs
<1>3. Arm(a) /\ Begin("start", "mark") /\ IsStoped(axis)
  BY Zenon DEF FixArm
<1> HIDE DEF dir
<1>4. axis \in Axis
  BY DEF TypeOK
<1>5. p \in Axis
  BY <1>1, <1>4, PreparedType
<1>6. /\ p.pos = axis.pos /\ p.dma_buf_idx = 0 /\ p.gen = 0
      /\ p.dma_buf[0] = EmptyBuf /\ p.dma_buf[1] = EmptyBuf
  BY <1>1, <1>4, PreparedView
<1> HIDE DEF p
<1>7. a \in Axis
  BY <1>2, <1>5, MoveFilledType
<1>8. Filled(a) /\ a.steps_request = Abs(step) /\ a.pos = axis.pos
  BY <1>2, <1>5, <1>6, MoveFilledView
<1> HIDE DEF a
<1> QED BY <1>3, <1>7, <1>8

LEMMA FreeArmDoes ==
  ASSUME TypeOK, NEW dir \in {"rdCW", "rdCCW"}, FreeArm(dir)
  PROVE  \E a \in Axis :
           /\ Arm(a) /\ Filled(a) /\ a.steps_request = HM_INVALID_STEP
           /\ a.pos = axis.pos
           /\ Begin("start", "mark") /\ IsStoped(axis)
<1> DEFINE h == [axis EXCEPT !.bdo_home = FALSE]
           p == Prepared(h, dir)
           a == RunFilled(p)
<1>1. Arm(a) /\ Begin("start", "mark") /\ IsStoped(axis)
  BY Zenon DEF FreeArm
<1>2. h \in Axis
  BY AxisUpdate, Zenon DEF TypeOK
<1>7. h.pos = axis.pos
  BY DEF TypeOK, Axis
<1> HIDE DEF h
<1>3. p \in Axis
  BY <1>2, PreparedType
<1>4. /\ p.pos = h.pos /\ p.dma_buf_idx = 0 /\ p.gen = 0
      /\ p.dma_buf[0] = EmptyBuf /\ p.dma_buf[1] = EmptyBuf
  BY <1>2, PreparedView
<1> HIDE DEF p
<1>5. a \in Axis
  BY <1>3, RunFilledType DEF TypeOK
<1>6. Filled(a) /\ a.steps_request = HM_INVALID_STEP /\ a.pos = axis.pos
  BY <1>3, <1>4, <1>7, RunFilledView DEF TypeOK
<1> HIDE DEF a
<1> QED BY <1>1, <1>5, <1>6

(* The command steps on an axis that is not being started.                 *)
LEMMA StopTypes ==
  ASSUME TypeOK, cmd \in CmdType,
         \/ Mark
         \/ SuddenBegin \/ SuddenDma \/ SuddenTim \/ SuddenMark \/ SuddenCount
  PROVE  TypeOK'
<1>0. axis \in Axis /\ chan \in Chan
  BY DEF TypeOK
<1>1. axis' \in Axis
  <2>1. CASE Mark
    <3>1. "asRuning" \in AxisState
      BY DEF AxisState
    <3> QED BY <1>0, <2>1, <3>1, AxisUpdate, Zenon DEF Mark
  <2>2. CASE SuddenBegin
    BY <1>0, <2>2, AxisUpdate, Zenon DEF SuddenBegin
  <2>3. CASE SuddenDma \/ SuddenTim
    BY <1>0, <2>3 DEF SuddenDma, SuddenTim
  <2>4. CASE SuddenMark
    BY <1>0, <2>4, MarkStopedType DEF SuddenMark
  <2>5. CASE SuddenCount
    <3> DEFINE n == axis.dma_buf[cmd.idx].len - chan.cndtr
    <3>1. n \in Int /\ axis.pos \in Int
      BY <1>0, BufAssumption DEF CmdType, Axis, DmaBuf, Chan
    <3>2. axis' = [axis EXCEPT !.pos = axis.pos + Signed(axis.dir, n)]
      BY <2>5, Zenon DEF SuddenCount
    <3> HIDE DEF n
    <3>3. axis.pos + Signed(axis.dir, n) \in Int
      BY <3>1, SignedType
    <3> QED BY <1>0, <3>2, <3>3, AxisUpdate, Zenon
  <2> QED BY <2>1, <2>2, <2>3, <2>4, <2>5
<1>2. chan' \in Chan
  <2>1. CASE SuddenDma
    BY <1>0, <2>1, SetupType DEF SuddenDma
  <2>2. CASE SuddenTim
    BY <1>0, <2>2 DEF SuddenTim, Chan
  <2> QED BY <1>0, <2>1, <2>2 DEF Mark, SuddenBegin, SuddenMark, SuddenCount
<1>3. UNCHANGED <<cfg, pins, exti, hung, fed, out, late>>
  BY DEF Mark, SuddenBegin, SuddenDma, SuddenTim, SuddenMark, SuddenCount
<1> QED BY <1>1, <1>2, <1>3 DEF TypeOK

LEMMA SmoothTypes ==
  ASSUME TypeOK,
         \/ SmoothBegin \/ SmoothMark \/ SmoothRequest \/ SmoothTaken
         \/ SmoothActual \/ SmoothRamp
  PROVE  TypeOK'
<1>0. axis \in Axis
  BY DEF TypeOK
<1>1. /\ axis.steps_taken \in Nat /\ axis.stop_at \in Nat
      /\ StopSteps \in Nat /\ StopSteps \in Int /\ 0 \in Nat /\ 0 \in Int
      /\ axis.steps_taken + StopSteps \in Nat
  BY <1>0, StopAssumption DEF Axis
<1>2. axis' \in Axis
  <2>0. CASE SmoothBegin
    BY <1>0, <2>0 DEF SmoothBegin, vars
  <2>1. CASE SmoothMark
    BY <1>0, <2>1, AxisUpdate, Zenon DEF SmoothMark
  <2>2. CASE SmoothRequest
    <3> DEFINE n == IF axis.steps_request = HM_INVALID_STEP
                    THEN axis.steps_taken + StopSteps + 1 ELSE axis.stop_at
               r == [axis EXCEPT !.steps_request = StopSteps]
    <3>1. n \in Nat
      BY <1>1
    <3>2. r \in Axis /\ r.stop_at = axis.stop_at
      BY <1>0, <1>1 DEF Axis
    <3> HIDE DEF n, r
    <3>3. axis' = [r EXCEPT !.stop_at = n]
      BY <2>2, <3>2, Zenon DEF SmoothRequest, r, n
    <3> QED BY <3>1, <3>2, <3>3, AxisUpdate, Zenon
  <2>3. CASE SmoothTaken
    <3> DEFINE n == IF axis.stop_at < axis.steps_taken THEN 0
                    ELSE axis.stop_at - axis.steps_taken
               r == [axis EXCEPT !.steps_taken = 0]
    <3>1. n \in Nat
      BY <1>1
    <3>2. r \in Axis /\ r.stop_at = axis.stop_at
      BY <1>0, <1>1 DEF Axis
    <3> HIDE DEF n, r
    <3>3. axis' = [r EXCEPT !.stop_at = n]
      BY <2>3, <3>2, Zenon DEF SmoothTaken, r, n
    <3> QED BY <3>1, <3>2, <3>3, AxisUpdate, Zenon
  <2>4. CASE SmoothActual
    BY <1>0, <1>1, <2>4, AxisUpdate, Zenon DEF SmoothActual
  <2>5. CASE SmoothRamp
    BY <1>0, <1>1, <2>5, AxisUpdate, Zenon DEF SmoothRamp
  <2> QED BY <2>0, <2>1, <2>2, <2>3, <2>4, <2>5
<1>3. UNCHANGED <<cfg, chan, pins, exti, hung, fed, out, late>>
  BY DEF SmoothBegin, SmoothMark, SmoothRequest, SmoothTaken, SmoothActual,
         SmoothRamp, vars
<1> QED BY <1>2, <1>3 DEF TypeOK

(* Where each step of a command goes.                                      *)
LEMMA CommandCmd ==
  ASSUME TypeOK, cmd \in CmdType, Command
  PROVE  cmd' \in CmdType /\ lost' = lost
<1>1. \A op, next : next \in Pc /\ Begin(op, next) =>
        cmd' \in CmdType /\ lost' = lost
  BY BeginDoes
<1>2. \A pc, next : next \in Pc /\ Goto(pc, next) =>
        cmd' \in CmdType /\ lost' = lost
  BY GotoDoes
<1>3. /\ "mark" \in Pc /\ "idle" \in Pc
      /\ "suddenDma" \in Pc /\ "suddenTim" \in Pc /\ "suddenMark" \in Pc
      /\ "suddenCount" \in Pc
      /\ "smoothMark" \in Pc /\ "smoothRequest" \in Pc
      /\ "smoothTaken" \in Pc
      /\ "smoothActual" \in Pc /\ "smoothRamp" \in Pc
      /\ "posState" \in Pc /\ "posCount" \in Pc /\ "posAnswer" \in Pc
  BY DEF Pc
<1>4. CASE PosCount
  <2>1. axis.dma_buf[cmd.idx].len - chan.cndtr \in Int
    BY BufAssumption DEF TypeOK, CmdType, Axis, DmaBuf, Chan
  <2> QED BY <1>3, <1>4, <2>1, CmdUpdate, Zenon DEF PosCount
<1>5. CASE PosState
  <2>1. (IF IsStoped(axis) THEN "posAnswer" ELSE "posCount") \in Pc
    BY <1>3
  <2> QED BY <1>2, <1>5, <2>1, Zenon DEF PosState
<1>6. ASSUME NEW flag \in SettingFlags, NEW v \in SettingValues,
             Setting(flag, v)
      PROVE  cmd' \in CmdType /\ lost' = lost
  BY <1>6 DEF Setting
<1> QED BY <1>1, <1>2, <1>3, <1>4, <1>5, <1>6, Zenon
  DEF Command, FixArm, FreeArm, Mark, SuddenBegin, SuddenDma, SuddenTim,
      SuddenMark, SuddenCount, SmoothBegin, SmoothMark, SmoothRequest,
      SmoothTaken, SmoothActual, SmoothRamp, PosBegin, PosAnswer

LEMMA SettingTypes ==
  ASSUME TypeOK, NEW flag \in SettingFlags, NEW v \in SettingValues,
         Setting(flag, v)
  PROVE  TypeOK'
<1>1. SetAxisSetting(flag, v)
  BY DEF Setting
<1> QED BY <1>1, TypeStep, Zenon DEF Next

LEMMA CommandTypes ==
  ASSUME TypeOK, cmd \in CmdType, Command
  PROVE  TypeOK'
<1>1. ASSUME NEW step \in FixSteps, NEW lim \in RampLimits, FixArm(step, lim)
      PROVE  TypeOK'
  BY <1>1, FixArmDoes, ArmType
<1>2. ASSUME NEW dir \in {"rdCW", "rdCCW"}, FreeArm(dir)
      PROVE  TypeOK'
  BY <1>2, FreeArmDoes, ArmType
<1>3. CASE PosBegin \/ PosState \/ PosCount \/ PosAnswer
  BY <1>3 DEF PosBegin, PosState, PosCount, PosAnswer, vars, TypeOK
<1> QED BY <1>1, <1>2, <1>3, StopTypes, SmoothTypes, SettingTypes, Zenon
  DEF Command

LEMMA HandlerStep ==
  ASSUME PNext
  PROVE  \/ PTick
         \/ Command
         \/ \E l \in Lines : Interrupt(SensorChange(l)) \/ Interrupt(ExtiIrq(l))
         \/ Interrupt(DmaIrq)
         \/ Interrupt(LimitCheck)
BY Zenon DEF PNext

LEMMA PTypeStep ==
  ASSUME PTypeOK, [PNext]_pvars
  PROVE  PTypeOK'
<1>0. TypeOK /\ cmd \in CmdType /\ lost \in BOOLEAN
  BY DEF PTypeOK, CmdType
<1>1. CASE PTick
  BY <1>0, <1>1, TickDoes, HandlerTypes DEF PTypeOK, CmdType
<1>2. CASE Command
  BY <1>0, <1>2, CommandCmd, CommandTypes DEF PTypeOK, CmdType
<1>3. ASSUME NEW l \in Lines, Interrupt(SensorChange(l))
      PROVE  PTypeOK'
  <2>1. SensorChange(l) /\ cmd' \in CmdType /\ lost' \in BOOLEAN
    BY <1>0, <1>3, InterruptDoes
  <2> QED BY <1>0, <2>1, HandlerTypes DEF Handler, PTypeOK, CmdType
<1>4. ASSUME NEW l \in Lines, Interrupt(ExtiIrq(l))
      PROVE  PTypeOK'
  <2>1. ExtiIrq(l) /\ cmd' \in CmdType /\ lost' \in BOOLEAN
    BY <1>0, <1>4, InterruptDoes
  <2> QED BY <1>0, <2>1, HandlerTypes DEF Handler, PTypeOK, CmdType
<1>5. CASE Interrupt(DmaIrq)
  <2>1. DmaIrq /\ cmd' \in CmdType /\ lost' \in BOOLEAN
    BY <1>0, <1>5, InterruptDoes
  <2> QED BY <1>0, <2>1, HandlerTypes DEF Handler, PTypeOK, CmdType
<1>6. CASE Interrupt(LimitCheck)
  <2>1. LimitCheck /\ cmd' \in CmdType /\ lost' \in BOOLEAN
    BY <1>0, <1>6, InterruptDoes
  <2> QED BY <1>0, <2>1, HandlerTypes DEF Handler, PTypeOK, CmdType
<1>7. CASE UNCHANGED pvars
  BY <1>7 DEF pvars, PTypeOK, TypeOK
<1> QED BY <1>1, <1>2, <1>3, <1>4, <1>5, <1>6, <1>7, HandlerStep, Zenon

(* The data of the axis stays in range although a command is interrupted   *)
(* between any two of its accesses.                                        *)
THEOREM PreemptTypes == PSpec => []PTypeOK
<1>1. PInit => PTypeOK
  BY TypeInit, IdleType DEF PInit, PTypeOK, CmdType
<1>2. PTypeOK /\ [PNext]_pvars => PTypeOK'
  BY PTypeStep
<1> QED BY <1>1, <1>2, PTL DEF PSpec

-----------------------------------------------------------------------------
(* What a handler does to the label and to the channel.                    *)

(* Nothing that InvLabel speaks of changes.                                *)
Quiet ==
  /\ axis'.axis_state = axis.axis_state
  /\ chan'.tim = chan.tim /\ chan'.dma = chan.dma /\ chan'.tc = chan.tc
  /\ chan'.len = chan.len /\ chan'.cndtr = chan.cndtr

(* The axis is stopped, label and channel.                                 *)
Stops ==
  axis'.axis_state = "asStoped" /\ ~chan'.tim /\ ~chan'.dma /\ ~chan'.tc

LEMMA HalfView ==
  ASSUME TypeOK
  PROVE  /\ AfterHalf \in Axis
         /\ AfterHalf.axis_state = axis.axis_state
<1>1. axis \in Axis /\ AfterHalf \in Axis
  BY AfterHalfType DEF TypeOK
<1>2. CASE chan.ht /\ ~Other(axis).valid
  <2>1. SameMotion(hm_dma_fill_next_buf(axis), axis)
    BY <1>1, <1>2, FillNextView
  <2> QED BY <1>1, <1>2, <2>1 DEF AfterHalf, SameMotion
<1>3. CASE ~(chan.ht /\ ~Other(axis).valid)
  <2>1. AfterHalf = axis
    BY <1>3, Zenon DEF AfterHalf, hm_dma_fill_next_buf, Other
  <2> QED BY <1>1, <2>1
<1> QED BY <1>2, <1>3

LEMMA HalfDoes ==
  ASSUME TypeOK, DmaHalf
  PROVE  Quiet
<1>1. axis' = AfterHalf /\ chan' = [chan EXCEPT !.ht = FALSE]
  BY DEF DmaHalf
<1>2. chan \in Chan
  BY DEF TypeOK
<1>3. /\ chan'.tim = chan.tim /\ chan'.dma = chan.dma /\ chan'.tc = chan.tc
      /\ chan'.len = chan.len /\ chan'.cndtr = chan.cndtr
  BY <1>1, <1>2 DEF Chan
<1> QED BY <1>1, <1>3, HalfView DEF Quiet

LEMMA SetupView ==
  ASSUME NEW a \in Axis, NEW c \in Chan, NEW en \in BOOLEAN
  PROVE  LET s == hm_dma_setup(a, c, en)
         IN /\ s \in Chan
            /\ s.dma = en /\ s.tim = c.tim /\ s.tc = c.tc
            /\ s.ht = c.ht /\ s.cw = c.cw
            /\ c.dma => s.cndtr = c.cndtr /\ s.len = c.len
            /\ c.dma => s.cmar = c.cmar
            /\ ~c.dma => s.cndtr = Cur(a).len /\ s.len = Cur(a).len
            /\ ~c.dma => s.cmar = a.dma_buf_idx
<1>1. hm_dma_setup(a, c, en) \in Chan
  BY SetupType
<1> QED BY <1>1 DEF hm_dma_setup, Chan

LEMMA CompleteDoes ==
  ASSUME TypeOK, DmaComplete
  PROVE  \/ Stops
         \/ /\ axis'.axis_state = axis.axis_state
            /\ chan'.tim /\ chan'.dma /\ ~chan'.tc
         \/ Quiet
<1> DEFINE a == AfterHalf
           c == Counted(a)
           next == [c EXCEPT !.dma_buf_idx = OtherBlock(a)]
           done == MarkStoped([c EXCEPT !.bstopping = FALSE])
           off == [chan EXCEPT !.dma = FALSE]
           sd == hm_dma_setup(done, chan, FALSE)
           sn == hm_dma_setup(next, off, TRUE)
<1>1. chan \in Chan /\ off \in Chan /\ off.tim = chan.tim
  BY DEF TypeOK, Chan
<1>2. a \in Axis /\ a.axis_state = axis.axis_state
  BY HalfView
<1>3. CASE RampOverrun(a)
  BY <1>2, <1>3 DEF DmaComplete, Quiet
<1>4. CASE ~RampOverrun(a)
  <2>1. hm_dma_ck(a)
    BY <1>4, Zenon DEF DmaComplete
  <2> HIDE DEF a
  <2>2. c \in Axis /\ c.axis_state = axis.axis_state
    BY <1>2, CountedView
  <2> HIDE DEF c
  <2>3. next \in Axis /\ next.axis_state = axis.axis_state
    <3>1. next \in Axis
      BY <1>2, <2>2, OtherBlockType, AxisUpdate, Zenon
    <3> QED BY <2>2, <3>1 DEF Axis
  <2>4. done \in Axis /\ done.axis_state = "asStoped"
    <3> DEFINE b == [c EXCEPT !.bstopping = FALSE]
    <3>1. b \in Axis
      BY <2>2, AxisUpdate, Zenon
    <3>2. done = MarkStoped(b)
      OBVIOUS
    <3> HIDE DEF b, done
    <3>3. done \in Axis
      BY <3>1, <3>2, MarkStopedType
    <3> QED BY <3>1, <3>2, <3>3 DEF MarkStoped, Axis
  <2> HIDE DEF next, done, off
  <2>5. sd \in Chan /\ sd.dma = FALSE /\ sn \in Chan /\ sn.dma = TRUE
    BY <1>1, <2>3, <2>4, SetupView
  <2> HIDE DEF sd, sn
  <2>6. CASE ~MoreToSend(c)
    <3>1. /\ axis' = done
          /\ chan' = [sd EXCEPT !.tim = FALSE, !.ht = FALSE, !.tc = FALSE]
      BY <2>1, <2>6, Zenon DEF hm_dma_ck, c, done, sd
    <3> QED BY <2>4, <2>5, <3>1 DEF Stops, Chan
  <2>7. CASE MoreToSend(c) /\ Cur(next).valid
    <3>1. /\ axis' = next
          /\ chan' = [sn EXCEPT !.tim = TRUE, !.ht = FALSE, !.tc = FALSE]
      BY <2>1, <2>7, Zenon DEF hm_dma_ck, c, next, sn, off
    <3> QED BY <2>3, <2>5, <3>1 DEF Chan
  <2>8. CASE MoreToSend(c) /\ ~Cur(next).valid
    <3>1. axis' = c /\ chan' = [chan EXCEPT !.ht = FALSE]
      BY <2>1, <2>8, Zenon DEF hm_dma_ck, c, next
    <3> QED BY <1>1, <2>2, <3>1 DEF Quiet, Chan
  <2> QED BY <2>6, <2>7, <2>8
<1> QED BY <1>3, <1>4

LEMMA LimitStopDoes ==
  ASSUME TypeOK, ~late', NEW s \in Axis, s.axis_state = axis.axis_state,
         LimitStop(s)
  PROVE  Stops \/ Quiet
<1>0. chan \in Chan
  BY DEF TypeOK
<1>1. CASE cfg.bStopImmediatelyCW
  <2> DEFINE d == hm_dma_setup(s, chan, FALSE)
             m == MarkStoped(s)
             n == m.pos + Signed(s.dir, Cur(s).len - SuddenChan(s, chan).cndtr)
  <2>1. /\ axis' = SuddenAxis(s, chan) /\ chan' = [d EXCEPT !.tim = FALSE]
        /\ ~chan.tc
    BY <1>1 DEF LimitStop, SuddenChan
  <2>2. d \in Chan /\ d.dma = FALSE /\ d.tc = chan.tc
    BY <1>0, SetupView
  <2> HIDE DEF d
  <2>3. ~chan'.tim /\ ~chan'.dma /\ ~chan'.tc
    BY <2>1, <2>2 DEF Chan
  <2>4. m \in Axis /\ m.axis_state = "asStoped"
    <3>1. m \in Axis
      BY MarkStopedType
    <3> QED BY <3>1 DEF MarkStoped, Axis
  <2>5. [m EXCEPT !.bstopping = FALSE].pos = m.pos
    BY <2>4 DEF Axis
  <2> HIDE DEF m, n
  <2>6. axis' = [[m EXCEPT !.bstopping = FALSE] EXCEPT !.pos = n]
    BY <2>1, <2>5, Zenon DEF SuddenAxis, m, n
  <2>7. axis'.axis_state = "asStoped"
    BY <2>4, <2>6 DEF Axis
  <2> QED BY <2>3, <2>7 DEF Stops
<1>2. CASE ~cfg.bStopImmediatelyCW
  <2>1. axis' = hm_step_motor_stop_smooth(s) /\ chan' = chan
    BY <1>2 DEF LimitStop
  <2>2. axis'.axis_state = s.axis_state
    BY <2>1 DEF hm_step_motor_stop_smooth, Axis
  <2> QED BY <2>1, <2>2 DEF Quiet
<1> QED BY <1>1, <1>2

(* A limit handler that is in time stops a running axis, or leaves label   *)
(* and channel alone.                                                      *)
LEMMA LimitDoes ==
  ASSUME TypeOK, ~late', LimitCheck \/ \E l \in Lines : ExtiIrq(l)
  PROVE  Quiet \/ (axis.axis_state = "asRuning" /\ Stops)
<1>0. axis \in Axis
  BY DEF TypeOK
<1>1. CASE LimitCheck
  <2> DEFINE seen == IF axis.axis_state = "asRuning" /\ axis.bdo_home
                     THEN [axis EXCEPT !.blast_hit_home = pins["Home"]]
                     ELSE axis
             stop == \/ HitWhileRunning("CW")
                     \/ HitWhileRunning("CCW")
                     \/ HitWhileRunning("Home")
                        /\ (cfg.bhome_stop_low_triger \/ ~axis.blast_hit_home)
  <2>1. IF stop THEN LimitStop(seen) ELSE axis' = seen /\ UNCHANGED chan
    BY <1>1, Zenon DEF LimitCheck
  <2>2. seen \in Axis
    <3>1. pins["Home"] \in BOOLEAN
      BY DEF TypeOK, Lines
    <3> QED BY <1>0, <3>1, AxisUpdate, Zenon
  <2>3. seen.axis_state = axis.axis_state
    BY <1>0 DEF Axis
  <2>4. stop => axis.axis_state = "asRuning"
    BY DEF HitWhileRunning
  <2> HIDE DEF seen, stop
  <2> QED BY <1>0, <2>1, <2>2, <2>3, <2>4, LimitStopDoes DEF Quiet
<1>2. ASSUME NEW l \in Lines, ExtiIrq(l)
      PROVE  Quiet \/ (axis.axis_state = "asRuning" /\ Stops)
  <2>1. \/ axis.axis_state = "asRuning" /\ LimitStop(axis)
        \/ UNCHANGED <<axis, chan>>
    BY <1>2, Zenon DEF ExtiIrq, HitWhileRunning
  <2> QED BY <1>0, <2>1, LimitStopDoes DEF Quiet
<1> QED BY <1>1, <1>2

-----------------------------------------------------------------------------
(* Every step keeps InvLabel.                                              *)

LEMMA QuietKept ==
  ASSUME InvLabel, Quiet, cmd'.pc = cmd.pc, cmd'.ticks = cmd.ticks
  PROVE  InvLabel'
BY DEF InvLabel, Quiet, Agree, AgreeMark, AgreeSudden

LEMMA StopsKept ==
  ASSUME InvLabel, axis.axis_state = "asRuning", Stops, cmd'.pc = cmd.pc
  PROVE  InvLabel'
BY DEF InvLabel, Stops, Agree, AgreeMark, AgreeSudden

LEMMA CompleteKept ==
  ASSUME TypeOK, InvLabel, DmaComplete, cmd'.pc = cmd.pc, cmd'.ticks = cmd.ticks
  PROVE  InvLabel'
<1>1. chan.tc
  BY DEF DmaComplete
<1>2. axis.axis_state \in AxisState
  BY DEF TypeOK, Axis
<1>3. Agree /\ cmd.pc \notin {"mark", "suddenTim", "suddenMark", "suddenCount"}
  BY <1>1 DEF InvLabel, AgreeMark, AgreeSudden
<1>4. axis.axis_state = "asRuning"
  BY <1>1, <1>2, <1>3 DEF Agree, AxisState
<1>5. CASE /\ axis'.axis_state = axis.axis_state
           /\ chan'.tim /\ chan'.dma /\ ~chan'.tc
  BY <1>3, <1>4, <1>5 DEF InvLabel, Agree
<1> QED BY <1>4, <1>5, CompleteDoes, QuietKept, StopsKept

LEMMA TickKept ==
  ASSUME TypeOK, cmd \in CmdType, InvLabel, PTick
  PROVE  InvLabel'
<1>1. /\ cmd' \in CmdType /\ cmd'.pc = cmd.pc
      /\ cmd.pc # "idle" => cmd'.ticks = cmd.ticks + 1
      /\ axis' = axis
      /\ chan.tim /\ chan.dma
      /\ chan'.tim = chan.tim /\ chan'.dma = chan.dma
      /\ chan'.len = chan.len /\ chan'.cndtr = chan.cndtr - 1
      /\ chan'.tc = (chan.tc \/ chan.cndtr - 1 = 0)
  BY TickDoes
<1>2. chan.cndtr > 0
  BY DEF PTick, Tick
<1>3. CASE cmd.pc = "mark"
  <2>1. chan.cndtr \in Nat /\ chan.len \in Nat /\ Window \in Nat
    BY WindowAssumption DEF TypeOK, Chan
  <2>2. cmd.ticks \in 0 .. Window /\ cmd'.ticks \in 0 .. Window
    BY <1>1 DEF CmdType
  <2>3. AgreeMark
    BY <1>3 DEF InvLabel
  <2>4. chan.cndtr - 1 # 0 /\ chan'.cndtr + cmd'.ticks = chan'.len
    BY <1>1, <1>2, <1>3, <2>1, <2>2, <2>3 DEF AgreeMark
  <2>5. AgreeMark'
    BY <1>1, <2>3, <2>4 DEF AgreeMark
  <2> QED BY <1>1, <1>3, <2>5 DEF InvLabel
<1>4. CASE cmd.pc \in {"suddenTim", "suddenMark", "suddenCount"}
  BY <1>1, <1>4 DEF InvLabel, AgreeSudden
<1>5. CASE cmd.pc \notin {"mark", "suddenTim", "suddenMark", "suddenCount"}
  <2>1. Agree
    BY <1>5 DEF InvLabel
  <2>2. Agree'
    BY <1>1, <2>1 DEF Agree
  <2> QED BY <1>1, <1>5, <2>2 DEF InvLabel
<1> QED BY <1>3, <1>4, <1>5

(* A start arms the channel with a first buffer that outlasts the command. *)
LEMMA ArmKept ==
  ASSUME TypeOK, InvLabel, NEW a \in Axis, Arm(a), Filled(a),
         Begin("start", "mark"), IsStoped(axis),
         Window < HM_DMA_BUF_SIZE,
         \/ a.steps_request = HM_INVALID_STEP
         \/ a.steps_request = 0
         \/ a.steps_request > Window
  PROVE  InvLabel'
<1>1. cmd'.pc = "mark" /\ cmd'.ticks = 0 /\ cmd.pc = "idle" /\ EthMayRun
  <2>1. "mark" \in Pc
    BY DEF Pc
  <2> QED BY <2>1, BeginDoes
<1>2. ~chan.dma /\ ~chan.tc /\ chan \in Chan
  BY <1>1 DEF InvLabel, Agree, IsStoped, TypeOK
<1>3. axis'.axis_state = "asPreparing"
  BY DEF Arm, Axis
<1> DEFINE d == hm_motor_set_dir(chan, a.dir = "rdCW")
           s == hm_dma_setup(a, d, TRUE)
<1>4. d \in Chan /\ ~d.dma /\ d.tc = chan.tc
  <2> DEFINE b == (a.dir = "rdCW")
  <2>1. b \in BOOLEAN
    OBVIOUS
  <2> HIDE DEF b
  <2>2. [chan EXCEPT !.cw = b] \in Chan
    BY <1>2, <2>1 DEF Chan
  <2>3. d = [chan EXCEPT !.cw = b]
    BY DEF hm_motor_set_dir, b
  <2> QED BY <1>2, <2>2, <2>3 DEF Chan
<1> HIDE DEF d
<1>5. /\ s \in Chan /\ s.dma /\ ~s.tc
      /\ s.cndtr = Cur(a).len /\ s.len = Cur(a).len
  BY <1>2, <1>4, SetupView
<1> HIDE DEF s
<1>6. chan' = [s EXCEPT !.tim = TRUE]
  BY Zenon DEF Arm, s, d
<1>7. /\ chan'.tim /\ chan'.dma /\ ~chan'.tc
      /\ chan'.cndtr = Cur(a).len /\ chan'.len = Cur(a).len
  BY <1>5, <1>6 DEF Chan
<1>8. Cur(a).len \in 0 .. HM_DMA_BUF_SIZE
  BY CurType
<1>9. Cur(a).len = 0 \/ Cur(a).len > Window
  <2>1. a.steps_request = HM_INVALID_STEP => Cur(a).len = HM_DMA_BUF_SIZE
    BY DEF Filled
  <2>2. a.steps_request # HM_INVALID_STEP /\ Cur(a).len < HM_DMA_BUF_SIZE
          => Cur(a).len = a.steps_request
    BY DEF Filled
  <2> QED BY <1>8, <2>1, <2>2, BufAssumption, WindowAssumption
<1>10. AgreeMark'
  BY <1>1, <1>3, <1>7, <1>8, <1>9 DEF AgreeMark
<1> QED BY <1>1, <1>10 DEF InvLabel

LEMMA SuddenStepKept ==
  ASSUME TypeOK, cmd \in CmdType, InvLabel,
         \/ Mark
         \/ SuddenBegin \/ SuddenDma \/ SuddenTim \/ SuddenMark \/ SuddenCount
  PROVE  InvLabel'
<1>0. axis \in Axis /\ chan \in Chan
  BY DEF TypeOK
<1>1. \A next \in Pc : \A op : Begin(op, next) =>
        cmd'.pc = next /\ cmd.pc = "idle" /\ EthMayRun
  BY BeginDoes
<1>2. \A next \in Pc : \A pc : Goto(pc, next) =>
        cmd'.pc = next /\ cmd.pc = pc /\ EthMayRun
  BY GotoDoes
<1>3. /\ "idle" \in Pc /\ "suddenDma" \in Pc /\ "suddenTim" \in Pc
      /\ "suddenMark" \in Pc /\ "suddenCount" \in Pc
  BY DEF Pc
<1>4. EthMayRun => ~chan.tc
  BY DEF EthMayRun
<1>5. CASE Mark
  <2>1. cmd'.pc = "idle" /\ cmd.pc = "mark" /\ chan' = chan
    BY <1>2, <1>3, <1>5, Zenon DEF Mark
  <2>2. axis'.axis_state = "asRuning"
    BY <1>0, <1>5 DEF Mark, Axis
  <2> QED BY <2>1, <2>2 DEF InvLabel, AgreeMark, Agree
<1>6. CASE SuddenBegin
  <2>1. cmd'.pc = "suddenDma" /\ cmd.pc = "idle" /\ chan' = chan
    BY <1>1, <1>3, <1>6, Zenon DEF SuddenBegin
  <2>2. axis'.axis_state = axis.axis_state
    BY <1>0, <1>6 DEF SuddenBegin, Axis
  <2> QED BY <2>1, <2>2 DEF InvLabel, Agree
<1>7. CASE SuddenDma
  <2>1. /\ cmd'.pc = "suddenTim" /\ cmd.pc = "suddenDma" /\ ~chan.tc
        /\ axis' = axis /\ chan' = hm_dma_setup(axis, chan, FALSE)
    BY <1>2, <1>3, <1>4, <1>7, Zenon DEF SuddenDma
  <2>2. ~chan'.dma /\ chan'.tim = chan.tim /\ ~chan'.tc
    <3> DEFINE d == hm_dma_setup(axis, chan, FALSE)
    <3>1. d.dma = FALSE /\ d.tim = chan.tim /\ d.tc = chan.tc
      BY <1>0, SetupView
    <3> HIDE DEF d
    <3>2. chan' = d
      BY <2>1 DEF d
    <3> QED BY <2>1, <3>1, <3>2
  <2>3. Agree
    BY <2>1 DEF InvLabel
  <2>4. AgreeSudden'
    BY <2>1, <2>2, <2>3 DEF Agree, AgreeSudden
  <2> QED BY <2>1, <2>4 DEF InvLabel
<1>8. CASE SuddenTim
  <2>1. /\ cmd'.pc = "suddenMark" /\ cmd.pc = "suddenTim"
        /\ axis' = axis /\ chan' = [chan EXCEPT !.tim = FALSE]
    BY <1>2, <1>3, <1>8, Zenon DEF SuddenTim
  <2>2. chan'.dma = chan.dma /\ ~chan'.tim /\ chan'.tc = chan.tc
    BY <1>0, <2>1 DEF Chan
  <2>3. AgreeSudden
    BY <2>1 DEF InvLabel
  <2>4. AgreeSudden'
    BY <2>1, <2>2, <2>3 DEF AgreeSudden
  <2> QED BY <2>1, <2>4 DEF InvLabel
<1>9. CASE SuddenMark
  <2>1. /\ cmd'.pc = "suddenCount" /\ cmd.pc = "suddenMark"
        /\ axis' = MarkStoped(axis) /\ chan' = chan
    BY <1>2, <1>3, <1>9, Zenon DEF SuddenMark
  <2>2. axis'.axis_state = "asStoped"
    BY <1>0, <2>1 DEF MarkStoped, Axis
  <2>3. AgreeSudden
    BY <2>1 DEF InvLabel
  <2>4. AgreeSudden'
    BY <2>1, <2>2, <2>3 DEF AgreeSudden
  <2> QED BY <2>1, <2>4 DEF InvLabel
<1>10. CASE SuddenCount
  <2>1. cmd'.pc = "idle" /\ cmd.pc = "suddenCount" /\ chan' = chan
    BY <1>2, <1>3, <1>10, Zenon DEF SuddenCount
  <2>2. axis'.axis_state = axis.axis_state
    <3> DEFINE n == axis.pos + Signed(axis.dir,
                                      axis.dma_buf[cmd.idx].len - chan.cndtr)
    <3>1. axis' = [axis EXCEPT !.pos = n]
      BY <1>10, Zenon DEF SuddenCount
    <3> HIDE DEF n
    <3> QED BY <1>0, <3>1 DEF Axis
  <2>3. AgreeSudden
    BY <2>1 DEF InvLabel
  <2>4. Agree'
    BY <2>1, <2>2, <2>3 DEF AgreeSudden, Agree
  <2> QED BY <2>1, <2>4 DEF InvLabel
<1> QED BY <1>5, <1>6, <1>7, <1>8, <1>9, <1>10

(* A smooth stop and a position query touch neither label nor channel.     *)
LEMMA OtherStepKept ==
  ASSUME TypeOK, cmd \in CmdType, InvLabel,
         \/ SmoothBegin \/ SmoothMark \/ SmoothRequest \/ SmoothTaken
         \/ SmoothActual \/ SmoothRamp
         \/ PosBegin \/ PosState \/ PosCount \/ PosAnswer
  PROVE  InvLabel'
<1> DEFINE Plain == Pc \ {"mark", "suddenTim", "suddenMark", "suddenCount"}
<1>0. axis \in Axis /\ cmd.pc \in Pc
  BY DEF TypeOK, CmdType
<1>1. \A next \in Pc : \A op : Begin(op, next) =>
        cmd'.pc = next /\ cmd.pc = "idle"
  BY BeginDoes
<1>2. \A next \in Pc : \A pc : Goto(pc, next) => cmd'.pc = next /\ cmd.pc = pc
  BY GotoDoes
<1>3. /\ "idle" \in Plain
      /\ "smoothMark" \in Plain
      /\ "smoothRequest" \in Plain /\ "smoothTaken" \in Plain
      /\ "smoothActual" \in Plain /\ "smoothRamp" \in Plain
      /\ "posState" \in Plain /\ "posCount" \in Plain /\ "posAnswer" \in Plain
  BY DEF Pc
<1>4. \A p \in Plain : p \in Pc
  OBVIOUS
<1>5. cmd.pc \in Plain /\ cmd'.pc \in Plain
  <2> HIDE DEF Plain
  <2>1. CASE PosCount
    <3>1. cmd.pc = "posCount" /\ cmd'.pc = "posAnswer"
      BY <2>1 DEF PosCount, CmdType
    <3> QED BY <1>3, <3>1
  <2>2. CASE PosState
    <3>1. \/ Goto("posState", "posAnswer")
          \/ Goto("posState", "posCount")
      BY <2>2 DEF PosState
    <3> QED BY <1>2, <1>3, <1>4, <3>1, Zenon
  <2> QED BY <1>1, <1>2, <1>3, <1>4, <2>1, <2>2, Zenon
    DEF SmoothBegin, SmoothMark, SmoothRequest, SmoothTaken, SmoothActual,
        SmoothRamp, PosBegin, PosAnswer
<1>6. chan' = chan /\ axis'.axis_state = axis.axis_state
  <2>1. CASE SmoothBegin \/ PosBegin \/ PosState \/ PosCount \/ PosAnswer
    BY <2>1 DEF SmoothBegin, PosBegin, PosState, PosCount, PosAnswer, vars
  <2>2. CASE SmoothMark
    BY <1>0, <2>2 DEF SmoothMark, Axis
  <2>3. CASE SmoothRequest
    BY <1>0, <2>3 DEF SmoothRequest, Axis
  <2>4. CASE SmoothTaken
    BY <1>0, <2>4 DEF SmoothTaken, Axis
  <2>5. CASE SmoothActual
    BY <1>0, <2>5 DEF SmoothActual, Axis
  <2>6. CASE SmoothRamp
    BY <1>0, <2>6 DEF SmoothRamp, Axis
  <2> QED BY <2>1, <2>2, <2>3, <2>4, <2>5, <2>6
<1>7. Agree
  BY <1>5 DEF InvLabel
<1>8. Agree'
  BY <1>6, <1>7 DEF Agree
<1> QED BY <1>5, <1>8 DEF InvLabel

(* The bounds under which a command is short: fewer pulses than a buffer,  *)
(* or than a short fixed move, has steps.                                  *)
ShortCommands ==
  /\ Window < HM_DMA_BUF_SIZE
  /\ \A s \in FixSteps : s = 0 \/ Abs(s) > Window

LEMMA CommandKept ==
  ASSUME TypeOK, cmd \in CmdType, InvLabel, ShortCommands, Command
  PROVE  InvLabel'
<1>1. ASSUME NEW step \in FixSteps, NEW lim \in RampLimits, FixArm(step, lim)
      PROVE  InvLabel'
  <2>1. PICK a \in Axis :
          /\ Arm(a) /\ Filled(a) /\ a.steps_request = Abs(step)
          /\ Begin("start", "mark") /\ IsStoped(axis)
    BY <1>1, FixArmDoes
  <2>2. Abs(step) = 0 \/ Abs(step) > Window
    <3>1. CASE step = 0
      BY <3>1 DEF Abs
    <3> QED BY <3>1 DEF ShortCommands
  <2>3. Window < HM_DMA_BUF_SIZE
    BY DEF ShortCommands
  <2> QED BY <2>1, <2>2, <2>3, ArmKept
<1>2. ASSUME NEW dir \in {"rdCW", "rdCCW"}, FreeArm(dir)
      PROVE  InvLabel'
  <2>1. Window < HM_DMA_BUF_SIZE
    BY DEF ShortCommands
  <2> QED BY <1>2, <2>1, FreeArmDoes, ArmKept
<1>3. ASSUME NEW flag \in SettingFlags, NEW v \in SettingValues,
             Setting(flag, v)
      PROVE  InvLabel'
  BY <1>3, QuietKept DEF Setting, SetAxisSetting, Quiet
<1> QED BY <1>1, <1>2, <1>3, SuddenStepKept, OtherStepKept, Zenon DEF Command

LEMMA LabelStep ==
  ASSUME PTypeOK, InvLabel, ~late', ShortCommands, [PNext]_pvars
  PROVE  InvLabel'
<1>0. TypeOK /\ cmd \in CmdType
  BY DEF PTypeOK, CmdType
<1>1. CASE PTick
  BY <1>0, <1>1, TickKept
<1>2. CASE Command
  BY <1>0, <1>2, CommandKept
<1>3. ASSUME NEW l \in Lines, Interrupt(SensorChange(l))
      PROVE  InvLabel'
  <2>1. SensorChange(l) /\ cmd'.pc = cmd.pc /\ cmd'.ticks = cmd.ticks
    BY <1>0, <1>3, InterruptDoes
  <2> QED BY <2>1, QuietKept DEF SensorChange, Quiet
<1>4. ASSUME NEW l \in Lines, Interrupt(ExtiIrq(l))
      PROVE  InvLabel'
  <2>1. ExtiIrq(l) /\ cmd'.pc = cmd.pc /\ cmd'.ticks = cmd.ticks
    BY <1>0, <1>4, InterruptDoes
  <2> QED BY <1>0, <2>1, LimitDoes, QuietKept, StopsKept
<1>5. CASE Interrupt(DmaIrq)
  <2>1. DmaIrq /\ cmd'.pc = cmd.pc /\ cmd'.ticks = cmd.ticks
    BY <1>0, <1>5, InterruptDoes
  <2> QED BY <1>0, <2>1, HalfDoes, QuietKept, CompleteKept DEF DmaIrq
<1>6. CASE Interrupt(LimitCheck)
  <2>1. LimitCheck /\ cmd'.pc = cmd.pc /\ cmd'.ticks = cmd.ticks
    BY <1>0, <1>6, InterruptDoes
  <2> QED BY <1>0, <2>1, LimitDoes, QuietKept, StopsKept
<1>7. CASE UNCHANGED pvars
  BY <1>7, QuietKept DEF pvars, Quiet
<1> QED BY <1>1, <1>2, <1>3, <1>4, <1>5, <1>6, <1>7, HandlerStep, Zenon

(* A limit stop that came late stays so.                                   *)
LEMMA PLateStays ==
  ASSUME late, [PNext]_pvars
  PROVE  late'
<1>1. \A s : LimitStop(s) => late'
  BY DEF LimitStop
<1>2. ASSUME LimitCheck \/ (\E l \in Lines : ExtiIrq(l))
      PROVE  late'
  <2>1. CASE LimitCheck
    BY <1>1, <2>1, Zenon DEF LimitCheck
  <2>2. CASE \E l \in Lines : ExtiIrq(l)
    BY <1>1, <2>2, Zenon DEF ExtiIrq
  <2> QED BY <1>2, <2>1, <2>2
<1>3. CASE Command
  BY <1>3, Zenon
    DEF Command, FixArm, FreeArm, Arm, Mark, SuddenBegin, SuddenDma, SuddenTim,
      SuddenMark, SuddenCount, SmoothBegin, SmoothMark, SmoothRequest,
      SmoothTaken, SmoothActual, SmoothRamp, PosBegin, PosState, PosCount,
      PosAnswer, Setting, SetAxisSetting, vars
<1>4. CASE PTick
  BY <1>4 DEF PTick, Tick
<1>5. \A l \in Lines : SensorChange(l) => late'
  BY DEF SensorChange
<1>6. DmaIrq => late'
  BY DEF DmaIrq, DmaHalf, DmaComplete
<1>7. CASE UNCHANGED pvars
  BY <1>7 DEF pvars
<1> QED BY <1>2, <1>3, <1>4, <1>5, <1>6, <1>7, HandlerStep, Zenon
  DEF Interrupt

(* Between commands an axis marked asRuning has its timer and its channel  *)
(* on and an axis marked asStoped has them off, although a start marks     *)
(* asRuning after it switched the timer on, a sudden stop marks asStoped   *)
(* after it switched it off, and limit handlers stop the axis in between.  *)
THEOREM LabelsAreTrue ==
  ASSUME ShortCommands
  PROVE  PSpec => []LabelIsTrue
<1> DEFINE I == PTypeOK /\ (~late => InvLabel)
<1>1. PInit => I
  <2> SUFFICES ASSUME PInit
               PROVE  PTypeOK /\ InvLabel
    OBVIOUS
  <2>1. PTypeOK
    BY TypeInit, IdleType DEF PInit, PTypeOK, CmdType
  <2>2. /\ axis.axis_state = "asStoped" /\ cmd.pc = "idle"
        /\ ~chan.tim /\ ~chan.dma /\ ~chan.tc
    BY DEF PInit, Init, Idle
  <2> QED BY <2>1, <2>2 DEF InvLabel, Agree
<1>2. I /\ [PNext]_pvars => I'
  <2> SUFFICES ASSUME I, [PNext]_pvars
               PROVE  PTypeOK' /\ (~late' => InvLabel')
    OBVIOUS
  <2> QED BY PTypeStep, PLateStays, LabelStep
<1>3. I => LabelIsTrue
  <2> SUFFICES ASSUME PTypeOK, InvLabel, cmd.pc = "idle"
               PROVE  /\ axis.axis_state # "asPreparing"
                      /\ axis.axis_state = "asRuning" <=> chan.tim
                      /\ axis.axis_state = "asStoped" => ~chan.dma
    BY DEF LabelIsTrue
  <2>1. axis.axis_state \in AxisState /\ chan.tim \in BOOLEAN
    BY DEF PTypeOK, TypeOK, Axis, Chan
  <2>2. Agree
    BY DEF InvLabel
  <2> QED BY <2>1, <2>2 DEF Agree, AxisState
<1> QED BY <1>1, <1>2, <1>3, PTL DEF PSpec

-----------------------------------------------------------------------------
(* The position at rest and the answers to position queries.               *)

(* The bounds of the board, in which a command sees at most half a buffer  *)
(* sent, a smooth stop asks for at most one buffer and every fixed move    *)
(* fills whole buffers.                                                    *)
WholeBuffers ==
  /\ 2 * (Window - 1) < HM_DMA_BUF_SIZE
  /\ StopSteps <= HM_DMA_BUF_SIZE
  /\ \A s \in FixSteps : IsWhole(Abs(s))

(* Whole buffers go one by one.                                            *)
LEMMA WholeLess ==
  ASSUME NEW n \in Int, IsWhole(n)
  PROVE  n = 0 \/ (n >= HM_DMA_BUF_SIZE /\ IsWhole(n - HM_DMA_BUF_SIZE))
<1>1. PICK k \in 0 .. n : n = k * HM_DMA_BUF_SIZE
  BY DEF IsWhole
<1>2. CASE k = 0
  BY <1>1, <1>2, BufAssumption
<1>3. CASE k # 0
  <2> DEFINE j == k - 1
  <2>1. j \in Nat /\ k = j + 1
    BY <1>3
  <2> HIDE DEF j
  <2>2. n = j * HM_DMA_BUF_SIZE + HM_DMA_BUF_SIZE
    BY <1>1, <2>1, BufAssumption
  <2>3. j * HM_DMA_BUF_SIZE >= j
    BY <2>1, BufAssumption
  <2>4. j * HM_DMA_BUF_SIZE \in Nat
    BY <2>1, BufAssumption
  <2>5. n - HM_DMA_BUF_SIZE = j * HM_DMA_BUF_SIZE /\ n >= HM_DMA_BUF_SIZE
    BY <2>2, <2>4, BufAssumption
  <2>6. j \in 0 .. (n - HM_DMA_BUF_SIZE)
    BY <2>1, <2>3, <2>5, BufAssumption
  <2> QED BY <2>5, <2>6 DEF IsWhole
<1> QED BY <1>2, <1>3

(* The numbers InvExact speaks of.                                         *)
LEMMA ExactFields ==
  ASSUME TypeOK, cmd \in CmdType
  PROVE  /\ axis \in Axis /\ chan \in Chan
         /\ axis.dma_buf_idx \in Blocks /\ OtherBlock(axis) \in Blocks
         /\ axis.dir \in {"rdCW", "rdCCW"}
         /\ axis.pos \in Int /\ fed \in Int
         /\ axis.steps_request \in Int /\ axis.steps_taken \in Nat
         /\ axis.steps_actual \in Int
         /\ Cur(axis).len \in 0 .. HM_DMA_BUF_SIZE
         /\ Other(axis).len \in 0 .. HM_DMA_BUF_SIZE
         /\ Other(axis).valid \in BOOLEAN
         /\ axis.dma_buf[cmd.idx].len \in 0 .. HM_DMA_BUF_SIZE
         /\ chan.cndtr \in Nat /\ chan.len \in Nat
         /\ chan.dma \in BOOLEAN /\ chan.tc \in BOOLEAN /\ chan.ht \in BOOLEAN
         /\ chan.cw \in BOOLEAN
         /\ cmd.pc \in Pc /\ cmd.idx \in Blocks /\ cmd.passed \in Int
         /\ cmd.at \in Int /\ cmd.ticks \in Nat /\ cmd.ticks <= Window
         /\ cmd.turned \in BOOLEAN /\ Window \in Nat
         /\ HM_DMA_BUF_SIZE \in Nat /\ HM_DMA_BUF_SIZE >= 1
         /\ StopSteps \in Nat /\ StopSteps >= 1
<1>1. /\ axis \in Axis /\ chan \in Chan /\ fed \in Int
      /\ HM_DMA_BUF_SIZE \in Nat /\ HM_DMA_BUF_SIZE >= 1
      /\ StopSteps \in Nat /\ StopSteps >= 1 /\ Window \in Nat
  BY BufAssumption, StopAssumption, WindowAssumption DEF TypeOK
<1>2. /\ cmd.pc \in Pc /\ cmd.idx \in Blocks /\ cmd.passed \in Int
      /\ cmd.at \in Int /\ cmd.ticks \in Nat /\ cmd.ticks <= Window
      /\ cmd.turned \in BOOLEAN
  BY <1>1 DEF CmdType
<1>3. /\ axis.dma_buf_idx \in Blocks /\ axis.dir \in {"rdCW", "rdCCW"}
      /\ axis.steps_taken \in Nat
      /\ axis.dma_buf[cmd.idx] \in DmaBuf
  BY <1>1, <1>2 DEF Axis
<1>4. axis.dma_buf[cmd.idx].len \in 0 .. HM_DMA_BUF_SIZE
  BY <1>3 DEF DmaBuf
<1>5. /\ axis.pos \in Int /\ axis.steps_request \in Int
      /\ axis.steps_actual \in Int
      /\ Cur(axis).len \in Nat /\ Cur(axis).len <= HM_DMA_BUF_SIZE
      /\ Other(axis).len \in Nat /\ Other(axis).len <= HM_DMA_BUF_SIZE
      /\ Other(axis).valid \in BOOLEAN /\ OtherBlock(axis) \in Blocks
  BY <1>1, AxisFields, OtherBlockType
<1> QED BY <1>1, <1>2, <1>3, <1>4, <1>5, ChanFields

LEMMA TickExact ==
  ASSUME TypeOK, cmd \in CmdType, InvExact, PTick
  PROVE  InvExact'
<1>1. /\ cmd'.pc = cmd.pc
      /\ cmd.pc # "idle" => cmd'.ticks = cmd.ticks + 1
      /\ cmd'.idx = cmd.idx /\ cmd'.passed = cmd.passed /\ cmd'.at = cmd.at
      /\ cmd'.turned = cmd.turned
      /\ axis' = axis /\ hung' = hung /\ lost' = lost
      /\ fed' = fed + (IF chan.cw THEN 1 ELSE -1)
      /\ chan.dma
      /\ chan'.dma = chan.dma
      /\ chan'.len = chan.len /\ chan'.cndtr = chan.cndtr - 1
      /\ chan'.tc = (chan.tc \/ chan.cndtr - 1 = 0)
      /\ chan'.cw = chan.cw
      /\ chan'.ht => chan.ht \/ 2 * (chan.cndtr - 1) <= chan.len
  BY TickDoes
<1>2. chan.cndtr > 0
  BY DEF PTick, Tick
<1>3. /\ chan.cndtr \in Nat /\ chan.len \in Nat /\ chan.cw \in BOOLEAN
      /\ axis.pos \in Int /\ fed \in Int /\ cmd.at \in Int
      /\ cmd.ticks \in Nat /\ cmd.passed \in Int
      /\ axis.dir \in {"rdCW", "rdCCW"}
      /\ HM_DMA_BUF_SIZE \in Nat
  BY ExactFields
<1>4. CASE hung
  BY <1>1, <1>4 DEF InvExact, InvOff, Stopping
<1>5. CASE ~hung
  <2>0. InvSends /\ InvWhole /\ InvLookup /\ InvQuery
    BY <1>5 DEF InvExact
  <2>1. (chan.cw <=> axis.dir = "rdCW") /\ ~chan.tc
    BY <1>1, <1>2, <1>3, <2>0 DEF InvSends
  <2>2. InvSends'
    <3>1. chan'.cndtr <= chan'.len /\ chan'.cndtr \in Nat
      BY <1>1, <1>2, <1>3, <2>0 DEF InvSends
    <3>2. chan'.tc <=> (chan'.cndtr = 0 /\ chan'.len > 0)
      <4>1. chan'.tc <=> chan.cndtr - 1 = 0
        BY <1>1, <2>1, Zenon
      <4>2. chan.cndtr <= chan.len
        BY <1>1, <2>0 DEF InvSends
      <4> QED BY <1>1, <1>2, <1>3, <4>1, <4>2
    <3>3. chan'.ht => chan'.len > 0 /\ 2 * chan'.cndtr <= chan'.len
      BY <1>1, <1>2, <1>3, <2>0 DEF InvSends
    <3>4. ASSUME ~lost'
          PROVE  fed' = axis'.pos + Signed(axis'.dir, chan'.len - chan'.cndtr)
      <4>1. fed = axis.pos + Signed(axis.dir, chan.len - chan.cndtr)
        BY <1>1, <2>0, <3>4 DEF InvSends
      <4> QED BY <1>1, <1>2, <1>3, <2>1, <4>1 DEF Signed
    <3> QED BY <1>1, <2>0, <3>1, <3>2, <3>3, <3>4 DEF InvSends
  <2>3. InvOff'
    BY <1>1 DEF InvOff
  <2>4. InvWhole'
    BY <1>1, <2>0 DEF InvWhole, Whole, FreeWhole, LastWhole, MoveWhole, Stopping
  <2>5. InvLookup'
    BY <1>1, <1>2, <1>3, <2>0 DEF InvLookup
  <2>6. InvQuery'
    BY <1>1, <1>2, <1>3, <2>0, <2>1 DEF InvQuery, Signed
  <2> QED BY <1>1, <1>5, <2>2, <2>3, <2>4, <2>5, <2>6 DEF InvExact, Stopping
<1> QED BY <1>4, <1>5

(* What the half-transfer part of the handler leaves.                      *)
LEMMA HalfMotion ==
  ASSUME TypeOK
  PROVE  /\ AfterHalf \in Axis /\ SameMotion(AfterHalf, axis)
         /\ Cur(AfterHalf) = Cur(axis)
         /\ OtherBlock(AfterHalf) = OtherBlock(axis)
<1>1. axis \in Axis /\ AfterHalf \in Axis
  BY AfterHalfType DEF TypeOK
<1>2. CASE ~chan.ht \/ Other(axis).valid
  <2>1. AfterHalf = axis
    BY <1>2, Zenon DEF AfterHalf, hm_dma_fill_next_buf, Other
  <2> QED BY <1>1, <2>1 DEF SameMotion
<1>3. CASE chan.ht /\ ~Other(axis).valid
  <2>1. AfterHalf = hm_dma_fill_next_buf(axis)
    BY <1>3, Zenon DEF AfterHalf
  <2>2. SameMotion(AfterHalf, axis) /\ Cur(AfterHalf) = Cur(axis)
    BY <1>1, <1>3, <2>1, FillNextView
  <2> QED BY <1>1, <2>2 DEF SameMotion, OtherBlock
<1> QED BY <1>2, <1>3

LEMMA HalfWhole ==
  ASSUME TypeOK, cmd \in CmdType, Whole(axis)
  PROVE  /\ AfterHalf \in Axis /\ SameMotion(AfterHalf, axis)
         /\ Cur(AfterHalf) = Cur(axis)
         /\ OtherBlock(AfterHalf) = OtherBlock(axis)
         /\ AfterHalf = axis \/ chan.ht
         /\ Whole(AfterHalf)
<1>1. axis \in Axis /\ AfterHalf \in Axis
  BY AfterHalfType DEF TypeOK
<1>2. CASE ~chan.ht \/ Other(axis).valid
  <2>1. AfterHalf = axis
    BY <1>2, Zenon DEF AfterHalf, hm_dma_fill_next_buf, Other
  <2> QED BY <1>1, <2>1 DEF SameMotion
<1>3. CASE chan.ht /\ ~Other(axis).valid
  <2> DEFINE r == hm_dma_fill_next_buf(axis)
             n == Other(r).len
  <2>1. AfterHalf = r
    BY <1>3, Zenon DEF AfterHalf
  <2>2. /\ SameMotion(r, axis) /\ Cur(r) = Cur(axis)
        /\ Other(r).valid = TRUE
        /\ n \in Nat
        /\ r.steps_taken = IF axis.steps_request = HM_INVALID_STEP
                           THEN axis.steps_taken ELSE axis.steps_taken + n
        /\ axis.steps_request = HM_INVALID_STEP => n = HM_DMA_BUF_SIZE
        /\ /\ axis.steps_request # HM_INVALID_STEP
           /\ axis.steps_taken <= axis.steps_request
           => /\ r.steps_taken <= axis.steps_request
              /\ n # HM_DMA_BUF_SIZE => r.steps_taken = axis.steps_request
    BY <1>1, <1>3, FillNextView
  <2> HIDE DEF r
  <2>3. /\ r.steps_request = axis.steps_request
        /\ r.steps_actual = axis.steps_actual
        /\ OtherBlock(r) = OtherBlock(axis)
    BY <2>2 DEF SameMotion, OtherBlock
  <2>4. OtherLen(axis) = 0 /\ OtherLen(r) = n
    BY <1>3, <2>2 DEF OtherLen
  <2>5. /\ axis.steps_request \in Int /\ axis.steps_taken \in Nat
        /\ axis.steps_actual \in Int
        /\ HM_DMA_BUF_SIZE \in Nat /\ HM_DMA_BUF_SIZE >= 1
    BY ExactFields
  <2> HIDE DEF n
  <2>6. ASSUME axis.steps_request = HM_INVALID_STEP, FreeWhole(axis)
        PROVE  FreeWhole(r)
    BY <2>2, <2>3, <2>6 DEF FreeWhole, n
  <2>7. ASSUME axis.steps_request # HM_INVALID_STEP, LastWhole(axis)
        PROVE  LastWhole(r)
    BY <1>3, <2>3, <2>7 DEF LastWhole
  <2>8. ASSUME axis.steps_request # HM_INVALID_STEP, MoveWhole(axis)
        PROVE  LastWhole(r) \/ MoveWhole(r)
    <3> DEFINE left == axis.steps_request - axis.steps_taken
    <3>1. IsWhole(left) /\ left \in Int
      BY <2>5, <2>8 DEF MoveWhole
    <3>2. axis.steps_taken = axis.steps_actual + HM_DMA_BUF_SIZE
      BY <2>4, <2>5, <2>8 DEF MoveWhole
    <3>3. left = 0 \/ (left >= HM_DMA_BUF_SIZE /\ IsWhole(left - HM_DMA_BUF_SIZE))
      BY <3>1, WholeLess
    <3>4. CASE left = 0
      <4>1. axis.steps_actual + HM_DMA_BUF_SIZE >= axis.steps_request
        BY <2>5, <3>2, <3>4
      <4> QED BY <2>3, <4>1 DEF LastWhole
    <3>5. CASE left >= HM_DMA_BUF_SIZE /\ IsWhole(left - HM_DMA_BUF_SIZE)
      <4>1. axis.steps_taken <= axis.steps_request
        BY <2>5, <3>5
      <4>2. CASE n = HM_DMA_BUF_SIZE
        <5>1. r.steps_taken = axis.steps_taken + HM_DMA_BUF_SIZE
          BY <2>2, <2>8, <4>2
        <5>2. r.steps_request - r.steps_taken = left - HM_DMA_BUF_SIZE
          BY <2>3, <2>5, <5>1
        <5>3. r.steps_taken = r.steps_actual + HM_DMA_BUF_SIZE + OtherLen(r)
          BY <2>3, <2>4, <2>5, <3>2, <4>2, <5>1
        <5> QED BY <3>5, <4>2, <5>2, <5>3 DEF MoveWhole, n
      <4>3. CASE n # HM_DMA_BUF_SIZE
        <5>1. axis.steps_taken + n = axis.steps_request
          BY <2>2, <2>8, <4>1, <4>3
        <5>2. n = left /\ n >= HM_DMA_BUF_SIZE
          BY <2>2, <2>5, <3>5, <5>1
        <5>3. n <= HM_DMA_BUF_SIZE
          <6>1. r \in Axis
            BY <1>1, <2>1
          <6> QED BY <6>1, AxisFields DEF n
        <5> QED BY <2>2, <2>5, <4>3, <5>2, <5>3
      <4> QED BY <4>2, <4>3
    <3> QED BY <3>3, <3>4, <3>5
  <2>9. Whole(r)
    BY <2>2, <2>3, <2>6, <2>7, <2>8 DEF Whole
  <2> QED BY <1>1, <1>3, <2>1, <2>2, <2>3, <2>9
<1> QED BY <1>2, <1>3

(* A command that still runs after its buffer was sent: the half-transfer  *)
(* of the next one is not reached.                                         *)
LEMMA LookupCases ==
  ASSUME TypeOK, cmd \in CmdType, WholeBuffers, ShortCommands,
         InvSends, InvLookup, chan.dma, chan.ht \/ chan.tc,
         cmd.pc \in {"suddenDma", "posState", "posCount", "posAnswer"}
  PROVE  cmd.idx = axis.dma_buf_idx
<1>1. /\ chan.cndtr \in Nat /\ chan.len \in Nat /\ cmd.ticks \in Nat
      /\ cmd.ticks <= Window /\ Window \in Nat
      /\ HM_DMA_BUF_SIZE \in Nat
  BY ExactFields
<1>2. 2 * (Window - 1) < HM_DMA_BUF_SIZE
  BY DEF WholeBuffers
<1>3. 2 * chan.cndtr <= chan.len /\ chan.len = Cur(axis).len
  BY <1>1 DEF InvSends
<1>4. SUFFICES ASSUME cmd.idx # axis.dma_buf_idx
               PROVE  FALSE
  OBVIOUS
<1>5. /\ Cur(axis).len = HM_DMA_BUF_SIZE
      /\ chan.cndtr + cmd.ticks >= HM_DMA_BUF_SIZE + 1
  BY <1>4 DEF InvLookup
<1> QED BY <1>1, <1>2, <1>3, <1>5

LEMMA HalfExact ==
  ASSUME TypeOK, cmd \in CmdType, InvExact, WholeBuffers, ShortCommands,
         Interrupt(DmaHalf)
  PROVE  InvExact'
<1>1. /\ cmd'.pc = cmd.pc /\ cmd'.ticks = cmd.ticks
      /\ cmd'.idx = cmd.idx /\ cmd'.passed = cmd.passed /\ cmd'.at = cmd.at
      /\ cmd.turned => cmd'.turned
      /\ lost => lost'
  BY InterruptDoes
<1>2. DmaHalf
  BY InterruptDoes
<1>3. /\ ~hung /\ chan.ht /\ ~chan.tc
      /\ axis' = AfterHalf /\ chan' = [chan EXCEPT !.ht = FALSE]
      /\ fed' = fed
  BY <1>2 DEF DmaHalf
<1>4. /\ InvSends /\ InvOff /\ InvWhole /\ InvLookup /\ InvQuery
      /\ Stopping => axis.steps_request = StopSteps
  BY <1>3 DEF InvExact
<1>5. /\ chan'.dma = chan.dma /\ chan'.tc = chan.tc /\ ~chan'.ht
      /\ chan'.len = chan.len /\ chan'.cndtr = chan.cndtr /\ chan'.cw = chan.cw
  BY <1>3 DEF TypeOK, Chan
<1>6. /\ SameMotion(axis', axis) /\ Cur(axis') = Cur(axis)
      /\ OtherBlock(axis') = OtherBlock(axis)
  BY <1>3, HalfMotion
<1>7. /\ axis'.dir = axis.dir /\ axis'.pos = axis.pos
      /\ axis'.dma_buf_idx = axis.dma_buf_idx
      /\ axis'.axis_state = axis.axis_state
      /\ axis'.steps_request = axis.steps_request
  BY <1>6 DEF SameMotion
<1>8. InvSends'
  BY <1>1, <1>3, <1>4, <1>5, <1>6, <1>7 DEF InvSends
<1>9. InvOff'
  BY <1>1, <1>3, <1>4, <1>5, <1>7 DEF InvOff
<1>10. InvWhole'
  <2>1. CASE chan.dma
    <3>1. Whole(AfterHalf)
      BY <1>4, <2>1, HalfWhole DEF InvWhole
    <3> QED BY <1>1, <1>3, <3>1
      DEF InvWhole, Whole, FreeWhole, LastWhole, MoveWhole, Stopping
  <2> QED BY <1>5, <2>1 DEF InvWhole
<1>11. cmd.pc \in {"suddenDma", "posState", "posCount", "posAnswer"} =>
         cmd.idx = axis.dma_buf_idx
  BY <1>3, <1>4, LookupCases DEF InvLookup
<1>12. InvLookup'
  <2>1. CASE cmd.pc \in {"suddenDma", "posState", "posCount", "posAnswer"}
    <3>1. chan.dma /\ chan.len > 0 => chan.cndtr >= 1
      <4>1. chan.cndtr \in Nat
        BY ExactFields
      <4> QED BY <1>3, <1>4, <4>1 DEF InvSends
    <3>2. cmd.ticks \in Nat /\ chan.cndtr \in Nat
      BY ExactFields
    <3> QED BY <1>1, <1>5, <1>7, <1>11, <2>1, <3>1, <3>2 DEF InvLookup
  <2> QED BY <1>1, <2>1 DEF InvLookup
<1>13. InvQuery'
  <2>1. CASE cmd.pc \in {"posState", "posCount", "posAnswer"}
    <3>1. cmd'.turned = cmd.turned
      <4>1. cmd'.turned <=> \/ cmd.turned
                            \/ axis'.dma_buf_idx # axis.dma_buf_idx
                            \/ axis'.axis_state # axis.axis_state
        BY <2>1, InterruptDoes
      <4>2. cmd.turned \in BOOLEAN /\ cmd'.turned \in BOOLEAN
        <5>1. cmd' \in CmdType
          BY InterruptDoes
        <5> QED BY <5>1 DEF CmdType
      <4> QED BY <1>7, <4>1, <4>2
    <3>2. axis'.dma_buf[cmd'.idx] = axis.dma_buf[cmd.idx]
      BY <1>1, <1>6, <1>7, <1>11, <2>1 DEF Cur
    <3> QED BY <1>1, <1>3, <1>4, <1>5, <1>7, <2>1, <3>1, <3>2 DEF InvQuery
  <2> QED BY <1>1, <2>1 DEF InvQuery
<1> QED BY <1>1, <1>4, <1>7, <1>8, <1>9, <1>10, <1>12, <1>13
  DEF InvExact, Stopping

(* The three ends of hm_dma_ck on the axis a: the last buffer was sent,    *)
(* the other buffer takes over, or it is not ready.                        *)
LEMMA CkStops ==
  ASSUME NEW a \in Axis, chan \in Chan, chan.dma,
         hm_dma_ck(a), ~MoreToSend(Counted(a))
  PROVE  /\ axis'.axis_state = "asStoped" /\ axis'.dir = a.dir
         /\ axis'.pos = a.pos + Signed(a.dir, Cur(a).len)
         /\ axis'.dma_buf_idx = a.dma_buf_idx
         /\ axis'.steps_request = a.steps_request
         /\ hung' = hung
         /\ ~chan'.dma /\ ~chan'.ht /\ ~chan'.tc /\ ~chan'.tim
         /\ chan'.cndtr = chan.cndtr
<1> DEFINE c == Counted(a)
           b == [c EXCEPT !.bstopping = FALSE]
           done == MarkStoped(b)
           sd == hm_dma_setup(done, chan, FALSE)
<1>1. /\ axis' = done /\ hung' = hung
      /\ chan' = [sd EXCEPT !.tim = FALSE, !.ht = FALSE, !.tc = FALSE]
  BY Zenon DEF hm_dma_ck
<1>2. /\ c \in Axis /\ c.dir = a.dir
      /\ c.pos = a.pos + Signed(a.dir, Cur(a).len)
      /\ c.dma_buf_idx = a.dma_buf_idx /\ c.steps_request = a.steps_request
  BY CountedView
<1> HIDE DEF c
<1>3. b \in Axis /\ b.dir = c.dir /\ b.pos = c.pos
      /\ b.dma_buf_idx = c.dma_buf_idx /\ b.steps_request = c.steps_request
  BY <1>2 DEF Axis
<1> HIDE DEF b
<1>4. /\ done \in Axis /\ done.axis_state = "asStoped"
      /\ done.dir = b.dir /\ done.pos = b.pos
      /\ done.dma_buf_idx = b.dma_buf_idx /\ done.steps_request = b.steps_request
  <2>1. done \in Axis
    BY <1>3, MarkStopedType
  <2> QED BY <1>3, <2>1 DEF MarkStoped, Axis
<1> HIDE DEF done
<1>5. sd \in Chan /\ sd.dma = FALSE /\ sd.cndtr = chan.cndtr
  BY <1>4, SetupView
<1> HIDE DEF sd
<1>6. /\ ~chan'.dma /\ ~chan'.ht /\ ~chan'.tc /\ ~chan'.tim
      /\ chan'.cndtr = chan.cndtr
  BY <1>1, <1>5 DEF Chan
<1> QED BY <1>1, <1>2, <1>3, <1>4, <1>6

LEMMA CkGoesOn ==
  ASSUME NEW a \in Axis, chan \in Chan,
         hm_dma_ck(a), MoreToSend(Counted(a)), Other(a).valid
  PROVE  /\ axis'.axis_state = a.axis_state /\ axis'.dir = a.dir
         /\ axis'.pos = a.pos + Signed(a.dir, Cur(a).len)
         /\ axis'.dma_buf_idx = OtherBlock(a)
         /\ OtherBlock(axis') = a.dma_buf_idx
         /\ axis'.steps_request = a.steps_request
         /\ axis'.steps_taken = a.steps_taken
         /\ axis'.steps_actual = a.steps_actual + Cur(a).len
         /\ axis'.stop_at = a.stop_at /\ axis'.gen = a.gen
         /\ axis'.bstopping = a.bstopping
         /\ Cur(axis') = Other(a)
         /\ Other(axis').valid = FALSE /\ Other(axis').len = Cur(a).len
         /\ hung' = hung
         /\ chan'.dma /\ ~chan'.ht /\ ~chan'.tc
         /\ chan'.cndtr = Other(a).len /\ chan'.len = Other(a).len
         /\ chan'.cw = chan.cw /\ chan'.cmar = OtherBlock(a)
<1> DEFINE c == Counted(a)
           next == [c EXCEPT !.dma_buf_idx = OtherBlock(a)]
           off == [chan EXCEPT !.dma = FALSE]
           sn == hm_dma_setup(next, off, TRUE)
<1>1. /\ c \in Axis /\ c.axis_state = a.axis_state /\ c.dir = a.dir
      /\ c.pos = a.pos + Signed(a.dir, Cur(a).len)
      /\ c.dma_buf_idx = a.dma_buf_idx /\ c.steps_request = a.steps_request
      /\ c.steps_taken = a.steps_taken
      /\ c.steps_actual = a.steps_actual + Cur(a).len
      /\ c.stop_at = a.stop_at /\ c.gen = a.gen /\ c.bstopping = a.bstopping
      /\ c.dma_buf[OtherBlock(a)] = Other(a)
      /\ c.dma_buf[a.dma_buf_idx].valid = FALSE
      /\ c.dma_buf[a.dma_buf_idx].len = Cur(a).len
  BY CountedView
<1>2. OtherBlock(a) \in Blocks
  BY OtherBlockType
<1>3. /\ off \in Chan /\ ~off.dma /\ off.cw = chan.cw
  BY DEF Chan
<1>4. hm_dma_ck(a) /\ MoreToSend(c)
  OBVIOUS
<1> HIDE DEF c, off
<1>5. /\ next \in Axis /\ next.axis_state = c.axis_state /\ next.dir = c.dir
      /\ next.pos = c.pos /\ next.dma_buf_idx = OtherBlock(a)
      /\ next.dma_buf = c.dma_buf /\ next.steps_request = c.steps_request
      /\ next.steps_taken = c.steps_taken
      /\ next.steps_actual = c.steps_actual
      /\ next.stop_at = c.stop_at /\ next.gen = c.gen
      /\ next.bstopping = c.bstopping
  BY <1>1, <1>2 DEF Axis
<1>6. Cur(next) = Other(a)
  BY <1>1, <1>5 DEF Cur
<1>7. OtherBlock(next) = a.dma_buf_idx
  BY <1>5, BlockCases DEF OtherBlock
<1>8. Other(next).valid = FALSE /\ Other(next).len = Cur(a).len
  BY <1>1, <1>5, <1>7 DEF Other
<1>9. /\ axis' = next /\ hung' = hung
      /\ chan' = [sn EXCEPT !.tim = TRUE, !.ht = FALSE, !.tc = FALSE]
  <2>1. Cur(next).valid
    BY <1>6
  <2> HIDE DEF next
  <2> QED BY <1>4, <2>1, Zenon DEF hm_dma_ck, c, next, off
<1> HIDE DEF next
<1>10. /\ sn \in Chan /\ sn.dma = TRUE /\ sn.cw = chan.cw
       /\ sn.cmar = OtherBlock(a)
       /\ sn.cndtr = Other(a).len /\ sn.len = Other(a).len
  <2>1. /\ sn \in Chan /\ sn.dma = TRUE /\ sn.cw = off.cw
        /\ sn.cndtr = Cur(next).len /\ sn.len = Cur(next).len
        /\ sn.cmar = next.dma_buf_idx
    BY <1>3, <1>5, SetupView, ZenonT(60)
  <2> HIDE DEF sn
  <2> QED BY <1>3, <1>5, <1>6, <2>1
<1> HIDE DEF sn
<1>11. /\ chan'.dma /\ ~chan'.ht /\ ~chan'.tc
       /\ chan'.cndtr = Other(a).len /\ chan'.len = Other(a).len
       /\ chan'.cw = chan.cw /\ chan'.cmar = OtherBlock(a)
  BY <1>9, <1>10 DEF Chan
<1> QED BY <1>1, <1>5, <1>6, <1>7, <1>8, <1>9, <1>11

LEMMA CkTraps ==
  ASSUME NEW a \in Axis, chan \in Chan,
         hm_dma_ck(a), MoreToSend(Counted(a)), ~Other(a).valid
  PROVE  /\ axis'.steps_request = a.steps_request /\ hung' = TRUE
         /\ chan'.dma = chan.dma
<1> DEFINE c == Counted(a)
           next == [c EXCEPT !.dma_buf_idx = OtherBlock(a)]
<1>1. /\ c \in Axis /\ c.steps_request = a.steps_request
      /\ c.dma_buf[OtherBlock(a)] = Other(a)
  BY CountedView
<1>2. OtherBlock(a) \in Blocks
  BY OtherBlockType
<1>3. hm_dma_ck(a) /\ MoreToSend(c)
  OBVIOUS
<1> HIDE DEF c
<1>4. ~Cur(next).valid
  <2>1. next.dma_buf_idx = OtherBlock(a) /\ next.dma_buf = c.dma_buf
    BY <1>1, <1>2 DEF Axis
  <2> QED BY <1>1, <2>1 DEF Cur
<1>5. axis' = c /\ chan' = [chan EXCEPT !.ht = FALSE] /\ hung' = TRUE
  <2> HIDE DEF next
  <2> QED BY <1>3, <1>4, Zenon DEF hm_dma_ck, c, next
<1> QED BY <1>1, <1>5 DEF Chan

(* The buffer that takes over is full, and so is what comes after it.      *)
LEMMA NextWhole ==
  ASSUME TypeOK, cmd \in CmdType, NEW a \in Axis, Whole(a), Cur(a).len # 0,
         MoreToSend(Counted(a)), Other(a).valid,
         axis' \in Axis, cmd'.pc = cmd.pc,
         axis'.steps_request = a.steps_request,
         axis'.steps_taken = a.steps_taken,
         axis'.steps_actual = a.steps_actual + Cur(a).len,
         Cur(axis') = Other(a), Other(axis').valid = FALSE
  PROVE  Other(a).len = HM_DMA_BUF_SIZE /\ Whole(axis)'
<1>1. /\ a.steps_request \in Int /\ a.steps_taken \in Int
      /\ a.steps_actual \in Int
      /\ HM_DMA_BUF_SIZE \in Nat /\ HM_DMA_BUF_SIZE >= 1
  BY AxisFields, ExactFields
<1>2. Cur(a).len = HM_DMA_BUF_SIZE
  BY DEF Whole
<1>3. OtherLen(axis') = 0 /\ OtherLen(a) = Other(a).len
  BY DEF OtherLen
<1>4. CASE a.steps_request = HM_INVALID_STEP
  <2>1. FreeWhole(a)
    BY <1>4 DEF Whole
  <2>2. FreeWhole(axis')
    BY <1>1, <1>2, <2>1 DEF FreeWhole
  <2> QED BY <1>4, <2>1, <2>2 DEF FreeWhole, Whole
<1>5. CASE a.steps_request # HM_INVALID_STEP
  <2>1. a.steps_actual + HM_DMA_BUF_SIZE < a.steps_request
    <3>1. /\ Counted(a).steps_actual = a.steps_actual + Cur(a).len
          /\ Counted(a).steps_request = a.steps_request
      BY CountedView
    <3> QED BY <1>2, <1>5, <3>1 DEF MoreToSend
  <2>2. a.steps_request >= 0 /\ a.steps_actual >= -1
    BY <1>1, <1>5 DEF Whole
  <2>3. axis'.steps_actual >= 0
    BY <1>1, <1>2, <2>2
  <2>4. CASE LastWhole(a)
    <3>1. /\ Other(a).len = HM_DMA_BUF_SIZE
          /\ a.steps_actual + 2 * HM_DMA_BUF_SIZE >= a.steps_request
      BY <1>1, <2>1, <2>4 DEF LastWhole
    <3>2. LastWhole(axis')
      BY <1>1, <1>2, <3>1 DEF LastWhole
    <3> QED BY <1>5, <2>2, <2>3, <3>1, <3>2 DEF Whole, LastWhole
  <2>5. CASE MoveWhole(a) /\ ~Stopping
    <3>1. Other(a).len = HM_DMA_BUF_SIZE
      BY <2>5 DEF MoveWhole
    <3>2. MoveWhole(axis')
      BY <1>1, <1>2, <1>3, <2>5, <3>1 DEF MoveWhole
    <3>3. ~Stopping'
      BY <2>5 DEF Stopping
    <3> QED BY <1>5, <2>2, <2>3, <3>1, <3>2, <3>3 DEF Whole, MoveWhole, IsWhole
  <2> QED BY <1>5, <2>4, <2>5 DEF Whole
<1> QED BY <1>4, <1>5

LEMMA CompleteExact ==
  ASSUME TypeOK, cmd \in CmdType, InvLabel, InvExact, WholeBuffers,
         ShortCommands, Interrupt(DmaComplete)
  PROVE  InvExact'
<1> DEFINE a == AfterHalf
<1>1. /\ cmd'.pc = cmd.pc /\ cmd'.ticks = cmd.ticks
      /\ cmd'.idx = cmd.idx /\ cmd'.passed = cmd.passed /\ cmd'.at = cmd.at
      /\ cmd.turned => cmd'.turned
      /\ cmd.pc # "idle" =>
           (cmd'.turned <=> \/ cmd.turned
                            \/ axis'.dma_buf_idx # axis.dma_buf_idx
                            \/ axis'.axis_state # axis.axis_state)
      /\ DmaComplete
      /\ lost => lost'
  BY InterruptDoes
<1>2. ~hung /\ chan.tc /\ fed' = fed
  BY <1>1 DEF DmaComplete
<1>3. /\ InvSends /\ InvOff /\ InvWhole /\ InvLookup /\ InvQuery
      /\ Stopping => axis.steps_request = StopSteps
  BY <1>2 DEF InvExact
<1>4. chan.dma
  BY <1>2, <1>3 DEF InvOff
<1>5. /\ axis.axis_state = "asRuning"
      /\ cmd.pc \notin {"mark", "suddenTim", "suddenMark", "suddenCount"}
  <2>1. /\ cmd.pc \notin {"mark", "suddenTim", "suddenMark", "suddenCount"}
        /\ Agree
    BY <1>2 DEF InvLabel, AgreeMark, AgreeSudden
  <2>2. axis.axis_state \in AxisState
    BY DEF TypeOK, Axis
  <2> QED BY <1>2, <2>1, <2>2 DEF Agree, AxisState
<1>6. chan.cndtr = 0 /\ chan.len = Cur(axis).len /\ chan.len # 0
  BY <1>2, <1>3, <1>4 DEF InvSends
<1>7. Whole(axis) /\ Cur(axis).len = HM_DMA_BUF_SIZE
  BY <1>3, <1>4, <1>6 DEF InvWhole, Whole
<1>8. /\ a \in Axis /\ SameMotion(a, axis) /\ Cur(a) = Cur(axis)
      /\ OtherBlock(a) = OtherBlock(axis) /\ Whole(a)
  BY <1>7, HalfWhole
<1>9. \/ axis' = a /\ hung' = TRUE /\ chan' = chan
      \/ hm_dma_ck(a)
  BY <1>1, Zenon DEF DmaComplete
<1> HIDE DEF a
<1>10. /\ a.axis_state = axis.axis_state /\ a.dir = axis.dir /\ a.pos = axis.pos
       /\ a.dma_buf_idx = axis.dma_buf_idx
       /\ a.steps_request = axis.steps_request
  BY <1>8 DEF SameMotion
<1>11. /\ chan \in Chan
       /\ lost \/ fed = axis.pos + Signed(axis.dir, HM_DMA_BUF_SIZE)
  <2>1. chan.len - chan.cndtr = HM_DMA_BUF_SIZE
    BY <1>6, <1>7, BufAssumption
  <2> QED BY <1>3, <1>4, <2>1 DEF InvSends, TypeOK
<1>12. CASE axis' = a /\ hung' = TRUE /\ chan' = chan
  BY <1>1, <1>2, <1>3, <1>4, <1>10, <1>12
    DEF InvExact, InvOff, Stopping
<1>13. CASE hm_dma_ck(a) /\ ~MoreToSend(Counted(a))
  <2>1. /\ axis'.axis_state = "asStoped" /\ axis'.dir = a.dir
        /\ axis'.pos = a.pos + Signed(a.dir, Cur(a).len)
        /\ axis'.dma_buf_idx = a.dma_buf_idx
        /\ axis'.steps_request = a.steps_request
        /\ hung' = hung
        /\ ~chan'.dma /\ ~chan'.ht /\ ~chan'.tc
        /\ chan'.cndtr = chan.cndtr
    BY <1>4, <1>8, <1>11, <1>13, CkStops
  <2>2. cmd.pc # "idle" => cmd'.turned
    BY <1>1, <1>5, <2>1
  <2>3. InvOff'
    BY <1>1, <1>2, <1>5, <1>7, <1>8, <1>10, <1>11, <2>1 DEF InvOff
  <2>4. InvLookup'
    <3>1. cmd.pc \in {"suddenDma", "posState", "posCount", "posAnswer"}
            => cmd.idx = axis.dma_buf_idx
      BY <1>2, <1>3, <1>4, LookupCases
    <3> QED BY <1>1, <1>10, <2>1, <3>1 DEF InvLookup
  <2>5. InvQuery'
    <3>1. axis'.dma_buf[cmd'.idx].len >= 0
      <4>1. TypeOK' /\ cmd' \in CmdType
        BY <1>1, HandlerTypes, InterruptDoes DEF Handler, DmaIrq
      <4> QED BY <4>1, BufAssumption DEF TypeOK, Axis, CmdType, DmaBuf
    <3> QED BY <1>1, <1>2, <1>3, <1>6, <1>10, <2>1, <2>2, <3>1 DEF InvQuery
  <2> QED BY <1>1, <1>2, <1>3, <1>10, <2>1, <2>3, <2>4, <2>5
    DEF InvExact, InvSends, InvWhole, Stopping
<1>14. CASE hm_dma_ck(a) /\ MoreToSend(Counted(a)) /\ Other(a).valid
  <2>1. /\ axis'.axis_state = a.axis_state /\ axis'.dir = a.dir
        /\ axis'.pos = a.pos + Signed(a.dir, Cur(a).len)
        /\ axis'.dma_buf_idx = OtherBlock(a)
        /\ OtherBlock(axis') = a.dma_buf_idx
        /\ axis'.steps_request = a.steps_request
        /\ axis'.steps_taken = a.steps_taken
        /\ axis'.steps_actual = a.steps_actual + Cur(a).len
        /\ Cur(axis') = Other(a)
        /\ Other(axis').valid = FALSE /\ Other(axis').len = Cur(a).len
        /\ hung' = hung
        /\ chan'.dma /\ ~chan'.ht /\ ~chan'.tc
        /\ chan'.cndtr = Other(a).len /\ chan'.len = Other(a).len
        /\ chan'.cw = chan.cw
    BY <1>8, <1>11, <1>14, CkGoesOn
  <2>2. axis' \in Axis
    <3>1. TypeOK'
      BY <1>1, HandlerTypes DEF Handler, DmaIrq
    <3> QED BY <3>1 DEF TypeOK
  <2>3. Other(a).len = HM_DMA_BUF_SIZE /\ Whole(axis)'
    BY <1>1, <1>6, <1>8, <1>14, <2>1, <2>2, NextWhole
  <2>4. cmd.pc # "idle" => cmd'.turned
    <3>1. axis'.dma_buf_idx # axis.dma_buf_idx
      BY <1>8, <1>10, <2>1, BlockCases DEF TypeOK
    <3> QED BY <1>1, <3>1
  <2>5. InvSends'
    <3>1. chan'.len - chan'.cndtr = 0 /\ chan'.cndtr >= 1
      BY <2>1, <2>3, BufAssumption
    <3>2. Signed(axis'.dir, 0) = 0
      BY SignedZero
    <3>3. axis'.pos \in Int
      BY <2>2 DEF Axis
    <3>4. lost' \/ fed' = axis'.pos + Signed(axis'.dir, chan'.len - chan'.cndtr)
      BY <1>1, <1>2, <1>7, <1>8, <1>10, <1>11, <2>1, <3>1, <3>2, <3>3
    <3>5. chan'.cw <=> (axis'.dir = "rdCW")
      BY <1>3, <1>4, <1>10, <2>1 DEF InvSends
    <3>6. chan'.cndtr <= chan'.len /\ ~(chan'.cndtr = 0 /\ chan'.len > 0)
      BY <2>1, <2>3, BufAssumption
    <3> QED BY <2>1, <3>4, <3>5, <3>6 DEF InvSends
  <2>6. InvLookup'
    <3>1. CASE cmd.pc \in {"suddenDma", "posState", "posCount", "posAnswer"}
      <4>1. cmd.idx = axis.dma_buf_idx
        BY <1>2, <1>3, <1>4, <3>1, LookupCases
      <4>2. cmd.ticks >= 1 /\ cmd.ticks \in Nat
        <5>1. cmd.ticks \in Nat /\ chan.len \in Nat
          BY ExactFields
        <5>2. axis.dma_buf_idx # OtherBlock(axis)
          BY BlockCases DEF TypeOK
        <5>3. chan.cndtr + cmd.ticks >= 1
          BY <1>3, <1>4, <1>6, <3>1, <4>1, <5>1, <5>2 DEF InvLookup
        <5> QED BY <1>6, <5>1, <5>3
      <4>3. axis'.dma_buf[cmd'.idx] = Other(axis')
        BY <1>1, <1>10, <2>1, <4>1 DEF Other
      <4>4. chan'.cndtr + cmd'.ticks >= HM_DMA_BUF_SIZE + 1
        BY <1>1, <2>1, <2>3, <4>2, BufAssumption
      <4>5. cmd'.idx = OtherBlock(axis') /\ cmd'.turned
        BY <1>1, <1>10, <2>1, <2>4, <3>1, <4>1
      <4> QED BY <1>7, <1>8, <2>1, <2>3, <4>3, <4>4, <4>5 DEF InvLookup
    <3> QED BY <1>1, <3>1 DEF InvLookup
  <2>7. InvQuery'
    BY <1>1, <1>2, <1>3, <1>10, <2>1, <2>4 DEF InvQuery
  <2> QED BY <1>1, <1>2, <1>3, <1>10, <2>1, <2>3, <2>5, <2>6, <2>7
    DEF InvExact, InvOff, InvWhole, Stopping
<1>15. CASE hm_dma_ck(a) /\ MoreToSend(Counted(a)) /\ ~Other(a).valid
  <2>1. /\ axis'.steps_request = a.steps_request /\ hung' = TRUE
        /\ chan'.dma = chan.dma
    BY <1>8, <1>11, <1>15, CkTraps
  <2> QED BY <1>1, <1>2, <1>3, <1>4, <1>10, <2>1
    DEF InvExact, InvOff, Stopping
<1> QED BY <1>9, <1>12, <1>13, <1>14, <1>15

(* A handler that leaves the position, the channel and the buffers alone,  *)
(* and starts a smooth stop at most.                                       *)
AtMostSmooth ==
  /\ axis'.axis_state = axis.axis_state /\ axis'.dir = axis.dir
  /\ axis'.pos = axis.pos /\ axis'.dma_buf_idx = axis.dma_buf_idx
  /\ axis'.dma_buf = axis.dma_buf /\ axis'.gen = axis.gen
  /\ \/ /\ axis'.steps_request = axis.steps_request
        /\ axis'.steps_taken = axis.steps_taken
        /\ axis'.steps_actual = axis.steps_actual
        /\ axis'.stop_at = axis.stop_at /\ axis'.bstopping = axis.bstopping
     \/ /\ axis'.steps_request = StopSteps /\ axis'.steps_actual = 0
        /\ axis'.steps_taken = 0 /\ axis'.stop_at = StopSteps
        /\ ~axis.bstopping /\ axis.axis_state # "asStoped"
  /\ UNCHANGED <<cfg, chan, hung, fed, out>>

(* A limit handler stops the running axis at once, in time.                *)
StopsNow ==
  /\ axis.axis_state = "asRuning" /\ axis'.axis_state = "asStoped"
  /\ axis'.dir = axis.dir /\ axis'.dma_buf_idx = axis.dma_buf_idx
  /\ axis'.dma_buf = axis.dma_buf /\ axis'.gen = axis.gen
  /\ axis'.steps_request = axis.steps_request
  /\ axis'.steps_taken = axis.steps_taken
  /\ axis'.steps_actual = axis.steps_actual /\ axis'.stop_at = axis.stop_at
  /\ ~chan.tc /\ ~chan'.tc /\ ~chan'.tim /\ ~chan'.dma /\ chan'.ht = chan.ht
  /\ chan.dma =>
       /\ axis'.pos = axis.pos + Signed(axis.dir, Cur(axis).len - chan.cndtr)
       /\ chan'.cndtr = chan.cndtr /\ chan'.len = chan.len
  /\ UNCHANGED <<hung, fed, out>>

LEMMA SuddenDoes ==
  ASSUME TypeOK, NEW s \in Axis, SameRun(s, axis), s.pos = axis.pos,
         axis.axis_state = "asRuning", ~chan.tc,
         axis' = SuddenAxis(s, chan), chan' = SuddenChan(s, chan),
         UNCHANGED <<hung, fed, out>>
  PROVE  StopsNow
<1> DEFINE d == hm_dma_setup(s, chan, FALSE)
           m == MarkStoped(s)
           k == [m EXCEPT !.bstopping = FALSE]
           n == m.pos + Signed(s.dir, Cur(s).len - SuddenChan(s, chan).cndtr)
<1>1. /\ d \in Chan /\ d.dma = FALSE /\ d.tc = chan.tc /\ d.ht = chan.ht
      /\ chan.dma => d.cndtr = chan.cndtr /\ d.len = chan.len
  BY SetupView DEF TypeOK
<1>2. chan' = [d EXCEPT !.tim = FALSE]
  BY Zenon DEF SuddenChan, d
<1> HIDE DEF d
<1>3. /\ ~chan'.tc /\ ~chan'.tim /\ ~chan'.dma /\ chan'.ht = chan.ht
      /\ chan.dma => chan'.cndtr = chan.cndtr /\ chan'.len = chan.len
  BY <1>1, <1>2 DEF Chan
<1>4. /\ m \in Axis /\ m.axis_state = "asStoped" /\ m.dir = s.dir
      /\ m.pos = s.pos /\ m.dma_buf_idx = s.dma_buf_idx
      /\ m.dma_buf = s.dma_buf /\ m.gen = s.gen
      /\ m.steps_request = s.steps_request /\ m.steps_taken = s.steps_taken
      /\ m.steps_actual = s.steps_actual /\ m.stop_at = s.stop_at
  <2>1. m \in Axis
    BY MarkStopedType
  <2> QED BY <2>1 DEF MarkStoped, Axis
<1> HIDE DEF m
<1>5. /\ k \in Axis /\ k.axis_state = m.axis_state /\ k.dir = m.dir
      /\ k.pos = m.pos /\ k.dma_buf_idx = m.dma_buf_idx
      /\ k.dma_buf = m.dma_buf /\ k.gen = m.gen
      /\ k.steps_request = m.steps_request /\ k.steps_taken = m.steps_taken
      /\ k.steps_actual = m.steps_actual /\ k.stop_at = m.stop_at
  BY <1>4 DEF Axis
<1>6. axis' = [k EXCEPT !.pos = n]
  BY <1>5, Zenon DEF SuddenAxis, m, k
<1> HIDE DEF k, n
<1>7. /\ axis'.axis_state = k.axis_state /\ axis'.dir = k.dir
      /\ axis'.pos = n /\ axis'.dma_buf_idx = k.dma_buf_idx
      /\ axis'.dma_buf = k.dma_buf /\ axis'.gen = k.gen
      /\ axis'.steps_request = k.steps_request
      /\ axis'.steps_taken = k.steps_taken
      /\ axis'.steps_actual = k.steps_actual /\ axis'.stop_at = k.stop_at
  BY <1>5, <1>6 DEF Axis
<1>8. Cur(s) = Cur(axis)
  BY DEF SameRun, Cur
<1>9. chan.dma => n = axis.pos + Signed(axis.dir, Cur(axis).len - chan.cndtr)
  <2>1. s.dir = axis.dir
    BY DEF SameRun
  <2>2. chan.dma => SuddenChan(s, chan).cndtr = chan.cndtr
    BY <1>3
  <2> QED BY <1>4, <1>8, <2>1, <2>2 DEF n
<1> QED BY <1>3, <1>4, <1>5, <1>7, <1>9 DEF SameRun, StopsNow

LEMMA SmoothDoes ==
  ASSUME NEW s \in Axis, axis \in Axis, SameRun(s, axis), s.pos = axis.pos,
         axis' = s \/ axis' = hm_step_motor_stop_smooth(s),
         UNCHANGED <<cfg, chan, hung, fed, out>>
  PROVE  AtMostSmooth
<1>1. CASE axis' = s
  BY <1>1 DEF SameRun, AtMostSmooth
<1>2. CASE axis' = hm_step_motor_stop_smooth(s) /\ axis' # s
  <2>1. /\ axis' = [s EXCEPT !.bstopping = TRUE, !.steps_request = StopSteps,
                             !.steps_taken = 0, !.steps_actual = 0,
                             !.stop_at = StopSteps]
        /\ ~s.bstopping /\ ~IsStoped(s)
    BY <1>2, Zenon DEF hm_step_motor_stop_smooth
  <2>2. /\ axis'.axis_state = s.axis_state /\ axis'.dir = s.dir
        /\ axis'.pos = s.pos /\ axis'.dma_buf_idx = s.dma_buf_idx
        /\ axis'.dma_buf = s.dma_buf /\ axis'.gen = s.gen
        /\ axis'.steps_request = StopSteps /\ axis'.steps_actual = 0
        /\ axis'.steps_taken = 0 /\ axis'.stop_at = StopSteps
    BY <2>1 DEF Axis
  <2> QED BY <2>1, <2>2 DEF SameRun, AtMostSmooth, IsStoped
<1> QED BY <1>1, <1>2

LEMMA LimitEffect ==
  ASSUME TypeOK, ~late',
         \/ LimitCheck
         \/ \E l \in Lines : ExtiIrq(l) \/ SensorChange(l)
  PROVE  AtMostSmooth \/ (StopsNow /\ ~hung)
<1>0. axis \in Axis
  BY DEF TypeOK
<1>1. ASSUME NEW s \in Axis, SameRun(s, axis), s.pos = axis.pos,
             axis.axis_state = "asRuning", LimitStop(s),
             UNCHANGED <<cfg, hung, fed, out>>
      PROVE  AtMostSmooth \/ StopsNow
  <2>1. CASE cfg.bStopImmediatelyCW
    <3>1. /\ axis' = SuddenAxis(s, chan) /\ chan' = SuddenChan(s, chan)
          /\ ~chan.tc
      BY <1>1, <2>1 DEF LimitStop
    <3> QED BY <1>1, <3>1, SuddenDoes
  <2>2. CASE ~cfg.bStopImmediatelyCW
    <3>1. axis' = hm_step_motor_stop_smooth(s) /\ chan' = chan
      BY <1>1, <2>2 DEF LimitStop
    <3> QED BY <1>0, <1>1, <3>1, SmoothDoes
  <2> QED BY <2>1, <2>2
<1>2. CASE LimitCheck
  <2> DEFINE seen == IF axis.axis_state = "asRuning" /\ axis.bdo_home
                     THEN [axis EXCEPT !.blast_hit_home = pins["Home"]]
                     ELSE axis
             stop == \/ HitWhileRunning("CW")
                     \/ HitWhileRunning("CCW")
                     \/ HitWhileRunning("Home")
                        /\ (cfg.bhome_stop_low_triger \/ ~axis.blast_hit_home)
  <2>1. IF stop THEN LimitStop(seen) ELSE axis' = seen /\ UNCHANGED chan
    BY <1>2, Zenon DEF LimitCheck
  <2>2. seen \in Axis
    <3>1. pins["Home"] \in BOOLEAN
      BY DEF TypeOK, Lines
    <3> QED BY <1>0, <3>1, AxisUpdate, Zenon
  <2>3. SameRun(seen, axis) /\ seen.pos = axis.pos
    BY <1>0 DEF Axis, SameRun
  <2>4. stop => axis.axis_state = "asRuning"
    BY DEF HitWhileRunning
  <2> HIDE DEF seen, stop
  <2>5. UNCHANGED <<cfg, hung, fed, out>> /\ ~hung
    BY <1>2 DEF LimitCheck
  <2>6. CASE stop
    BY <1>1, <2>1, <2>2, <2>3, <2>4, <2>5, <2>6
  <2>7. CASE ~stop
    BY <1>0, <2>1, <2>2, <2>3, <2>5, <2>7, SmoothDoes
  <2> QED BY <2>6, <2>7
<1>3. ASSUME NEW l \in Lines, ExtiIrq(l)
      PROVE  AtMostSmooth \/ (StopsNow /\ ~hung)
  <2>1. \/ axis.axis_state = "asRuning" /\ LimitStop(axis)
        \/ UNCHANGED <<axis, chan>>
    BY <1>3, Zenon DEF ExtiIrq, HitWhileRunning
  <2>2. UNCHANGED <<cfg, hung, fed, out>> /\ ~hung
    BY <1>3 DEF ExtiIrq
  <2>3. SameRun(axis, axis)
    BY DEF SameRun
  <2>4. CASE UNCHANGED <<axis, chan>>
    BY <1>0, <2>2, <2>3, <2>4, SmoothDoes
  <2> QED BY <1>0, <1>1, <2>1, <2>2, <2>3, <2>4
<1>4. ASSUME NEW l \in Lines, SensorChange(l)
      PROVE  AtMostSmooth
  BY <1>4 DEF SensorChange, AtMostSmooth
<1> QED BY <1>2, <1>3, <1>4

LEMMA SmoothExact ==
  ASSUME TypeOK, cmd \in CmdType, InvExact, WholeBuffers, AtMostSmooth,
         cmd'.pc = cmd.pc, cmd'.ticks = cmd.ticks, cmd'.idx = cmd.idx,
         cmd'.passed = cmd.passed, cmd'.at = cmd.at,
         cmd.pc # "idle" => cmd'.turned = cmd.turned, lost => lost'
  PROVE  InvExact'
<1>1. /\ axis'.axis_state = axis.axis_state /\ axis'.dir = axis.dir
      /\ axis'.pos = axis.pos /\ axis'.dma_buf_idx = axis.dma_buf_idx
      /\ axis'.dma_buf = axis.dma_buf
      /\ chan' = chan /\ fed' = fed /\ hung' = hung
  BY DEF AtMostSmooth
<1>2. /\ Cur(axis') = Cur(axis) /\ Other(axis') = Other(axis)
      /\ OtherBlock(axis') = OtherBlock(axis) /\ OtherLen(axis') = OtherLen(axis)
  BY <1>1 DEF Cur, Other, OtherBlock, OtherLen
<1>3. InvSends => InvSends'
  BY <1>1, <1>2 DEF InvSends
<1>4. InvOff => InvOff'
  BY <1>1 DEF InvOff
<1>5. ASSUME InvWhole
      PROVE  InvWhole'
  <2>1. CASE axis'.steps_request = StopSteps /\ axis'.steps_actual = 0
    <3>1. /\ StopSteps \in Nat /\ StopSteps >= 1 /\ HM_DMA_BUF_SIZE \in Nat
          /\ StopSteps <= HM_DMA_BUF_SIZE
      BY ExactFields DEF WholeBuffers
    <3>2. axis'.steps_request # HM_INVALID_STEP /\ axis'.steps_request >= 0
      BY <2>1, <3>1 DEF HM_INVALID_STEP
    <3>3. LastWhole(axis') /\ axis'.steps_actual >= 0
      BY <2>1, <3>1 DEF LastWhole
    <3>4. chan.dma /\ Cur(axis).len # 0 => Cur(axis).len = HM_DMA_BUF_SIZE
      BY <1>5 DEF InvWhole, Whole
    <3> QED BY <1>1, <1>2, <3>2, <3>3, <3>4 DEF InvWhole, Whole, LastWhole
  <2>2. CASE /\ axis'.steps_request = axis.steps_request
             /\ axis'.steps_taken = axis.steps_taken
             /\ axis'.steps_actual = axis.steps_actual
    BY <1>1, <1>2, <1>5, <2>2
      DEF InvWhole, Whole, FreeWhole, LastWhole, MoveWhole, IsWhole, Stopping
  <2> QED BY <2>1, <2>2 DEF AtMostSmooth
<1>6. InvLookup => InvLookup'
  BY <1>1, <1>2 DEF InvLookup
<1>7. InvQuery => InvQuery'
  BY <1>1 DEF InvQuery
<1>8. Stopping /\ axis.steps_request = StopSteps =>
        axis'.steps_request = StopSteps
  BY DEF AtMostSmooth
<1> QED BY <1>1, <1>3, <1>4, <1>5, <1>6, <1>7, <1>8 DEF InvExact, Stopping

(* A sudden stop by a limit handler, in the middle of any command.         *)
LEMMA StopsExact ==
  ASSUME TypeOK, cmd \in CmdType, InvLabel, InvExact, WholeBuffers,
         ShortCommands, StopsNow, ~hung,
         cmd'.pc = cmd.pc, cmd'.ticks = cmd.ticks, cmd'.idx = cmd.idx,
         cmd'.passed = cmd.passed, cmd'.at = cmd.at,
         cmd.pc # "idle" => cmd'.turned,
         lost => lost',
         cmd.pc \in {"suddenTim", "suddenMark"} => lost'
  PROVE  InvExact'
<1>1. /\ axis.axis_state = "asRuning" /\ axis'.axis_state = "asStoped"
      /\ axis'.dir = axis.dir /\ axis'.dma_buf_idx = axis.dma_buf_idx
      /\ axis'.dma_buf = axis.dma_buf
      /\ axis'.steps_request = axis.steps_request
      /\ ~chan.tc /\ ~chan'.tc /\ ~chan'.dma /\ chan'.ht = chan.ht
      /\ chan.dma =>
           /\ axis'.pos = axis.pos + Signed(axis.dir, Cur(axis).len - chan.cndtr)
           /\ chan'.cndtr = chan.cndtr /\ chan'.len = chan.len
      /\ hung' = hung /\ fed' = fed
  BY DEF StopsNow
<1>2. InvSends /\ InvOff /\ InvLookup /\ InvQuery
  BY DEF InvExact
<1>3. /\ cmd.pc # "suddenCount"
      /\ cmd.pc \notin {"suddenTim", "suddenMark"} => chan.dma
      /\ cmd.pc \in {"suddenTim", "suddenMark"} => ~chan.dma
  BY <1>1 DEF InvLabel, Agree, AgreeMark, AgreeSudden
<1>4. /\ chan.cndtr \in Nat /\ chan.len \in Nat /\ cmd.ticks \in Nat
      /\ HM_DMA_BUF_SIZE \in Nat
      /\ axis.dma_buf[cmd.idx].len \in 0 .. HM_DMA_BUF_SIZE
  BY ExactFields
<1>5. InvOff'
  <2>1. CASE cmd.pc \in {"suddenTim", "suddenMark"}
    <3>1. lost' /\ ~chan.ht
      BY <1>1, <1>2, <1>3, <2>1 DEF InvOff
    <3> QED BY <1>1, <3>1 DEF InvOff
  <2>2. CASE cmd.pc \notin {"suddenTim", "suddenMark"}
    <3>1. chan.dma
      BY <1>3, <2>2
    <3>2. /\ chan.ht => chan.len > 0 /\ 2 * chan.cndtr <= chan.len
          /\ lost \/ fed = axis.pos + Signed(axis.dir, Cur(axis).len - chan.cndtr)
      BY <1>2, <3>1 DEF InvSends
    <3>3. lost' \/ fed' = axis'.pos
      BY <1>1, <3>1, <3>2
    <3>4. chan'.ht => /\ chan'.len \in 1 .. HM_DMA_BUF_SIZE
                      /\ 2 * chan'.cndtr <= chan'.len
      <4>1. chan.len = Cur(axis).len /\ Cur(axis).len \in 0 .. HM_DMA_BUF_SIZE
        BY <1>2, <3>1, ExactFields DEF InvSends
      <4> QED BY <1>1, <1>4, <3>1, <3>2, <4>1
    <3> QED BY <1>1, <1>3, <2>2, <3>3, <3>4 DEF InvOff
  <2> QED BY <2>1, <2>2
<1>6. ASSUME cmd.pc \in {"suddenDma", "posState", "posCount", "posAnswer"}
      PROVE  /\ chan.dma
             /\ chan.ht => cmd.idx = axis.dma_buf_idx
             /\ chan.cndtr <= axis.dma_buf[cmd.idx].len
  <2>1. chan.dma
    BY <1>3, <1>6
  <2>2. chan.ht => cmd.idx = axis.dma_buf_idx
    BY <1>2, <1>6, <2>1, LookupCases
  <2>3. axis.dma_buf[cmd.idx].len = Cur(axis).len
    BY <1>2, <1>6 DEF InvLookup, Cur
  <2> QED BY <1>2, <2>1, <2>2, <2>3 DEF InvSends
<1>7. InvLookup'
  <2>1. OtherBlock(axis') = OtherBlock(axis) /\ Cur(axis') = Cur(axis)
    BY <1>1 DEF OtherBlock, Cur
  <2>2. OtherBlock(axis) # axis.dma_buf_idx
    BY BlockCases DEF TypeOK
  <2> QED BY <1>1, <1>2, <1>6, <2>1, <2>2 DEF InvLookup
<1>8. InvQuery'
  BY <1>1, <1>2, <1>6 DEF InvQuery
<1> QED BY <1>1, <1>5, <1>7, <1>8 DEF InvExact, InvSends, InvWhole, Stopping

LEMMA HandlerExact ==
  ASSUME TypeOK, cmd \in CmdType, InvLabel, InvExact, WholeBuffers,
         ShortCommands, ~late',
         \/ Interrupt(DmaIrq) \/ Interrupt(LimitCheck)
         \/ \E l \in Lines : Interrupt(SensorChange(l)) \/ Interrupt(ExtiIrq(l))
  PROVE  InvExact'
<1>1. CASE Interrupt(DmaIrq)
  <2>1. Interrupt(DmaHalf) \/ Interrupt(DmaComplete)
    BY <1>1, Zenon DEF Interrupt, DmaIrq
  <2> QED BY <2>1, HalfExact, CompleteExact
<1>2. ASSUME NEW ACTION A, Interrupt(A), A => AtMostSmooth \/ (StopsNow /\ ~hung)
      PROVE  InvExact'
  <2>1. /\ cmd'.pc = cmd.pc /\ cmd'.ticks = cmd.ticks
        /\ cmd'.idx = cmd.idx /\ cmd'.passed = cmd.passed /\ cmd'.at = cmd.at
        /\ cmd.pc # "idle" =>
             (cmd'.turned <=> \/ cmd.turned
                              \/ axis'.dma_buf_idx # axis.dma_buf_idx
                              \/ axis'.axis_state # axis.axis_state)
        /\ A /\ cmd' \in CmdType
        /\ lost => lost'
        /\ cmd.pc \in {"suddenTim", "suddenMark"}
             /\ axis'.axis_state # axis.axis_state => lost'
    BY <1>2, InterruptDoes
  <2>2. CASE AtMostSmooth
    <3>1. cmd.turned \in BOOLEAN /\ cmd'.turned \in BOOLEAN
      BY <2>1 DEF CmdType
    <3>2. /\ axis'.dma_buf_idx = axis.dma_buf_idx
          /\ axis'.axis_state = axis.axis_state
      BY <2>2 DEF AtMostSmooth
    <3>3. cmd.pc # "idle" => cmd'.turned = cmd.turned
      BY <2>1, <3>1, <3>2
    <3> QED BY <2>1, <2>2, <3>3, SmoothExact
  <2>3. CASE StopsNow /\ ~hung
    <3>1. axis'.axis_state # axis.axis_state
      BY <2>3 DEF StopsNow
    <3> QED BY <2>1, <2>3, <3>1, StopsExact
  <2> QED BY <1>2, <2>1, <2>2, <2>3
<1>3. CASE Interrupt(LimitCheck)
  <2>1. LimitCheck => AtMostSmooth \/ (StopsNow /\ ~hung)
    BY LimitEffect
  <2> QED BY <1>2, <1>3, <2>1
<1>4. ASSUME NEW l \in Lines, Interrupt(SensorChange(l))
      PROVE  InvExact'
  <2>1. SensorChange(l) => AtMostSmooth \/ (StopsNow /\ ~hung)
    BY LimitEffect
  <2> QED BY <1>2, <1>4, <2>1
<1>5. ASSUME NEW l \in Lines, Interrupt(ExtiIrq(l))
      PROVE  InvExact'
  <2>1. ExtiIrq(l) => AtMostSmooth \/ (StopsNow /\ ~hung)
    BY LimitEffect
  <2> QED BY <1>2, <1>5, <2>1
<1> QED BY <1>1, <1>3, <1>4, <1>5

-----------------------------------------------------------------------------
(* The steps of a command.                                                 *)

(* What a started axis sends: whole buffers.                               *)
LEMMA FilledWhole ==
  ASSUME NEW a \in Axis, Filled(a),
         \/ a.steps_request = HM_INVALID_STEP
         \/ a.steps_request # HM_INVALID_STEP /\ IsWhole(a.steps_request),
         ~Stopping
  PROVE  Whole(a)
<1>0. /\ a.steps_request \in Int /\ a.steps_taken \in Int
      /\ a.steps_actual \in Int
      /\ Cur(a).len \in Nat /\ Cur(a).len <= HM_DMA_BUF_SIZE
      /\ Other(a).len \in Nat /\ Other(a).len <= HM_DMA_BUF_SIZE
      /\ OtherLen(a) \in Nat
      /\ HM_DMA_BUF_SIZE \in Nat /\ HM_DMA_BUF_SIZE >= 1
  BY AxisFields, BufAssumption
<1>1. CASE a.steps_request = HM_INVALID_STEP
  <2>1. /\ Cur(a).len = HM_DMA_BUF_SIZE
        /\ Other(a).valid /\ OtherLen(a) = HM_DMA_BUF_SIZE
        /\ a.steps_actual = -1
    BY <1>1 DEF Filled, HM_INVALID_STEP
  <2>2. FreeWhole(a)
    BY <2>1 DEF FreeWhole, OtherLen
  <2> QED BY <1>1, <2>1, <2>2 DEF Whole
<1>2. CASE a.steps_request # HM_INVALID_STEP /\ IsWhole(a.steps_request)
  <2>1. /\ 0 <= a.steps_taken /\ a.steps_taken <= a.steps_request
        /\ a.steps_actual = 0
        /\ a.steps_taken = Cur(a).len + OtherLen(a)
        /\ Cur(a).len < HM_DMA_BUF_SIZE => Cur(a).len = a.steps_request
        /\ Other(a).valid /\ OtherLen(a) < HM_DMA_BUF_SIZE
             => a.steps_taken = a.steps_request
    BY <1>2 DEF Filled
  <2>2. \/ a.steps_request = 0
        \/ /\ a.steps_request >= HM_DMA_BUF_SIZE
           /\ IsWhole(a.steps_request - HM_DMA_BUF_SIZE)
    BY <1>0, <1>2, WholeLess
  <2>3. CASE Cur(a).len = 0
    BY <2>3 DEF Whole
  <2>4. CASE Cur(a).len # 0
    <3> DEFINE rest == a.steps_request - HM_DMA_BUF_SIZE
    <3>1. a.steps_request # 0 /\ Cur(a).len = HM_DMA_BUF_SIZE
      BY <1>0, <2>1, <2>2, <2>4
    <3>2. rest \in Int /\ rest >= 0 /\ IsWhole(rest)
      BY <1>0, <2>2, <3>1
    <3>3. CASE rest = 0
      <4>1. LastWhole(a)
        BY <1>0, <2>1, <3>3 DEF LastWhole
      <4> QED BY <1>0, <1>2, <2>1, <3>1, <4>1 DEF Whole
    <3>4. CASE rest # 0
      <4>1. rest >= HM_DMA_BUF_SIZE /\ IsWhole(rest - HM_DMA_BUF_SIZE)
        BY <3>2, <3>4, WholeLess
      <4>2. CASE Other(a).valid
        <5>1. OtherLen(a) = Other(a).len
          BY <4>2 DEF OtherLen
        <5>2. Other(a).len = HM_DMA_BUF_SIZE
          BY <1>0, <2>1, <3>1, <4>1, <4>2, <5>1
        <5>3. a.steps_request - a.steps_taken = rest - HM_DMA_BUF_SIZE
          BY <1>0, <2>1, <3>1, <5>1, <5>2
        <5>4. MoveWhole(a)
          BY <1>0, <2>1, <3>1, <4>1, <5>1, <5>2, <5>3 DEF MoveWhole
        <5> QED BY <1>0, <1>2, <2>1, <3>1, <5>4 DEF Whole
      <4>3. CASE ~Other(a).valid
        <5>1. OtherLen(a) = 0
          BY <4>3 DEF OtherLen
        <5>2. a.steps_request - a.steps_taken = rest
          BY <1>0, <2>1, <3>1, <5>1
        <5>3. MoveWhole(a)
          BY <1>0, <2>1, <3>1, <3>2, <4>3, <5>1, <5>2 DEF MoveWhole
        <5> QED BY <1>0, <1>2, <2>1, <3>1, <5>3 DEF Whole
      <4> QED BY <4>2, <4>3
    <3> QED BY <3>3, <3>4
  <2> QED BY <2>3, <2>4
<1> QED BY <1>1, <1>2

LEMMA ArmExact ==
  ASSUME TypeOK, InvLabel, InvExact, NEW a \in Axis, Arm(a),
         Filled(a), a.pos = axis.pos, Begin("start", "mark"), IsStoped(axis),
         \/ a.steps_request = HM_INVALID_STEP
         \/ a.steps_request # HM_INVALID_STEP /\ IsWhole(a.steps_request)
  PROVE  InvExact'
<1>1. /\ cmd'.pc = "mark" /\ cmd.pc = "idle" /\ ~hung /\ ~chan.ht /\ ~chan.tc
      /\ lost' = lost
  <2>1. "mark" \in Pc
    BY DEF Pc
  <2> QED BY <2>1, BeginDoes DEF EthMayRun
<1>2. ~chan.dma /\ chan \in Chan
  BY <1>1 DEF InvLabel, Agree, IsStoped, TypeOK
<1>3. lost \/ fed = axis.pos
  BY <1>1, <1>2 DEF InvExact, InvOff
<1> DEFINE b == (a.dir = "rdCW")
           d == [chan EXCEPT !.cw = b]
           s == hm_dma_setup(a, d, TRUE)
<1>4. b \in BOOLEAN
  OBVIOUS
<1> HIDE DEF b
<1>5. d \in Chan /\ ~d.dma /\ ~d.tc /\ ~d.ht /\ d.cw = b
  BY <1>1, <1>2, <1>4 DEF Chan
<1> HIDE DEF d
<1>6. /\ s \in Chan /\ s.dma = TRUE /\ s.tc = d.tc /\ s.ht = d.ht /\ s.cw = d.cw
      /\ s.cndtr = Cur(a).len /\ s.len = Cur(a).len
  BY <1>5, SetupView
<1> HIDE DEF s
<1>7. chan' = [s EXCEPT !.tim = TRUE]
  BY Zenon DEF Arm, hm_motor_set_dir, s, d, b
<1>8. /\ chan'.dma /\ ~chan'.tc /\ ~chan'.ht /\ chan'.cw = b
      /\ chan'.cndtr = Cur(a).len /\ chan'.len = Cur(a).len
  BY <1>5, <1>6, <1>7 DEF Chan
<1>9. /\ axis'.dir = a.dir /\ axis'.pos = a.pos
      /\ axis'.steps_request = a.steps_request
      /\ axis'.steps_taken = a.steps_taken
      /\ axis'.steps_actual = a.steps_actual
      /\ axis'.dma_buf_idx = a.dma_buf_idx /\ axis'.dma_buf = a.dma_buf
  BY DEF Arm, Axis
<1>10. Cur(axis') = Cur(a) /\ Other(axis') = Other(a) /\ OtherLen(axis') = OtherLen(a)
  BY <1>9 DEF Cur, Other, OtherBlock, OtherLen
<1>11. fed' = fed
  BY DEF Arm
<1>12. InvSends'
  <2>1. Cur(a).len \in Nat /\ a.pos \in Int
    BY AxisFields
  <2>2. chan'.len - chan'.cndtr = 0
    BY <1>8, <2>1
  <2>3. Signed(axis'.dir, 0) = 0
    BY SignedZero
  <2>4. lost' \/ fed' = axis'.pos + Signed(axis'.dir, chan'.len - chan'.cndtr)
    BY <1>1, <1>3, <1>9, <1>11, <2>1, <2>2, <2>3
  <2>5. chan'.cndtr <= chan'.len /\ ~(chan'.cndtr = 0 /\ chan'.len > 0)
    BY <1>8, <2>1
  <2>6. chan'.cw <=> (axis'.dir = "rdCW")
    BY <1>8, <1>9 DEF b
  <2> QED BY <1>8, <1>10, <2>4, <2>5, <2>6 DEF InvSends
<1>13. InvWhole'
  <2>1. ~Stopping /\ ~Stopping'
    BY <1>1 DEF Stopping
  <2>2. Whole(a)
    BY <2>1, FilledWhole
  <2> QED BY <1>9, <1>10, <2>1, <2>2
    DEF InvWhole, Whole, FreeWhole, LastWhole, MoveWhole, IsWhole
<1> QED BY <1>1, <1>8, <1>11, <1>12, <1>13
  DEF InvExact, InvOff, InvLookup, InvQuery, Stopping

(* The commands that begin: what they look up.                             *)
LEMMA BeginView ==
  ASSUME TypeOK, NEW op, NEW next \in Pc, Begin(op, next)
  PROVE  /\ cmd'.pc = next /\ cmd'.ticks = 0 /\ cmd'.idx = axis.dma_buf_idx
         /\ cmd'.passed = 0 /\ cmd'.at = fed /\ ~cmd'.turned
         /\ cmd.pc = "idle" /\ ~hung /\ ~chan.ht /\ ~chan.tc /\ lost' = lost
<1>1. cmd' = [pc |-> next, idx |-> axis.dma_buf_idx, passed |-> 0, at |-> fed,
              ticks |-> 0, turned |-> FALSE]
  BY DEF Begin, Idle
<1>2. cmd.pc = "idle" /\ ~hung /\ ~chan.ht /\ ~chan.tc /\ lost' = lost
  BY DEF Begin, EthMayRun
<1> QED BY <1>1, <1>2

LEMMA GotoView ==
  ASSUME cmd \in CmdType, NEW pc, NEW next \in Pc, Goto(pc, next)
  PROVE  /\ cmd'.pc = next /\ cmd.pc = pc /\ ~hung /\ ~chan.ht /\ ~chan.tc
         /\ lost' = lost
         /\ next # "idle" =>
              /\ cmd'.ticks = cmd.ticks /\ cmd'.idx = cmd.idx
              /\ cmd'.passed = cmd.passed /\ cmd'.at = cmd.at
              /\ cmd'.turned = cmd.turned
<1>1. /\ cmd'.pc = next /\ cmd.pc = pc /\ ~hung /\ ~chan.ht /\ ~chan.tc
      /\ lost' = lost
  BY GotoDoes DEF EthMayRun
<1>2. CASE next # "idle"
  <2>1. cmd' = [cmd EXCEPT !.pc = next]
    BY <1>2 DEF Goto
  <2> QED BY <1>1, <2>1 DEF CmdType
<1> QED BY <1>1, <1>2

(* A step of a command that touches nothing InvExact speaks of but pc.     *)
SameData ==
  /\ axis'.dir = axis.dir /\ axis'.pos = axis.pos
  /\ axis'.dma_buf_idx = axis.dma_buf_idx /\ axis'.dma_buf = axis.dma_buf
  /\ axis'.steps_request = axis.steps_request
  /\ axis'.steps_taken = axis.steps_taken
  /\ axis'.steps_actual = axis.steps_actual
  /\ chan'.dma = chan.dma /\ chan'.cndtr = chan.cndtr /\ chan'.len = chan.len
  /\ chan'.ht = chan.ht /\ chan'.tc = chan.tc /\ chan'.cw = chan.cw
  /\ UNCHANGED <<hung, fed, lost>>

LEMMA SameExact ==
  ASSUME SameData, InvExact, ~hung,
         cmd.pc \notin {"smoothTaken", "smoothActual"}, ~Stopping'
  PROVE  /\ InvSends' /\ InvWhole' /\ ~hung'
         /\ Cur(axis') = Cur(axis) /\ Other(axis') = Other(axis)
         /\ OtherBlock(axis') = OtherBlock(axis)
<1>1. /\ Cur(axis') = Cur(axis) /\ Other(axis') = Other(axis)
      /\ OtherBlock(axis') = OtherBlock(axis) /\ OtherLen(axis') = OtherLen(axis)
  BY DEF SameData, Cur, Other, OtherBlock, OtherLen
<1>2. InvSends'
  BY <1>1 DEF InvExact, InvSends, SameData
<1>3. InvWhole'
  <2>1. SUFFICES ASSUME chan.dma
                 PROVE  Whole(axis)'
    BY DEF InvWhole, SameData
  <2>2. Whole(axis)
    BY <2>1 DEF InvExact, InvWhole
  <2>3. FreeWhole(axis) => FreeWhole(axis')
    BY <1>1 DEF FreeWhole, SameData
  <2>4. LastWhole(axis) => LastWhole(axis')
    BY <1>1 DEF LastWhole, SameData
  <2>5. MoveWhole(axis) => MoveWhole(axis')
    BY <1>1 DEF MoveWhole, SameData
  <2>6. axis.steps_actual >= 0 \/ ~(Stopping /\ cmd.pc # "smoothRamp")
    BY DEF Stopping
  <2>7. Whole(axis)' <=>
          (Cur(axis').len # 0 =>
             /\ Cur(axis').len = HM_DMA_BUF_SIZE
             /\ axis'.steps_request = HM_INVALID_STEP => FreeWhole(axis')
             /\ axis'.steps_request # HM_INVALID_STEP =>
                  /\ axis'.steps_request >= 0
                  /\ axis'.steps_actual >= 0
                  /\ LastWhole(axis') \/ MoveWhole(axis'))
    BY DEF Whole, FreeWhole, LastWhole, MoveWhole, IsWhole
  <2> QED BY <1>1, <2>2, <2>3, <2>4, <2>5, <2>6, <2>7 DEF Whole, SameData
<1> QED BY <1>1, <1>2, <1>3 DEF InvExact, SameData

LEMMA MarkExact ==
  ASSUME TypeOK, cmd \in CmdType, InvLabel, InvExact,
         Mark \/ SmoothBegin \/ SmoothMark \/ SmoothRamp
  PROVE  InvExact'
<1>0. /\ "idle" \in Pc /\ "smoothMark" \in Pc /\ "smoothRequest" \in Pc
      /\ axis \in Axis
  BY DEF Pc, TypeOK
<1>1. /\ cmd'.pc \in {"idle", "smoothMark", "smoothRequest"}
      /\ cmd.pc \in {"mark", "idle", "smoothMark", "smoothRamp"}
      /\ ~hung /\ ~chan.ht /\ lost' = lost
  <2>1. CASE Mark
    <3>1. Goto("mark", "idle")
      BY <2>1 DEF Mark
    <3> QED BY <1>0, <3>1, GotoView
  <2>2. CASE SmoothBegin
    <3>1. Begin("smooth", "smoothMark")
      BY <2>2 DEF SmoothBegin
    <3> QED BY <1>0, <3>1, BeginView
  <2>3. CASE SmoothMark
    <3>1. Goto("smoothMark", "smoothRequest")
      BY <2>3 DEF SmoothMark
    <3> QED BY <1>0, <3>1, GotoView
  <2>4. CASE SmoothRamp
    <3>1. Goto("smoothRamp", "idle")
      BY <2>4 DEF SmoothRamp
    <3> QED BY <1>0, <3>1, GotoView
  <2> QED BY <2>1, <2>2, <2>3, <2>4
<1>2. SameData
  <2>1. CASE Mark
    BY <1>0, <1>1, <2>1 DEF Mark, SameData, Axis
  <2>2. CASE SmoothBegin
    BY <1>0, <1>1, <2>2 DEF SmoothBegin, vars, SameData, Axis
  <2>3. CASE SmoothMark
    BY <1>0, <1>1, <2>3 DEF SmoothMark, SameData, Axis
  <2>4. CASE SmoothRamp
    BY <1>0, <1>1, <2>4 DEF SmoothRamp, SameData, Axis
  <2> QED BY <2>1, <2>2, <2>3, <2>4
<1>3. InvSends' /\ InvWhole' /\ ~hung'
  BY <1>1, <1>2, SameExact DEF Stopping
<1>4. InvOff'
  BY <1>1, <1>2 DEF InvExact, InvOff, SameData
<1> QED BY <1>1, <1>3, <1>4 DEF InvExact, InvLookup, InvQuery, Stopping

(* A change of the settings, between commands.                             *)
LEMMA SettingExact ==
  ASSUME InvExact, NEW flag, NEW v, Setting(flag, v)
  PROVE  InvExact'
BY DEF Setting, SetAxisSetting, InvExact, InvSends, InvOff, InvWhole, InvLookup,
  InvQuery, Whole, FreeWhole, LastWhole, MoveWhole, IsWhole, Stopping

LEMMA SuddenExact ==
  ASSUME TypeOK, cmd \in CmdType, InvLabel, InvExact,
         SuddenBegin \/ SuddenDma \/ SuddenTim \/ SuddenMark \/ SuddenCount
  PROVE  InvExact'
<1>0. /\ axis \in Axis /\ chan \in Chan
      /\ "idle" \in Pc /\ "suddenDma" \in Pc /\ "suddenTim" \in Pc
      /\ "suddenMark" \in Pc /\ "suddenCount" \in Pc
  BY DEF Pc, TypeOK
<1>1. CASE SuddenBegin
  <2>1. /\ cmd'.pc = "suddenDma" /\ cmd'.ticks = 0
        /\ cmd'.idx = axis.dma_buf_idx /\ cmd.pc = "idle" /\ ~hung
        /\ ~chan.ht /\ ~chan.tc /\ lost' = lost
    BY <1>0, <1>1, BeginView DEF SuddenBegin
  <2>2. SameData
    BY <1>0, <1>1, <2>1 DEF SuddenBegin, SameData, Axis
  <2>3. InvSends' /\ InvWhole' /\ ~hung'
    BY <2>1, <2>2, SameExact DEF Stopping
  <2>4. InvOff'
    BY <2>1, <2>2 DEF InvExact, InvOff, SameData
  <2>5. InvLookup'
    <3>1. chan.cndtr \in Nat
      BY ExactFields
    <3>2. chan.dma /\ chan.len > 0 => chan.cndtr >= 1
      BY <2>1, <3>1 DEF InvExact, InvSends
    <3> QED BY <2>1, <2>2, <3>1, <3>2 DEF InvLookup, SameData
  <2> QED BY <2>1, <2>3, <2>4, <2>5 DEF InvExact, InvQuery, Stopping
<1>2. CASE SuddenDma
  <2>1. /\ cmd'.pc = "suddenTim" /\ cmd.pc = "suddenDma" /\ ~hung
        /\ ~chan.ht /\ ~chan.tc /\ cmd'.idx = cmd.idx /\ lost' = lost
    BY <1>0, <1>2, GotoView DEF SuddenDma
  <2>2. /\ chan' = hm_dma_setup(axis, chan, FALSE)
        /\ axis' = axis /\ fed' = fed /\ hung' = hung
    BY <1>2 DEF SuddenDma
  <2>3. /\ chan'.dma = FALSE /\ chan'.tc = chan.tc /\ chan'.ht = chan.ht
        /\ chan.dma => chan'.cndtr = chan.cndtr
        /\ ~chan.dma => chan'.cndtr = Cur(axis).len
    BY <1>0, <2>2, SetupView
  <2>4. InvSends /\ InvOff /\ InvLookup
    BY <2>1 DEF InvExact
  <2>5. ASSUME ~lost
        PROVE  fed = axis.pos
                       + Signed(axis.dir, axis.dma_buf[cmd.idx].len - chan'.cndtr)
    <3>0. axis.dma_buf[cmd.idx].len = Cur(axis).len
      BY <2>1, <2>4 DEF InvLookup, Cur
    <3>1. CASE chan.dma
      BY <2>3, <2>4, <2>5, <3>0, <3>1 DEF InvSends
    <3>2. CASE ~chan.dma
      <4>1. Cur(axis).len \in Nat /\ axis.pos \in Int
        BY <1>0, AxisFields
      <4>2. axis.dma_buf[cmd.idx].len - chan'.cndtr = 0
        BY <2>3, <3>0, <3>2, <4>1
      <4>3. Signed(axis.dir, 0) = 0
        BY SignedZero
      <4>4. fed = axis.pos
        BY <2>1, <2>4, <2>5, <3>2 DEF InvOff
      <4> QED BY <4>1, <4>2, <4>3, <4>4
    <3> QED BY <3>1, <3>2
  <2>6. InvOff'
    BY <2>1, <2>2, <2>3, <2>5 DEF InvOff
  <2> QED BY <2>1, <2>2, <2>3, <2>6
    DEF InvExact, InvSends, InvWhole, InvLookup, InvQuery, Stopping
<1>3. CASE SuddenTim \/ SuddenMark
  <2>1. /\ cmd'.pc \in {"suddenMark", "suddenCount"}
        /\ cmd.pc \in {"suddenTim", "suddenMark"} /\ ~hung
        /\ cmd'.idx = cmd.idx /\ lost' = lost
    <3>1. CASE SuddenTim
      <4>1. Goto("suddenTim", "suddenMark")
        BY <3>1 DEF SuddenTim
      <4> QED BY <1>0, <4>1, GotoView
    <3>2. CASE SuddenMark
      <4>1. Goto("suddenMark", "suddenCount")
        BY <3>2 DEF SuddenMark
      <4> QED BY <1>0, <4>1, GotoView
    <3> QED BY <1>3, <3>1, <3>2
  <2>2. SameData
    <3>1. CASE SuddenTim
      BY <1>0, <2>1, <3>1 DEF SuddenTim, SameData, Chan
    <3>2. CASE SuddenMark
      BY <1>0, <2>1, <3>2 DEF SuddenMark, MarkStoped, SameData, Axis
    <3> QED BY <1>3, <3>1, <3>2
  <2>3. InvSends' /\ InvWhole' /\ ~hung'
    BY <2>1, <2>2, SameExact DEF Stopping
  <2>4. InvOff'
    BY <2>1, <2>2 DEF InvExact, InvOff, SameData
  <2> QED BY <2>1, <2>3, <2>4 DEF InvExact, InvLookup, InvQuery, Stopping
<1>4. CASE SuddenCount
  <2> DEFINE n == axis.pos
                    + Signed(axis.dir, axis.dma_buf[cmd.idx].len - chan.cndtr)
  <2>1. /\ cmd'.pc = "idle" /\ cmd.pc = "suddenCount" /\ ~hung
        /\ ~chan.ht /\ ~chan.tc /\ lost' = lost
    BY <1>0, <1>4, GotoView DEF SuddenCount
  <2>2. /\ axis' = [axis EXCEPT !.pos = n]
        /\ chan' = chan /\ fed' = fed /\ hung' = hung
    BY <1>4, Zenon DEF SuddenCount
  <2>3. ~chan.dma
    BY <2>1 DEF InvLabel, AgreeSudden
  <2>4. lost \/ fed = n
    BY <2>1, <2>3 DEF InvExact, InvOff
  <2> HIDE DEF n
  <2>5. axis'.pos = n
    BY <1>0, <2>2 DEF Axis
  <2>6. InvOff'
    BY <2>1, <2>2, <2>4, <2>5 DEF InvOff
  <2> QED BY <2>1, <2>2, <2>3, <2>6
    DEF InvExact, InvSends, InvWhole, InvLookup, InvQuery, Stopping
<1> QED BY <1>1, <1>2, <1>3, <1>4

(* The three stores of a smooth stop.                                      *)
LEMMA SmoothStores ==
  ASSUME TypeOK, cmd \in CmdType, SmoothRequest \/ SmoothTaken \/ SmoothActual
  PROVE  /\ axis'.dir = axis.dir /\ axis'.pos = axis.pos
         /\ axis'.dma_buf_idx = axis.dma_buf_idx
         /\ axis'.dma_buf = axis.dma_buf
         /\ axis'.steps_request =
              IF SmoothRequest THEN StopSteps ELSE axis.steps_request
         /\ axis'.steps_actual = IF SmoothActual THEN 0 ELSE axis.steps_actual
         /\ chan' = chan /\ hung' = hung /\ fed' = fed /\ lost' = lost
         /\ ~hung /\ ~chan.ht
         /\ SmoothRequest =>
              cmd.pc = "smoothRequest" /\ cmd'.pc = "smoothTaken"
         /\ SmoothTaken => cmd.pc = "smoothTaken" /\ cmd'.pc = "smoothActual"
         /\ SmoothActual => cmd.pc = "smoothActual" /\ cmd'.pc = "smoothRamp"
<1>0. /\ axis \in Axis
      /\ "smoothTaken" \in Pc /\ "smoothActual" \in Pc /\ "smoothRamp" \in Pc
  BY DEF Pc, TypeOK
<1>1. SmoothRequest =>
        cmd.pc = "smoothRequest" /\ cmd'.pc = "smoothTaken" /\ ~hung /\ ~chan.ht
  BY <1>0, GotoView DEF SmoothRequest
<1>2. SmoothTaken =>
        cmd.pc = "smoothTaken" /\ cmd'.pc = "smoothActual" /\ ~hung /\ ~chan.ht
  BY <1>0, GotoView DEF SmoothTaken
<1>3. SmoothActual =>
        cmd.pc = "smoothActual" /\ cmd'.pc = "smoothRamp" /\ ~hung /\ ~chan.ht
  BY <1>0, GotoView DEF SmoothActual
<1>4. ASSUME SmoothRequest
      PROVE  /\ axis'.dir = axis.dir /\ axis'.pos = axis.pos
             /\ axis'.dma_buf_idx = axis.dma_buf_idx
             /\ axis'.dma_buf = axis.dma_buf
             /\ axis'.steps_request = StopSteps
             /\ axis'.steps_actual = axis.steps_actual
  BY <1>0, <1>4 DEF SmoothRequest, Axis
<1>5. ASSUME SmoothTaken
      PROVE  /\ axis'.dir = axis.dir /\ axis'.pos = axis.pos
             /\ axis'.dma_buf_idx = axis.dma_buf_idx
             /\ axis'.dma_buf = axis.dma_buf
             /\ axis'.steps_request = axis.steps_request
             /\ axis'.steps_actual = axis.steps_actual
  BY <1>0, <1>5 DEF SmoothTaken, Axis
<1>6. ASSUME SmoothActual
      PROVE  /\ axis'.dir = axis.dir /\ axis'.pos = axis.pos
             /\ axis'.dma_buf_idx = axis.dma_buf_idx
             /\ axis'.dma_buf = axis.dma_buf
             /\ axis'.steps_request = axis.steps_request
             /\ axis'.steps_actual = 0
  BY <1>0, <1>6 DEF SmoothActual, Axis
<1>7. chan' = chan /\ hung' = hung /\ fed' = fed /\ lost' = lost
  BY DEF SmoothRequest, SmoothTaken, SmoothActual, Goto
<1> QED BY <1>1, <1>2, <1>3, <1>4, <1>5, <1>6, <1>7

LEMMA StoresExact ==
  ASSUME TypeOK, cmd \in CmdType, InvExact, WholeBuffers,
         SmoothRequest \/ SmoothTaken \/ SmoothActual
  PROVE  InvExact'
<1>1. /\ axis'.dir = axis.dir /\ axis'.pos = axis.pos
      /\ axis'.dma_buf_idx = axis.dma_buf_idx /\ axis'.dma_buf = axis.dma_buf
      /\ chan' = chan /\ hung' = hung /\ fed' = fed /\ lost' = lost
      /\ ~hung /\ ~chan.ht
  BY SmoothStores
<1>2. /\ cmd'.pc \in {"smoothTaken", "smoothActual", "smoothRamp"}
      /\ cmd.pc \in {"smoothRequest", "smoothTaken", "smoothActual"}
  BY SmoothStores
<1>3. /\ Cur(axis') = Cur(axis) /\ Other(axis') = Other(axis)
  BY <1>1 DEF Cur, Other, OtherBlock
<1>4. InvSends'
  BY <1>1, <1>3 DEF InvExact, InvSends
<1>5. InvOff'
  BY <1>1, <1>2 DEF InvExact, InvOff
<1>6. axis'.steps_request = StopSteps
  <2>1. SmoothRequest => axis'.steps_request = StopSteps
    BY SmoothStores
  <2>2. ~SmoothRequest => /\ axis'.steps_request = axis.steps_request
                          /\ cmd.pc \in {"smoothTaken", "smoothActual"}
    BY SmoothStores
  <2> QED BY <2>1, <2>2 DEF InvExact, Stopping
<1>7. /\ StopSteps \in Nat /\ StopSteps >= 1 /\ StopSteps <= HM_DMA_BUF_SIZE
      /\ HM_DMA_BUF_SIZE \in Nat /\ axis.steps_actual \in Int
      /\ axis.steps_request \in Int
      /\ StopSteps # HM_INVALID_STEP
  BY ExactFields DEF WholeBuffers, HM_INVALID_STEP
<1>8. InvWhole'
  <2>1. SUFFICES ASSUME chan.dma, Cur(axis).len # 0
                 PROVE  /\ Cur(axis).len = HM_DMA_BUF_SIZE
                        /\ \/ axis'.steps_actual >= 0
                           \/ /\ cmd'.pc # "smoothRamp"
                              /\ axis'.steps_actual = -1
                        /\ LastWhole(axis')
    BY <1>1, <1>2, <1>3, <1>6, <1>7 DEF InvWhole, Whole, LastWhole, Stopping
  <2>2. Whole(axis) /\ Cur(axis).len = HM_DMA_BUF_SIZE
    BY <1>1, <2>1 DEF InvExact, InvWhole, Whole
  <2>3. CASE SmoothActual
    <3>1. axis'.steps_actual = 0
      BY <2>3, SmoothStores
    <3>2. LastWhole(axis')
      BY <1>6, <1>7, <3>1 DEF LastWhole
    <3> QED BY <2>2, <3>1, <3>2
  <2>4. CASE ~SmoothActual
    <3>1. axis'.steps_actual = axis.steps_actual /\ cmd'.pc # "smoothRamp"
      BY <2>4, SmoothStores
    <3>2. axis.steps_actual >= 0 \/ axis.steps_actual = -1
      BY <1>7, <2>1, <2>2 DEF Whole, FreeWhole
    <3>3. CASE axis.steps_actual >= 0
      <4>1. LastWhole(axis')
        BY <1>6, <1>7, <3>1, <3>3 DEF LastWhole
      <4> QED BY <2>2, <3>1, <3>3, <4>1
    <3>4. CASE axis.steps_actual = -1 /\ axis.steps_request = HM_INVALID_STEP
      <4>1. Other(axis).valid /\ Other(axis).len = HM_DMA_BUF_SIZE
        BY <2>1, <2>2, <3>4 DEF Whole, FreeWhole
      <4>2. LastWhole(axis')
        BY <1>3, <1>6, <1>7, <3>1, <3>4, <4>1 DEF LastWhole
      <4> QED BY <2>2, <3>1, <3>4, <4>2
    <3>5. CASE axis.steps_actual = -1 /\ axis.steps_request # HM_INVALID_STEP
      <4>1. Stopping /\ LastWhole(axis)
        BY <2>1, <2>2, <3>5 DEF Whole
      <4>2. axis'.steps_request = axis.steps_request
        BY <1>6, <4>1 DEF InvExact
      <4>3. LastWhole(axis')
        BY <1>3, <3>1, <4>1, <4>2 DEF LastWhole
      <4> QED BY <2>2, <3>1, <3>5, <4>3
    <3> QED BY <3>2, <3>3, <3>4, <3>5
  <2> QED BY <2>3, <2>4
<1> QED BY <1>1, <1>2, <1>4, <1>5, <1>6, <1>8
  DEF InvExact, InvLookup, InvQuery, Stopping

LEMMA QueryExact ==
  ASSUME TypeOK, cmd \in CmdType, InvLabel, InvExact,
         PosBegin \/ PosState \/ PosCount \/ PosAnswer
  PROVE  InvExact'
<1>0. /\ axis \in Axis /\ chan \in Chan
      /\ "idle" \in Pc /\ "posState" \in Pc /\ "posCount" \in Pc
      /\ "posAnswer" \in Pc
  BY DEF Pc, TypeOK
<1>1. /\ axis' = axis /\ chan' = chan /\ hung' = hung /\ fed' = fed
      /\ lost' = lost
  BY DEF PosBegin, PosState, PosCount, PosAnswer, vars, Begin, Goto
<1>2. /\ axis.pos \in Int /\ fed \in Int /\ chan.cndtr \in Nat
      /\ chan.len \in Nat /\ cmd.ticks \in Nat /\ cmd.at \in Int
      /\ HM_DMA_BUF_SIZE \in Nat
      /\ Cur(axis).len \in 0 .. HM_DMA_BUF_SIZE
      /\ axis.dma_buf[cmd.idx].len \in 0 .. HM_DMA_BUF_SIZE
  BY ExactFields
<1>3. SameData
  BY <1>1 DEF SameData
<1>4. CASE PosBegin
  <2>1. /\ cmd'.pc = "posState" /\ cmd'.ticks = 0
        /\ cmd'.idx = axis.dma_buf_idx /\ cmd'.passed = 0 /\ cmd'.at = fed
        /\ cmd.pc = "idle" /\ ~hung /\ ~chan.tc
    BY <1>0, <1>4, BeginView DEF PosBegin
  <2>2. InvSends' /\ InvWhole' /\ ~hung'
    BY <1>3, <2>1, SameExact DEF Stopping
  <2>3. InvOff'
    BY <1>1, <2>1 DEF InvExact, InvOff
  <2>4. InvLookup'
    <3>1. chan.dma /\ chan.len > 0 => chan.cndtr >= 1
      BY <1>2, <2>1 DEF InvExact, InvSends
    <3> QED BY <1>1, <1>2, <2>1, <3>1 DEF InvLookup
  <2>5. InvQuery'
    <3>1. Signed(axis.dir, 0) = 0
      BY SignedZero
    <3> QED BY <1>1, <1>2, <2>1, <3>1 DEF InvQuery
  <2> QED BY <2>1, <2>2, <2>3, <2>4, <2>5 DEF InvExact, Stopping
<1>5. CASE PosState
  <2>1. /\ cmd'.pc = IF IsStoped(axis) THEN "posAnswer" ELSE "posCount"
        /\ cmd.pc = "posState" /\ ~hung
        /\ cmd'.ticks = cmd.ticks /\ cmd'.idx = cmd.idx
        /\ cmd'.passed = cmd.passed /\ cmd'.at = cmd.at
        /\ cmd'.turned = cmd.turned
    <3>1. CASE IsStoped(axis)
      <4>1. Goto("posState", "posAnswer")
        BY <1>5, <3>1 DEF PosState
      <4> QED BY <1>0, <3>1, <4>1, GotoView
    <3>2. CASE ~IsStoped(axis)
      <4>1. Goto("posState", "posCount")
        BY <1>5, <3>2 DEF PosState
      <4> QED BY <1>0, <3>2, <4>1, GotoView
    <3> QED BY <3>1, <3>2
  <2>2. IF IsStoped(axis) THEN ~chan.dma ELSE chan.dma
    <3>1. Agree
      BY <2>1 DEF InvLabel
    <3>2. axis.axis_state \in AxisState
      BY <1>0 DEF Axis
    <3> QED BY <3>1, <3>2 DEF Agree, AxisState, IsStoped
  <2>3. InvSends' /\ InvWhole' /\ ~hung'
    BY <1>3, <2>1, SameExact DEF Stopping
  <2>4. InvOff'
    BY <1>1, <2>1 DEF InvExact, InvOff
  <2>5. InvLookup'
    BY <1>1, <2>1 DEF InvExact, InvLookup
  <2>6. InvQuery'
    BY <1>1, <1>2, <2>1, <2>2 DEF InvExact, InvQuery
  <2> QED BY <2>1, <2>3, <2>4, <2>5, <2>6 DEF InvExact, Stopping
<1>6. CASE PosCount
  <2> DEFINE n == axis.dma_buf[cmd.idx].len - chan.cndtr
  <2>1. /\ cmd' = [cmd EXCEPT !.pc = "posAnswer", !.passed = n]
        /\ cmd.pc = "posCount" /\ ~hung
    BY <1>6 DEF PosCount, EthMayRun
  <2>2. n \in Int
    BY <1>2
  <2> HIDE DEF n
  <2>3. /\ cmd'.pc = "posAnswer" /\ cmd'.passed = n
        /\ cmd'.ticks = cmd.ticks /\ cmd'.idx = cmd.idx /\ cmd'.at = cmd.at
        /\ cmd'.turned = cmd.turned
    BY <2>1, <2>2 DEF CmdType
  <2>4. InvSends' /\ InvWhole' /\ ~hung'
    BY <1>3, <2>1, <2>3, SameExact DEF Stopping
  <2>5. InvOff'
    BY <1>1, <2>1, <2>3 DEF InvExact, InvOff
  <2>6. InvLookup'
    BY <1>1, <2>1, <2>3 DEF InvExact, InvLookup
  <2>7. InvQuery'
    <3>0. InvSends /\ InvLookup /\ InvQuery
      BY <2>1 DEF InvExact
    <3>1. CASE chan.dma
      <4>1. axis.dma_buf[cmd.idx].len = chan.len
        BY <2>1, <3>0, <3>1 DEF InvLookup, InvSends, Cur
      <4>2. n = chan.len - chan.cndtr /\ n \in 0 .. HM_DMA_BUF_SIZE
        BY <1>2, <3>0, <3>1, <4>1 DEF n, InvSends
      <4>3. chan.len - chan.cndtr \in n .. n + cmd.ticks
        BY <1>2, <4>2
      <4> QED BY <1>1, <2>1, <2>3, <3>0, <3>1, <4>2, <4>3 DEF InvQuery
    <3>2. CASE ~chan.dma
      <4>1. cmd.turned /\ chan.cndtr <= axis.dma_buf[cmd.idx].len
        BY <2>1, <3>0, <3>2 DEF InvQuery
      <4>2. n \in 0 .. HM_DMA_BUF_SIZE
        BY <1>2, <4>1 DEF n
      <4> QED BY <1>1, <2>1, <2>3, <3>0, <3>2, <4>1, <4>2 DEF InvQuery
    <3> QED BY <3>1, <3>2
  <2> QED BY <2>3, <2>4, <2>5, <2>6, <2>7 DEF InvExact, Stopping
<1>7. CASE PosAnswer
  <2>1. cmd'.pc = "idle" /\ cmd.pc = "posAnswer" /\ ~hung
    BY <1>0, <1>7, GotoView DEF PosAnswer
  <2>2. InvSends' /\ InvWhole' /\ ~hung'
    BY <1>3, <2>1, SameExact DEF Stopping
  <2>3. InvOff'
    BY <1>1, <2>1 DEF InvExact, InvOff
  <2> QED BY <2>1, <2>2, <2>3 DEF InvExact, InvLookup, InvQuery, Stopping
<1> QED BY <1>4, <1>5, <1>6, <1>7

LEMMA CommandExact ==
  ASSUME TypeOK, cmd \in CmdType, InvLabel, InvExact, WholeBuffers, Command
  PROVE  InvExact'
<1>1. ASSUME NEW step \in FixSteps, NEW lim \in RampLimits, FixArm(step, lim)
      PROVE  InvExact'
  <2>1. PICK a \in Axis :
          /\ Arm(a) /\ Filled(a) /\ a.steps_request = Abs(step)
          /\ a.pos = axis.pos
          /\ Begin("start", "mark") /\ IsStoped(axis)
    BY <1>1, FixArmDoes
  <2>2. IsWhole(a.steps_request)
    BY <2>1 DEF WholeBuffers
  <2>3. a.steps_request # HM_INVALID_STEP
    BY <2>1, FixAssumption DEF Abs, HM_INVALID_STEP
  <2> QED BY <2>1, <2>2, <2>3, ArmExact
<1>2. ASSUME NEW dir \in {"rdCW", "rdCCW"}, FreeArm(dir)
      PROVE  InvExact'
  <2>1. PICK a \in Axis :
          /\ Arm(a) /\ Filled(a) /\ a.steps_request = HM_INVALID_STEP
          /\ a.pos = axis.pos
          /\ Begin("start", "mark") /\ IsStoped(axis)
    BY <1>2, FreeArmDoes
  <2> QED BY <2>1, ArmExact
<1> QED BY <1>1, <1>2, MarkExact, SuddenExact, StoresExact, QueryExact,
           SettingExact, Zenon DEF Command

LEMMA ExactStep ==
  ASSUME PTypeOK, InvLabel, InvExact, ~late', ShortCommands, WholeBuffers,
         [PNext]_pvars
  PROVE  InvExact'
<1>0. TypeOK /\ cmd \in CmdType
  BY DEF PTypeOK, CmdType
<1>1. CASE PTick
  BY <1>0, <1>1, TickExact
<1>2. CASE Command
  BY <1>0, <1>2, CommandExact
<1>3. CASE \/ \E l \in Lines : Interrupt(SensorChange(l)) \/ Interrupt(ExtiIrq(l))
           \/ Interrupt(DmaIrq)
           \/ Interrupt(LimitCheck)
  BY <1>0, <1>3, HandlerExact
<1>4. CASE UNCHANGED pvars
  BY <1>4 DEF pvars, InvExact, InvSends, InvOff, InvWhole, InvLookup, InvQuery,
    Whole, FreeWhole, LastWhole, MoveWhole, IsWhole, Stopping
<1> QED BY <1>1, <1>2, <1>3, <1>4, HandlerStep

LEMMA ExactInit ==
  ASSUME PInit
  PROVE  PTypeOK /\ InvLabel /\ InvExact
<1>1. PTypeOK
  BY TypeInit, IdleType DEF PInit, PTypeOK, CmdType
<1>2. /\ axis.axis_state = "asStoped" /\ cmd.pc = "idle" /\ ~hung
      /\ ~chan.tim /\ ~chan.dma /\ ~chan.tc /\ ~chan.ht
      /\ axis.pos = 0 /\ fed = 0
  BY DEF PInit, Init, Idle
<1> QED BY <1>1, <1>2
  DEF InvLabel, Agree, InvExact, InvSends, InvOff, InvWhole, InvLookup, InvQuery,
      Stopping

(* Until a limit stop comes late.                                          *)
LEMMA ExactUntilLate ==
  ASSUME PTypeOK, ~late => InvLabel /\ InvExact, ShortCommands, WholeBuffers,
         [PNext]_pvars
  PROVE  PTypeOK' /\ (~late' => InvLabel' /\ InvExact')
BY PTypeStep, PLateStays, LabelStep, ExactStep

(* An axis at rest knows where it is, whatever interrupted the command     *)
(* that stopped it: a sudden stop adds the steps of the buffer it looked   *)
(* up first and the DMA counter it read last, and although a handler may   *)
(* have changed the buffer in between, or stopped the axis before it       *)
(* switched DMA off, the sum is the true position.  The two cases in which *)
(* it is not are named: a limit handler that comes after it has switched   *)
(* DMA off, which loses the steps sent of the buffer (lost), and a limit   *)
(* stop that leaves a transfer-complete pending (late).                    *)
THEOREM RestIsKnown ==
  ASSUME ShortCommands, WholeBuffers
  PROVE  PSpec => []RestIsExact
<1> DEFINE I == PTypeOK /\ (~late => InvLabel /\ InvExact)
<1>1. PInit => I
  BY ExactInit
<1>2. I /\ [PNext]_pvars => I'
  BY ExactUntilLate
<1>3. I => RestIsExact
  BY DEF RestIsExact, InvLabel, Agree, InvExact, InvOff
<1> QED BY <1>1, <1>2, <1>3, PTL DEF PSpec

(* A query answers a position between the true one when it began and the   *)
(* true one when it ends, or one at most a buffer off when a handler has   *)
(* changed the buffer or stopped the axis meanwhile, smoothly or at once:  *)
(* it reads the state, the DMA counter and the position one after the      *)
(* other.  Exempt are the runs in which the position was wrong before.     *)
THEOREM AnswersAreNear ==
  ASSUME ShortCommands, WholeBuffers
  PROVE  PSpec => AnswerIsNear
<1> DEFINE I == PTypeOK /\ (~late => InvLabel /\ InvExact)
           Near == PosAnswer /\ ~late /\ ~lost =>
                     LET slack == IF cmd.turned THEN HM_DMA_BUF_SIZE ELSE 0
                     IN \/ Answer \in cmd.at - slack .. fed + slack
                        \/ Answer \in fed - slack .. cmd.at + slack
<1>1. PInit => I
  BY ExactInit
<1>2. I /\ [PNext]_pvars => I'
  BY ExactUntilLate
<1>3. I => [Near]_pvars
  <2> SUFFICES ASSUME PTypeOK, InvLabel, InvExact, PosAnswer, ~lost
               PROVE  LET slack == IF cmd.turned THEN HM_DMA_BUF_SIZE ELSE 0
                      IN \/ Answer \in cmd.at - slack .. fed + slack
                         \/ Answer \in fed - slack .. cmd.at + slack
    OBVIOUS
  <2>0. TypeOK /\ cmd \in CmdType
    BY DEF PTypeOK, CmdType
  <2>1. cmd.pc = "posAnswer" /\ ~hung
    BY DEF PosAnswer, Goto, EthMayRun
  <2>2. /\ axis.pos \in Int /\ fed \in Int /\ cmd.at \in Int
        /\ cmd.ticks \in Nat /\ cmd.passed \in Int
        /\ chan.cndtr \in Nat /\ chan.len \in Nat /\ chan.dma \in BOOLEAN
        /\ HM_DMA_BUF_SIZE \in Nat
        /\ Cur(axis).len \in 0 .. HM_DMA_BUF_SIZE
    BY <2>0, ExactFields
  <2>3. InvSends /\ InvOff /\ InvQuery
    BY <2>1 DEF InvExact
  <2>4. /\ fed = cmd.at + Signed(axis.dir, cmd.ticks)
        /\ cmd.passed \in 0 .. HM_DMA_BUF_SIZE
        /\ ~cmd.turned /\ chan.dma =>
             chan.len - chan.cndtr \in cmd.passed .. cmd.passed + cmd.ticks
        /\ ~cmd.turned /\ ~chan.dma => cmd.passed = 0
    BY <2>1, <2>3 DEF InvQuery
  <2> DEFINE sent == IF chan.dma THEN chan.len - chan.cndtr ELSE 0
  <2>5. sent \in 0 .. HM_DMA_BUF_SIZE /\ fed = axis.pos + Signed(axis.dir, sent)
    <3>1. CASE chan.dma
      <4>1. sent = chan.len - chan.cndtr
        BY <3>1
      <4> QED BY <2>2, <2>3, <3>1, <4>1 DEF InvSends
    <3>2. CASE ~chan.dma
      <4>1. sent = 0 /\ Signed(axis.dir, 0) = 0
        BY <3>2, SignedZero
      <4>2. fed = axis.pos
        BY <2>1, <2>3, <3>2 DEF InvOff
      <4> QED BY <2>2, <4>1, <4>2
    <3> QED BY <3>1, <3>2
  <2>6. ~cmd.turned => sent \in cmd.passed .. cmd.passed + cmd.ticks
    BY <2>2, <2>4
  <2> HIDE DEF sent
  <2>7. CASE axis.dir = "rdCW"
    <3>1. /\ fed = cmd.at + cmd.ticks /\ fed = axis.pos + sent
          /\ Answer = axis.pos + cmd.passed
      BY <2>4, <2>5, <2>7 DEF Signed, Answer
    <3> QED BY <2>2, <2>4, <2>5, <2>6, <3>1
  <2>8. CASE axis.dir # "rdCW"
    <3>1. /\ fed = cmd.at - cmd.ticks /\ fed = axis.pos - sent
          /\ Answer = axis.pos - cmd.passed
      BY <2>2, <2>4, <2>5, <2>8 DEF Signed, Answer
    <3> QED BY <2>2, <2>4, <2>5, <2>6, <3>1
  <2> QED BY <2>7, <2>8
<1> QED BY <1>1, <1>2, <1>3, PTL DEF PSpec, AnswerIsNear

-----------------------------------------------------------------------------
(* The traps and the order of the buffers.                                 *)

LEMMA TickSafe ==
  ASSUME TypeOK, cmd \in CmdType, InvExact, InvSafe, PTick
  PROVE  InvSafe'
<1>1. /\ cmd'.pc = cmd.pc
      /\ cmd.pc # "idle" => cmd'.ticks = cmd.ticks + 1
      /\ axis' = axis /\ hung' = hung /\ out' = out + 1
      /\ chan.dma /\ chan'.dma = chan.dma
      /\ chan'.len = chan.len /\ chan'.cndtr = chan.cndtr - 1
      /\ chan'.cmar = chan.cmar
      /\ chan.ht => chan'.ht
      /\ 2 * (chan.cndtr - 1) <= chan.len /\ 2 * chan.cndtr > chan.len
           => chan'.ht
  BY TickDoes
<1>2. /\ chan.cndtr \in Nat /\ chan.len \in Nat /\ cmd.ticks \in Nat
      /\ HM_DMA_BUF_SIZE \in Nat
  BY ExactFields
<1>3. Cur(axis).first \in Nat /\ out \in Nat
  BY AxisFields DEF TypeOK
<1>4. InvReady'
  BY <1>1, <1>2 DEF InvSafe, InvReady
<1>5. InvInOrder'
  BY <1>1, <1>2, <1>3 DEF InvSafe, InvInOrder
<1>6. InvSteps'
  <2>1. cmd.pc # "idle" => chan'.cndtr + cmd'.ticks = chan.cndtr + cmd.ticks
    BY <1>1, <1>2
  <2>2. Stopping => cmd.pc # "idle"
    BY DEF Stopping
  <2>3. cmd.pc # "idle" /\ Refilled => Refilled'
    BY <1>1, <2>1 DEF Refilled
  <2>4. Stopping' <=> Stopping
    BY <1>1 DEF Stopping
  <2>5. cmd.pc # "idle" /\ LimitFirst => LimitFirst'
    BY <1>1, <2>3 DEF LimitFirst
  <2>6. InvSteps
    BY DEF InvSafe
  <2>7. /\ axis'.steps_request = HM_INVALID_STEP => axis'.steps_taken = 1
        /\ axis'.steps_request # HM_INVALID_STEP /\ ~Stopping' =>
             /\ axis'.steps_taken <= axis'.steps_request
             /\ axis'.steps_request <= axis'.stop_at
        /\ cmd'.pc \in {"smoothMark", "smoothRequest"} =>
             axis'.steps_request = HM_INVALID_STEP \/ LimitFirst'
    BY <1>1, <2>4, <2>5, <2>6 DEF InvSteps
  <2>8. cmd'.pc = "smoothTaken" =>
          /\ axis'.steps_taken <= StopSteps
          /\ \/ axis'.stop_at = StopSteps + 2 /\ (axis'.steps_taken = 1 \/ Refilled')
             \/ LimitFirst'
    BY <1>1, <2>3, <2>5, <2>6 DEF InvSteps
  <2>9. cmd'.pc \in {"smoothActual", "smoothRamp"} =>
          /\ axis'.steps_taken <= StopSteps /\ axis'.steps_taken <= axis'.stop_at
          /\ axis'.stop_at >= StopSteps \/ Refilled'
    BY <1>1, <2>3, <2>6 DEF InvSteps
  <2>10. /\ Stopping' \/ cmd'.pc = "smoothRequest" => axis'.bstopping
         /\ Stopping' \/ cmd'.pc \in {"smoothMark", "smoothRequest"} =>
              chan'.len = 0 \/ chan'.cndtr + cmd'.ticks >= 1
    BY <1>1, <2>1, <2>2, <2>4, <2>6 DEF InvSteps
  <2> QED BY <2>7, <2>8, <2>9, <2>10 DEF InvSteps
<1> QED BY <1>1, <1>4, <1>5, <1>6 DEF InvSafe

(* The half-transfer part of the handler makes the other buffer ready in   *)
(* time, in order, and never asks for more steps than the ramp has, also   *)
(* when a limit handler has stopped the axis before it.                    *)
LEMMA HalfSteps ==
  ASSUME TypeOK, cmd \in CmdType, InvExact, InvSafe, WholeBuffers,
         chan.dma \/ chan.ht
  PROVE  /\ AfterHalf.stop_at = axis.stop_at
         /\ AfterHalf.bstopping = axis.bstopping
         /\ chan.ht \/ Other(axis).valid => Other(AfterHalf).valid
         /\ chan.dma =>
              /\ AfterHalf.gen
                   = Cur(axis).first + Cur(axis).len + OtherLen(AfterHalf)
              /\ Other(AfterHalf).valid =>
                   Other(AfterHalf).first = Cur(axis).first + Cur(axis).len
         /\ axis.steps_request = HM_INVALID_STEP => AfterHalf.steps_taken = 1
         /\ axis.steps_request # HM_INVALID_STEP =>
              AfterHalf.steps_taken <= axis.steps_request
         /\ axis.steps_request # HM_INVALID_STEP =>
              AfterHalf.steps_taken <= axis.stop_at
         /\ ~RampOverrun(AfterHalf)
<1>0. /\ InvSends /\ InvOff
      /\ Stopping => axis.steps_request = StopSteps
      /\ InvInOrder /\ InvSteps
  BY DEF InvExact, InvSafe
<1>1. axis \in Axis /\ AfterHalf \in Axis
  BY AfterHalfType DEF TypeOK
<1>2. /\ axis.steps_request \in Int /\ axis.steps_taken \in Nat
      /\ axis.stop_at \in Nat /\ axis.gen \in Nat
      /\ Cur(axis).first \in Nat /\ Cur(axis).len \in 0 .. HM_DMA_BUF_SIZE
      /\ StopSteps \in Nat /\ StopSteps >= 1
      /\ HM_DMA_BUF_SIZE \in Nat /\ HM_DMA_BUF_SIZE >= 1
      /\ chan.cndtr \in Nat /\ chan.len \in Nat
      /\ cmd.ticks \in Nat /\ cmd.ticks <= Window /\ Window \in Nat
  BY <1>1, AxisFields, ExactFields
<1>3. axis.steps_request # HM_INVALID_STEP =>
        axis.steps_taken <= axis.steps_request /\ axis.steps_taken <= axis.stop_at
  <2>1. CASE ~Stopping
    BY <1>0, <1>2, <2>1 DEF InvSteps
  <2>2. CASE Stopping
    BY <1>0, <1>2, <2>2 DEF InvSteps, Stopping, LimitFirst
  <2> QED BY <2>1, <2>2
<1>4. CASE ~chan.ht \/ Other(axis).valid
  <2>1. AfterHalf = axis
    BY <1>4, Zenon DEF AfterHalf, hm_dma_fill_next_buf, Other
  <2>2. ~RampOverrun(axis)
    BY <1>2, <1>3 DEF RampOverrun
  <2> QED BY <1>0, <1>3, <1>4, <2>1, <2>2 DEF InvSteps, InvInOrder
<1>5. CASE chan.ht /\ ~Other(axis).valid
  <2> DEFINE r == hm_dma_fill_next_buf(axis)
             n == Other(r).len
  <2>1. AfterHalf = r
    BY <1>5, Zenon DEF AfterHalf
  <2>2. /\ SameMotion(r, axis) /\ Cur(r) = Cur(axis)
        /\ Other(r).valid = TRUE /\ Other(r).first = axis.gen
        /\ n \in Nat
        /\ r.gen = axis.gen + n
        /\ r.steps_taken = IF axis.steps_request = HM_INVALID_STEP
                           THEN axis.steps_taken ELSE axis.steps_taken + n
        /\ /\ axis.steps_request # HM_INVALID_STEP
           /\ axis.steps_taken <= axis.steps_request
           => r.steps_taken <= axis.steps_request
    BY <1>1, <1>5, FillNextView
  <2> HIDE DEF r
  <2>3. /\ r.steps_request = axis.steps_request /\ r.stop_at = axis.stop_at
        /\ r.bstopping = axis.bstopping
    BY <2>2 DEF SameMotion
  <2>4. OtherLen(axis) = 0 /\ OtherLen(r) = n
    BY <1>5, <2>2 DEF OtherLen
  <2> HIDE DEF n
  <2>5. chan.dma => /\ r.gen = Cur(axis).first + Cur(axis).len + OtherLen(r)
                    /\ Other(r).first = Cur(axis).first + Cur(axis).len
    BY <1>0, <1>2, <2>2, <2>4 DEF InvInOrder
  <2>6. ~Refilled
    <3>1. 2 * chan.cndtr <= chan.len /\ chan.len \in 1 .. HM_DMA_BUF_SIZE
      BY <1>0, <1>2, <1>5 DEF InvSends, InvOff
    <3>2. 2 * (Window - 1) < HM_DMA_BUF_SIZE
      BY DEF WholeBuffers
    <3> QED BY <1>2, <1>5, <3>1, <3>2 DEF Refilled
  <2>7. axis.steps_request # HM_INVALID_STEP => axis.steps_request <= axis.stop_at
    <3>1. CASE ~Stopping
      BY <1>0, <1>5, <3>1 DEF InvSteps
    <3>2. CASE Stopping
      BY <1>0, <1>2, <1>5, <2>6, <3>2 DEF InvSteps, Stopping, LimitFirst
    <3> QED BY <3>1, <3>2
  <2>8. axis.steps_request # HM_INVALID_STEP =>
          r.steps_taken <= axis.steps_request /\ r.steps_taken <= axis.stop_at
    BY <1>2, <1>3, <2>2, <2>7
  <2>9. axis.steps_request = HM_INVALID_STEP => r.steps_taken = 1
    BY <1>0, <1>5, <2>2 DEF InvSteps
  <2>10. ~RampOverrun(r)
    <3>1. r.steps_taken \in Int
      BY <1>1, <2>1, AxisFields
    <3> QED BY <1>2, <2>3, <2>8, <3>1 DEF RampOverrun
  <2> QED BY <2>1, <2>2, <2>3, <2>5, <2>8, <2>9, <2>10
<1> QED BY <1>4, <1>5

(* InvSteps after a handler that left the run and its ramp alone, apart    *)
(* from filling a buffer or changing to the next.                          *)
LEMMA StepsKept ==
  ASSUME TypeOK, cmd \in CmdType, InvSafe, InvExact, chan.dma \/ chan.ht,
         chan'.dma => chan.dma,
         cmd'.pc = cmd.pc,
         axis'.steps_request = axis.steps_request,
         axis'.stop_at = axis.stop_at, axis'.bstopping = axis.bstopping,
         axis.steps_request = HM_INVALID_STEP => axis'.steps_taken = 1,
         axis.steps_request # HM_INVALID_STEP =>
           /\ axis'.steps_taken <= axis.steps_request
           /\ axis'.steps_taken <= axis.stop_at,
         Stopping \/ cmd.pc \in {"smoothMark", "smoothRequest"} =>
           /\ Refilled'
           /\ chan'.dma => (chan'.len = 0 \/ chan'.cndtr + cmd'.ticks >= 1)
  PROVE  InvSteps'
<1>1. Stopping => axis.steps_request = StopSteps
  BY DEF InvExact
<1>2. StopSteps # HM_INVALID_STEP
  BY ExactFields DEF HM_INVALID_STEP
<1>3. InvSteps
  BY DEF InvSafe
<1>4. Stopping' <=> Stopping
  BY DEF Stopping
<1>5. Stopping => /\ axis'.steps_taken <= StopSteps
                  /\ axis'.steps_taken <= axis'.stop_at
  BY <1>1, <1>2
<1>6. cmd.pc \in {"smoothTaken", "smoothActual", "smoothRamp"} => Stopping
  BY DEF Stopping
<1>7. (Stopping \/ cmd.pc \in {"smoothMark", "smoothRequest"}) /\ LimitFirst
        => LimitFirst'
  BY <1>2 DEF LimitFirst
<1>8. /\ axis'.steps_request = HM_INVALID_STEP => axis'.steps_taken = 1
      /\ cmd'.pc \in {"smoothMark", "smoothRequest"} =>
           axis'.steps_request = HM_INVALID_STEP \/ LimitFirst'
  BY <1>3, <1>7 DEF InvSteps
<1>9. axis'.steps_request # HM_INVALID_STEP /\ ~Stopping' =>
        /\ axis'.steps_taken <= axis'.steps_request
        /\ axis'.steps_request <= axis'.stop_at
  BY <1>3, <1>4 DEF InvSteps
<1>10. cmd'.pc = "smoothTaken" => axis'.stop_at = StopSteps + 2 \/ LimitFirst'
  BY <1>3, <1>6, <1>7 DEF InvSteps
<1>11. chan'.dma =>
         /\ Stopping' \/ cmd'.pc = "smoothRequest" => axis'.bstopping
         /\ Stopping' \/ cmd'.pc \in {"smoothMark", "smoothRequest"} =>
              chan'.len = 0 \/ chan'.cndtr + cmd'.ticks >= 1
  BY <1>3, <1>4 DEF InvSteps
<1> QED BY <1>5, <1>6, <1>8, <1>9, <1>10, <1>11 DEF InvSteps

LEMMA HalfSafe ==
  ASSUME TypeOK, cmd \in CmdType, InvLabel, InvExact, InvSafe, WholeBuffers,
         Interrupt(DmaHalf)
  PROVE  InvSafe'
<1>1. DmaHalf /\ cmd'.pc = cmd.pc /\ cmd'.ticks = cmd.ticks
  BY InterruptDoes
<1>2. /\ ~hung /\ chan.ht /\ axis' = AfterHalf
      /\ chan' = [chan EXCEPT !.ht = FALSE]
      /\ hung' = RampOverrun(AfterHalf) /\ out' = out
  BY <1>1 DEF DmaHalf
<1>3. /\ chan'.dma = chan.dma /\ ~chan'.ht /\ chan'.cmar = chan.cmar
      /\ chan'.len = chan.len /\ chan'.cndtr = chan.cndtr
      /\ chan'.tim = chan.tim
  BY <1>2 DEF TypeOK, Chan
<1>4. /\ SameMotion(axis', axis) /\ Cur(axis') = Cur(axis)
  BY <1>2, HalfMotion
<1>5. /\ axis'.stop_at = axis.stop_at
      /\ axis'.bstopping = axis.bstopping
      /\ Other(axis').valid
      /\ chan.dma =>
           /\ axis'.gen = Cur(axis).first + Cur(axis).len + OtherLen(axis')
           /\ Other(axis').first = Cur(axis).first + Cur(axis).len
      /\ axis.steps_request = HM_INVALID_STEP => axis'.steps_taken = 1
      /\ axis.steps_request # HM_INVALID_STEP =>
           /\ axis'.steps_taken <= axis.steps_request
           /\ axis'.steps_taken <= axis.stop_at
      /\ ~RampOverrun(AfterHalf)
  BY <1>2, HalfSteps
<1>6. InvReady' /\ ~hung'
  BY <1>2, <1>5 DEF InvReady
<1>7. InvInOrder'
  <2>1. axis'.dma_buf_idx = axis.dma_buf_idx
    BY <1>4 DEF SameMotion
  <2>2. ~chan.dma => ~chan.tim
    <3>1. ~chan.dma =>
            /\ axis.axis_state = "asStoped"
            /\ cmd.pc \notin {"suddenTim", "suddenMark", "suddenCount"}
      BY <1>2 DEF InvExact, InvOff
    <3> QED BY <3>1 DEF InvLabel, Agree, AgreeMark
  <2> QED BY <1>2, <1>3, <1>4, <1>5, <2>1, <2>2
        DEF InvSafe, InvInOrder, InOrder
<1>8. InvSteps'
  <2>1. Refilled'
    BY <1>5 DEF Refilled
  <2>2. axis'.steps_request = axis.steps_request
    BY <1>4 DEF SameMotion
  <2>3. Stopping \/ cmd.pc \in {"smoothMark", "smoothRequest"} =>
           (chan'.dma => (chan'.len = 0 \/ chan'.cndtr + cmd'.ticks >= 1))
    BY <1>1, <1>3 DEF InvSafe, InvSteps
  <2> QED BY <1>1, <1>2, <1>3, <1>5, <2>1, <2>2, <2>3, StepsKept
<1> QED BY <1>6, <1>7, <1>8 DEF InvSafe

LEMMA CompleteSafe ==
  ASSUME TypeOK, cmd \in CmdType, InvExact, InvSafe, WholeBuffers,
         Interrupt(DmaComplete)
  PROVE  InvSafe'
<1> DEFINE a == AfterHalf
<1>1. DmaComplete /\ cmd'.pc = cmd.pc /\ cmd'.ticks = cmd.ticks
  BY InterruptDoes
<1>2. ~hung /\ chan.tc /\ out' = out
  BY <1>1 DEF DmaComplete
<1>3. chan.dma
  BY <1>2 DEF InvExact, InvOff
<1>4. InvSends /\ Whole(axis) /\ InvReady /\ InvInOrder /\ InvSteps
  BY <1>2, <1>3 DEF InvExact, InvWhole, InvSafe
<1>5. chan.cndtr = 0 /\ chan.len = Cur(axis).len /\ chan.len > 0
  BY <1>2, <1>3, <1>4 DEF InvSends
<1>6. chan \in Chan /\ chan.len \in Nat /\ cmd.ticks \in Nat
      /\ HM_DMA_BUF_SIZE \in Nat /\ HM_DMA_BUF_SIZE >= 1
  BY ExactFields
<1>7. Cur(axis).len = HM_DMA_BUF_SIZE
  BY <1>4, <1>5, <1>6 DEF Whole
<1>8. /\ a \in Axis /\ SameMotion(a, axis) /\ Cur(a) = Cur(axis)
      /\ OtherBlock(a) = OtherBlock(axis) /\ Whole(a)
  BY <1>4, HalfWhole
<1>9. chan.ht \/ Other(axis).valid
  BY <1>3, <1>4, <1>5, <1>6 DEF InvReady
<1>10. /\ a.stop_at = axis.stop_at
       /\ a.bstopping = axis.bstopping
       /\ Other(a).valid
       /\ a.gen = Cur(axis).first + Cur(axis).len + OtherLen(a)
       /\ Other(a).first = Cur(axis).first + Cur(axis).len
       /\ axis.steps_request = HM_INVALID_STEP => a.steps_taken = 1
       /\ axis.steps_request # HM_INVALID_STEP =>
            /\ a.steps_taken <= axis.steps_request
            /\ a.steps_taken <= axis.stop_at
       /\ ~RampOverrun(a)
  BY <1>3, <1>9, HalfSteps
<1>11. hm_dma_ck(a)
  BY <1>1, <1>10, Zenon DEF DmaComplete
<1> HIDE DEF a
<1>12. CASE ~MoreToSend(Counted(a))
  <2>1. ~chan'.dma /\ ~chan'.tim /\ ~chan'.ht /\ hung' = hung
    BY <1>3, <1>6, <1>8, <1>11, <1>12, CkStops
  <2> QED BY <1>2, <2>1
    DEF InvSafe, InvReady, InvInOrder, InvSteps, InOrder
<1>13. CASE MoreToSend(Counted(a))
  <2>1. /\ axis'.axis_state = a.axis_state /\ axis'.dir = a.dir
        /\ axis'.dma_buf_idx = OtherBlock(a)
        /\ axis'.steps_request = a.steps_request
        /\ axis'.steps_taken = a.steps_taken
        /\ axis'.steps_actual = a.steps_actual + Cur(a).len
        /\ axis'.stop_at = a.stop_at /\ axis'.gen = a.gen
        /\ axis'.bstopping = a.bstopping
        /\ Cur(axis') = Other(a)
        /\ Other(axis').valid = FALSE
        /\ hung' = hung
        /\ chan'.dma /\ chan'.cmar = OtherBlock(a)
        /\ chan'.cndtr = Other(a).len /\ chan'.len = Other(a).len
    BY <1>6, <1>8, <1>10, <1>11, <1>13, CkGoesOn
  <2>2. axis' \in Axis
    <3>1. TypeOK'
      BY <1>1, HandlerTypes DEF Handler, DmaIrq
    <3> QED BY <3>1 DEF TypeOK
  <2>3. Other(a).len = HM_DMA_BUF_SIZE
    <3>1. Cur(a).len # 0
      BY <1>6, <1>7, <1>8
    <3> QED BY <1>1, <1>8, <1>10, <1>13, <2>1, <2>2, <3>1, NextWhole
  <2>4. InvReady'
    BY <1>6, <2>1, <2>3 DEF InvReady
  <2>5. InvInOrder'
    <3>1. OtherLen(axis') = 0 /\ OtherLen(a) = Other(a).len
      BY <1>10, <2>1 DEF OtherLen
    <3>2. Cur(axis).first \in Nat /\ Cur(axis).len \in Nat /\ out \in Nat
      BY AxisFields DEF TypeOK
    <3>3. out = Cur(axis).first + Cur(axis).len
      BY <1>3, <1>4, <1>5, <3>2 DEF InvInOrder
    <3>4. Cur(axis').first + (chan'.len - chan'.cndtr) = out'
      BY <1>2, <1>6, <1>10, <2>1, <2>3, <3>2, <3>3
    <3>5. axis'.gen = Cur(axis').first + Cur(axis').len + OtherLen(axis')
      BY <1>6, <1>10, <2>1, <2>3, <3>1, <3>2
    <3> QED BY <2>1, <3>4, <3>5 DEF InvInOrder
  <2>6. InvSteps'
    <3>1. Stopping \/ cmd.pc \in {"smoothMark", "smoothRequest"} =>
            cmd.ticks >= 1
      BY <1>3, <1>4, <1>5, <1>6 DEF InvSteps
    <3>2. Stopping \/ cmd.pc \in {"smoothMark", "smoothRequest"} => Refilled'
      BY <1>1, <1>6, <2>1, <2>3, <3>1 DEF Refilled
    <3>3. chan'.cndtr + cmd'.ticks >= 1
      BY <1>1, <1>6, <2>1, <2>3
    <3>4. a.steps_request = axis.steps_request
      BY <1>8 DEF SameMotion
    <3> QED BY <1>1, <1>3, <1>10, <2>1, <3>2, <3>3, <3>4, StepsKept
  <2> QED BY <1>2, <2>1, <2>4, <2>5, <2>6 DEF InvSafe
<1> QED BY <1>12, <1>13

(* A step that leaves the buffers and the channel alone keeps the next     *)
(* buffer ready and the order.                                             *)
SameBuffers ==
  /\ axis'.dma_buf_idx = axis.dma_buf_idx /\ axis'.dma_buf = axis.dma_buf
  /\ axis'.gen = axis.gen
  /\ UNCHANGED <<chan, hung, out>>

LEMMA SameSafe ==
  ASSUME SameBuffers, InvSafe
  PROVE  ~hung' /\ InvReady' /\ InvInOrder'
<1>1. /\ Cur(axis') = Cur(axis) /\ Other(axis') = Other(axis)
      /\ OtherLen(axis') = OtherLen(axis)
  BY DEF SameBuffers, Cur, Other, OtherBlock, OtherLen
<1>2. chan' = chan /\ hung' = hung /\ out' = out
  BY DEF SameBuffers
<1>3. InOrder => InOrder'
  BY <1>2 DEF SameBuffers, InOrder
<1>4. InvReady'
  BY <1>1, <1>2 DEF InvSafe, InvReady
<1>5. InvInOrder'
  <2>1. axis'.dma_buf_idx = axis.dma_buf_idx /\ axis'.gen = axis.gen
    BY DEF SameBuffers
  <2> QED BY <1>1, <1>2, <1>3, <2>1 DEF InvSafe, InvInOrder
<1> QED BY <1>2, <1>4, <1>5 DEF InvSafe

(* Limit and sensor handlers that leave the axis running.  They leave a    *)
(* command's own smooth stop alone once bstopping is set; one that comes   *)
(* between the command's check and that store is first.                    *)
LEMMA LimitSafe ==
  ASSUME TypeOK, cmd \in CmdType, InvExact, InvSafe, AtMostSmooth,
         cmd'.pc = cmd.pc, cmd'.ticks = cmd.ticks
  PROVE  InvSafe'
<1>1. SameBuffers
  BY DEF AtMostSmooth, SameBuffers
<1>2. chan' = chan /\ InvSteps
  BY DEF AtMostSmooth, InvSafe
<1>3. Other(axis') = Other(axis)
  BY DEF AtMostSmooth, Other, OtherBlock
<1>4. Stopping' <=> Stopping
  BY DEF Stopping
<1>5. InvSteps'
  <2>1. CASE ~chan.dma /\ ~chan.ht
    BY <1>2, <2>1 DEF InvSteps
  <2>2. CASE /\ axis'.steps_request = axis.steps_request
             /\ axis'.steps_taken = axis.steps_taken
             /\ axis'.stop_at = axis.stop_at /\ axis'.bstopping = axis.bstopping
    <3>1. (Refilled' <=> Refilled) /\ (LimitFirst' <=> LimitFirst)
      BY <1>2, <1>3, <2>2 DEF Refilled, LimitFirst
    <3> QED BY <1>2, <1>4, <2>2, <3>1 DEF InvSteps
  <2>3. CASE /\ chan.dma \/ chan.ht
             /\ axis'.steps_request = StopSteps /\ axis'.steps_taken = 0
             /\ axis'.stop_at = StopSteps /\ ~axis.bstopping
             /\ axis.axis_state # "asStoped"
    <3>0. chan.dma
      BY <2>3 DEF InvExact, InvOff
    <3>1. ~Stopping /\ cmd.pc # "smoothRequest"
      BY <1>2, <2>3, <3>0 DEF InvSteps
    <3>2. cmd.pc \notin {"smoothTaken", "smoothActual", "smoothRamp"}
      BY <3>1 DEF Stopping
    <3>3. StopSteps \in Nat /\ StopSteps # HM_INVALID_STEP
      BY ExactFields DEF HM_INVALID_STEP
    <3>4. LimitFirst'
      BY <2>3, <3>3 DEF LimitFirst
    <3>5. cmd.pc = "smoothMark" =>
            chan'.len = 0 \/ chan'.cndtr + cmd'.ticks >= 1
      BY <1>2, <3>0 DEF InvSteps
    <3> QED BY <1>4, <2>3, <3>1, <3>2, <3>3, <3>4, <3>5 DEF InvSteps
  <2> QED BY <2>1, <2>2, <2>3 DEF AtMostSmooth
<1> QED BY <1>1, <1>5, SameSafe DEF InvSafe

(* A limit handler that stops the axis at once.                            *)
LEMMA StopsSafe ==
  ASSUME TypeOK, cmd \in CmdType, InvLabel, InvExact, InvSafe,
         StopsNow, cmd'.pc = cmd.pc, cmd'.ticks = cmd.ticks
  PROVE  InvSafe'
<1>1. /\ ~chan'.dma /\ ~chan'.tim /\ chan'.ht = chan.ht /\ hung' = hung
      /\ chan.dma => chan'.cndtr = chan.cndtr
      /\ axis'.steps_request = axis.steps_request
      /\ axis'.steps_taken = axis.steps_taken
      /\ axis'.stop_at = axis.stop_at
      /\ Other(axis') = Other(axis)
  BY DEF StopsNow, Other, OtherBlock
<1>2. chan.ht => chan.dma
  BY DEF StopsNow, InvExact, InvOff
<1>3. Stopping' <=> Stopping
  BY DEF Stopping
<1>4. InvSteps'
  <2>1. CASE ~chan.ht
    BY <1>1, <2>1 DEF InvSteps
  <2>2. CASE chan.ht
    <3>1. (Refilled' <=> Refilled) /\ (LimitFirst' <=> LimitFirst)
      BY <1>1, <1>2, <2>2 DEF Refilled, LimitFirst
    <3> QED BY <1>1, <1>3, <2>2, <3>1 DEF InvSafe, InvSteps
  <2> QED BY <2>1, <2>2
<1> QED BY <1>1, <1>4 DEF InvSafe, InvReady, InvInOrder, InOrder

LEMMA HandlerSafe ==
  ASSUME TypeOK, cmd \in CmdType, InvLabel, InvExact, InvSafe, WholeBuffers,
         ~late',
         \/ Interrupt(DmaIrq) \/ Interrupt(LimitCheck)
         \/ \E l \in Lines : Interrupt(SensorChange(l)) \/ Interrupt(ExtiIrq(l))
  PROVE  InvSafe'
<1>1. CASE Interrupt(DmaIrq)
  <2>1. Interrupt(DmaHalf) \/ Interrupt(DmaComplete)
    BY <1>1, Zenon DEF Interrupt, DmaIrq
  <2> QED BY <2>1, HalfSafe, CompleteSafe
<1>2. ASSUME NEW ACTION A, Interrupt(A), A => AtMostSmooth \/ (StopsNow /\ ~hung)
      PROVE  InvSafe'
  <2>1. cmd'.pc = cmd.pc /\ cmd'.ticks = cmd.ticks /\ A
    BY <1>2, InterruptDoes
  <2> QED BY <1>2, <2>1, LimitSafe, StopsSafe
<1>3. CASE Interrupt(LimitCheck)
  <2>1. LimitCheck => AtMostSmooth \/ (StopsNow /\ ~hung)
    BY LimitEffect
  <2> QED BY <1>2, <1>3, <2>1
<1>4. ASSUME NEW l \in Lines, Interrupt(SensorChange(l))
      PROVE  InvSafe'
  <2>1. SensorChange(l) => AtMostSmooth \/ (StopsNow /\ ~hung)
    BY LimitEffect
  <2> QED BY <1>2, <1>4, <2>1
<1>5. ASSUME NEW l \in Lines, Interrupt(ExtiIrq(l))
      PROVE  InvSafe'
  <2>1. ExtiIrq(l) => AtMostSmooth \/ (StopsNow /\ ~hung)
    BY LimitEffect
  <2> QED BY <1>2, <1>5, <2>1
<1> QED BY <1>1, <1>3, <1>4, <1>5

(* A start: both buffers are filled from the first step of the ramp on,    *)
(* and the ramp has every step requested.                                  *)
LEMMA ArmSafe ==
  ASSUME TypeOK, InvLabel, NEW a \in Axis, Arm(a), Filled(a),
         Begin("start", "mark"), IsStoped(axis)
  PROVE  InvSafe'
<1>1. cmd'.pc = "mark" /\ cmd.pc = "idle"
  <2>1. "mark" \in Pc
    BY DEF Pc
  <2> QED BY <2>1, BeginDoes
<1>2. ~chan.dma /\ chan \in Chan
  BY <1>1 DEF InvLabel, Agree, IsStoped, TypeOK
<1> DEFINE b == (a.dir = "rdCW")
           d == [chan EXCEPT !.cw = b]
           s == hm_dma_setup(a, d, TRUE)
<1>3. b \in BOOLEAN
  OBVIOUS
<1> HIDE DEF b
<1>4. d \in Chan /\ ~d.dma
  BY <1>2, <1>3 DEF Chan
<1> HIDE DEF d
<1>5. /\ s \in Chan /\ s.dma = TRUE /\ s.cmar = a.dma_buf_idx
      /\ s.cndtr = Cur(a).len /\ s.len = Cur(a).len
  BY <1>4, SetupView
<1> HIDE DEF s
<1>6. chan' = [s EXCEPT !.tim = TRUE]
  BY Zenon DEF Arm, hm_motor_set_dir, s, d, b
<1>7. /\ chan'.dma /\ chan'.cmar = a.dma_buf_idx
      /\ chan'.cndtr = Cur(a).len /\ chan'.len = Cur(a).len
  BY <1>5, <1>6 DEF Chan
<1>8. /\ axis'.steps_request = a.steps_request
      /\ axis'.steps_taken = a.steps_taken
      /\ axis'.stop_at = a.stop_at /\ axis'.gen = a.gen
      /\ axis'.dma_buf_idx = a.dma_buf_idx /\ axis'.dma_buf = a.dma_buf
  BY DEF Arm, Axis
<1>9. Cur(axis') = Cur(a) /\ Other(axis') = Other(a) /\ OtherLen(axis') = OtherLen(a)
  BY <1>8 DEF Cur, Other, OtherBlock, OtherLen
<1>10. /\ a.steps_request \in Int /\ a.steps_taken \in Int /\ a.stop_at \in Nat
       /\ Cur(a).len \in Nat /\ OtherLen(a) \in Nat /\ Cur(a).first \in Nat
  BY AxisFields
<1>11. out' = 0 /\ hung' = RampOverrun(a)
  BY DEF Arm
<1>12. ~hung'
  <2>1. a.steps_request # HM_INVALID_STEP =>
          a.steps_taken <= a.steps_request /\ a.steps_request <= a.stop_at
    BY DEF Filled
  <2>2. ~RampOverrun(a)
    BY <1>10, <2>1 DEF RampOverrun
  <2> QED BY <1>11, <2>2
<1>13. InvReady'
  BY <1>7, <1>10 DEF InvReady
<1>14. InvInOrder'
  <2>1. Cur(a).first = 0 /\ a.gen = Cur(a).len + OtherLen(a)
        /\ (Other(a).valid => Other(a).first = Cur(a).len)
    BY DEF Filled
  <2>2. Cur(axis').first + (chan'.len - chan'.cndtr) = out'
    BY <1>7, <1>9, <1>10, <1>11, <2>1
  <2>3. axis'.gen = Cur(axis').first + Cur(axis').len + OtherLen(axis')
    BY <1>8, <1>9, <1>10, <2>1
  <2>4. Other(axis').valid => Other(axis').first = Cur(axis').first + Cur(axis').len
    BY <1>9, <1>10, <2>1
  <2> QED BY <1>7, <1>8, <2>2, <2>3, <2>4 DEF InvInOrder
<1>15. InvSteps'
  <2>1. /\ a.steps_request = HM_INVALID_STEP => a.steps_taken = 1
        /\ a.steps_request # HM_INVALID_STEP =>
             a.steps_taken <= a.steps_request /\ a.steps_request <= a.stop_at
    BY DEF Filled
  <2>2. ~Stopping'
    BY <1>1 DEF Stopping
  <2> QED BY <1>1, <1>8, <2>1, <2>2 DEF InvSteps
<1> QED BY <1>12, <1>13, <1>14, <1>15 DEF InvSafe

(* A step of a command outside the stores of a smooth stop, which leaves   *)
(* the request and the ramp alone.                                         *)
LEMMA PlainSafe ==
  ASSUME SameBuffers, InvSafe, ~Stopping,
         axis'.steps_request = axis.steps_request,
         axis'.steps_taken = axis.steps_taken, axis'.stop_at = axis.stop_at,
         cmd'.pc \notin {"smoothMark", "smoothRequest", "smoothTaken",
                         "smoothActual", "smoothRamp"}
  PROVE  InvSafe'
<1>1. ~Stopping' /\ chan' = chan
  BY DEF Stopping, SameBuffers
<1>2. InvSteps'
  BY <1>1 DEF InvSafe, InvSteps
<1> QED BY <1>2, SameSafe DEF InvSafe

LEMMA QuietSafe ==
  ASSUME TypeOK, cmd \in CmdType, InvSafe,
         \/ Mark \/ SuddenBegin \/ SuddenMark \/ SuddenCount
         \/ PosBegin \/ PosState \/ PosCount \/ PosAnswer
         \/ \E flag \in SettingFlags, v \in SettingValues : Setting(flag, v)
  PROVE  InvSafe'
<1>0. /\ axis \in Axis
      /\ "idle" \in Pc /\ "suddenDma" \in Pc /\ "suddenCount" \in Pc
      /\ "posState" \in Pc /\ "posCount" \in Pc /\ "posAnswer" \in Pc
  BY DEF Pc, TypeOK
<1> DEFINE Kept == /\ SameBuffers
                   /\ axis'.steps_request = axis.steps_request
                   /\ axis'.steps_taken = axis.steps_taken
                   /\ axis'.stop_at = axis.stop_at
<1>1. CASE Mark
  <2>1. cmd.pc = "mark" /\ cmd'.pc = "idle"
    BY <1>0, <1>1, GotoView DEF Mark
  <2>2. Kept
    BY <1>0, <1>1 DEF Mark, SameBuffers, Axis
  <2> QED BY <2>1, <2>2, PlainSafe DEF Stopping
<1>2. CASE SuddenBegin
  <2>1. cmd.pc = "idle" /\ cmd'.pc = "suddenDma"
    BY <1>0, <1>2, BeginView DEF SuddenBegin
  <2>2. Kept
    BY <1>0, <1>2 DEF SuddenBegin, SameBuffers, Axis
  <2> QED BY <2>1, <2>2, PlainSafe DEF Stopping
<1>3. CASE SuddenMark
  <2>1. cmd.pc = "suddenMark" /\ cmd'.pc = "suddenCount"
    BY <1>0, <1>3, GotoView DEF SuddenMark
  <2>2. Kept
    BY <1>0, <1>3 DEF SuddenMark, MarkStoped, SameBuffers, Axis
  <2> QED BY <2>1, <2>2, PlainSafe DEF Stopping
<1>4. CASE SuddenCount
  <2>1. cmd.pc = "suddenCount" /\ cmd'.pc = "idle"
    BY <1>0, <1>4, GotoView DEF SuddenCount
  <2>2. Kept
    BY <1>0, <1>4 DEF SuddenCount, SameBuffers, Axis
  <2> QED BY <2>1, <2>2, PlainSafe DEF Stopping
<1>5. CASE PosBegin \/ PosState \/ PosCount \/ PosAnswer
  <2>1. Kept
    BY <1>5 DEF PosBegin, PosState, PosCount, PosAnswer, vars, SameBuffers
  <2>2. /\ cmd.pc \in {"idle", "posState", "posCount", "posAnswer"}
        /\ cmd'.pc \in {"idle", "posState", "posCount", "posAnswer"}
    <3>1. CASE PosBegin
      BY <1>0, <3>1, BeginView DEF PosBegin
    <3>2. CASE PosState
      <4>1. Goto("posState", "posAnswer") \/ Goto("posState", "posCount")
        BY <3>2 DEF PosState
      <4> QED BY <1>0, <4>1, GotoView
    <3>3. CASE PosCount
      <4> DEFINE n == axis.dma_buf[cmd.idx].len - chan.cndtr
      <4>1. cmd' = [cmd EXCEPT !.pc = "posAnswer", !.passed = n]
            /\ cmd.pc = "posCount"
        BY <3>3 DEF PosCount
      <4> HIDE DEF n
      <4> QED BY <4>1 DEF CmdType
    <3>4. CASE PosAnswer
      BY <1>0, <3>4, GotoView DEF PosAnswer
    <3> QED BY <1>5, <3>1, <3>2, <3>3, <3>4
  <2> QED BY <2>1, <2>2, PlainSafe DEF Stopping
<1>6. ASSUME NEW flag \in SettingFlags, NEW v \in SettingValues,
             Setting(flag, v)
      PROVE  InvSafe'
  <2>1. cmd.pc = "idle" /\ cmd' = cmd /\ Kept
    BY <1>6 DEF Setting, SetAxisSetting, SameBuffers
  <2> QED BY <2>1, PlainSafe DEF Stopping
<1> QED BY <1>1, <1>2, <1>3, <1>4, <1>5, <1>6

(* A sudden stop switches the channel off with the timer still on: what    *)
(* the timer has loaded is still the next step.                            *)
LEMMA SuddenSafe ==
  ASSUME TypeOK, cmd \in CmdType, InvLabel, InvSafe, SuddenDma \/ SuddenTim
  PROVE  InvSafe'
<1>0. /\ axis \in Axis /\ chan \in Chan
      /\ "suddenTim" \in Pc /\ "suddenMark" \in Pc
  BY DEF Pc, TypeOK
<1>1. CASE SuddenDma
  <2>1. cmd.pc = "suddenDma" /\ ~chan.ht
    BY <1>0, <1>1, GotoView DEF SuddenDma
  <2>2. /\ chan' = hm_dma_setup(axis, chan, FALSE)
        /\ axis' = axis /\ hung' = hung /\ out' = out
    BY <1>1 DEF SuddenDma
  <2>3. /\ chan'.dma = FALSE /\ chan'.tim = chan.tim /\ chan'.ht = chan.ht
        /\ chan.dma => /\ chan'.cndtr = chan.cndtr /\ chan'.len = chan.len
                       /\ chan'.cmar = chan.cmar
    BY <1>0, <2>2, SetupView
  <2>4. InOrder'
    <3>1. CASE chan.dma
      <4>1. /\ chan.cmar = axis.dma_buf_idx
            /\ Cur(axis).first + (chan.len - chan.cndtr) = out
        BY <3>1 DEF InvSafe, InvInOrder
      <4> QED BY <2>2, <2>3, <3>1, <4>1 DEF InOrder, Cur
    <3>2. CASE ~chan.dma
      <4>1. Agree
        BY <2>1 DEF InvLabel
      <4>2. ~chan.tim
        BY <1>0, <3>2, <4>1 DEF Agree, Axis, AxisState
      <4> QED BY <2>3, <4>2 DEF InOrder
    <3> QED BY <3>1, <3>2
  <2> QED BY <2>1, <2>2, <2>3, <2>4 DEF InvSafe, InvReady, InvInOrder, InvSteps
<1>2. CASE SuddenTim
  <2>1. cmd.pc = "suddenTim" /\ ~chan.ht
    BY <1>0, <1>2, GotoView DEF SuddenTim
  <2>2. ~chan.dma
    BY <2>1 DEF InvLabel, AgreeSudden
  <2>3. chan'.dma = chan.dma /\ ~chan'.tim /\ ~chan'.ht /\ hung' = hung
    BY <1>0, <1>2, <2>1 DEF SuddenTim, Chan
  <2> QED BY <2>2, <2>3 DEF InvSafe, InvReady, InvInOrder, InvSteps, InOrder
<1> QED BY <1>1, <1>2

(* A smooth stop of a free run.  It begins with at least one step left of  *)
(* the current buffer, so at most one buffer ends while it stores.         *)
LEMMA SmoothBeginSafe ==
  ASSUME TypeOK, cmd \in CmdType, InvExact, InvSafe, ~StopFixed, SmoothBegin
  PROVE  InvSafe'
<1>0. "smoothMark" \in Pc
  BY DEF Pc
<1>1. /\ cmd'.pc = "smoothMark" /\ cmd'.ticks = 0
      /\ cmd.pc = "idle" /\ ~hung /\ ~chan.tc
  BY <1>0, BeginView DEF SmoothBegin
<1>2. /\ SameBuffers /\ axis' = axis
      /\ axis.steps_request = HM_INVALID_STEP
  BY DEF SmoothBegin, vars, SameBuffers
<1>3. chan' = chan /\ InvSteps /\ ~Stopping'
  BY <1>1, <1>2 DEF SameBuffers, InvSafe, Stopping
<1>4. chan.cndtr \in Nat /\ chan.len \in Nat
  BY ExactFields
<1>5. chan.dma => chan.len = 0 \/ chan.cndtr >= 1
  BY <1>1, <1>4 DEF InvExact, InvSends
<1>6. InvSteps'
  BY <1>1, <1>2, <1>3, <1>4, <1>5 DEF InvSteps
<1> QED BY <1>2, <1>6, SameSafe DEF InvSafe

LEMMA SmoothMarkSafe ==
  ASSUME TypeOK, cmd \in CmdType, InvSafe, SmoothMark
  PROVE  InvSafe'
<1>0. axis \in Axis /\ "smoothRequest" \in Pc
  BY DEF Pc, TypeOK
<1>1. /\ cmd.pc = "smoothMark" /\ cmd'.pc = "smoothRequest"
      /\ cmd'.ticks = cmd.ticks
  BY <1>0, GotoView DEF SmoothMark
<1>2. /\ SameBuffers
      /\ axis'.steps_request = axis.steps_request
      /\ axis'.steps_taken = axis.steps_taken
      /\ axis'.stop_at = axis.stop_at /\ axis'.bstopping = TRUE
  BY <1>0 DEF SmoothMark, SameBuffers, Axis
<1>3. /\ chan' = chan /\ InvSteps /\ ~Stopping /\ ~Stopping'
      /\ Other(axis') = Other(axis)
  BY <1>1, <1>2 DEF SameBuffers, InvSafe, Stopping, Other, OtherBlock
<1>4. LimitFirst => LimitFirst'
  BY <1>1, <1>2, <1>3 DEF LimitFirst, Refilled
<1>5. InvSteps'
  BY <1>1, <1>2, <1>3, <1>4 DEF InvSteps
<1> QED BY <1>2, <1>5, SameSafe DEF InvSafe

LEMMA StoresSafe ==
  ASSUME TypeOK, cmd \in CmdType, InvExact, InvSafe,
         SmoothRequest \/ SmoothTaken \/ SmoothActual \/ SmoothRamp
  PROVE  InvSafe'
<1>0. /\ axis \in Axis /\ "smoothTaken" \in Pc /\ "smoothActual" \in Pc
      /\ "smoothRamp" \in Pc /\ "idle" \in Pc /\ cmd.ticks \in Nat
  BY ExactFields DEF Pc, TypeOK
<1>1. /\ axis.steps_request \in Int /\ axis.steps_taken \in Nat
      /\ axis.stop_at \in Nat
      /\ StopSteps \in Nat /\ StopSteps >= 1 /\ StopSteps # HM_INVALID_STEP
      /\ HM_INVALID_STEP = -1
  BY <1>0, AxisFields, ExactFields DEF HM_INVALID_STEP
<1>2. SameBuffers
  <2>1. CASE SmoothRequest
    BY <1>0, <2>1 DEF SmoothRequest, SameBuffers, Axis
  <2>2. CASE SmoothTaken
    BY <1>0, <2>2 DEF SmoothTaken, SameBuffers, Axis
  <2>3. CASE SmoothActual
    BY <1>0, <2>3 DEF SmoothActual, SameBuffers, Axis
  <2>4. CASE SmoothRamp
    BY <1>0, <2>4 DEF SmoothRamp, SameBuffers, Axis
  <2> QED BY <2>1, <2>2, <2>3, <2>4
<1>3. chan' = chan /\ Other(axis') = Other(axis)
  BY <1>2 DEF SameBuffers, Other, OtherBlock
<1>4. cmd'.ticks = cmd.ticks /\ Refilled => Refilled'
  BY <1>3 DEF Refilled
<1>5. InvSteps /\ (Stopping => axis.steps_request = StopSteps)
  BY DEF InvSafe, InvExact
<1>6. CASE ~chan.dma
  <2>0. ~chan.ht
    BY DEF SmoothRequest, SmoothTaken, SmoothActual, SmoothRamp, Goto, EthMayRun
  <2>1. InvSteps'
    BY <1>3, <1>6, <2>0 DEF InvSteps
  <2> QED BY <1>2, <2>1, SameSafe DEF InvSafe
<1>7. CASE chan.dma /\ SmoothRequest
  <2>1. /\ cmd.pc = "smoothRequest" /\ cmd'.pc = "smoothTaken"
        /\ cmd'.ticks = cmd.ticks
    BY <1>0, <1>7, GotoView DEF SmoothRequest
  <2>2. /\ \/ axis.steps_request = HM_INVALID_STEP /\ axis.steps_taken = 1
           \/ LimitFirst
        /\ axis.bstopping /\ (chan.len = 0 \/ chan.cndtr + cmd.ticks >= 1)
    BY <1>5, <1>7, <2>1 DEF InvSteps
  <2>3. /\ axis'.steps_request = StopSteps /\ axis'.steps_taken = axis.steps_taken
        /\ axis'.stop_at = IF axis.steps_request = HM_INVALID_STEP
                           THEN axis.steps_taken + StopSteps + 1
                           ELSE axis.stop_at
        /\ axis'.bstopping = axis.bstopping
    BY <1>0, <1>7 DEF SmoothRequest, Axis
  <2>4. \/ axis'.stop_at = StopSteps + 2 /\ axis'.steps_taken = 1
        \/ LimitFirst'
    BY <1>1, <1>4, <2>1, <2>2, <2>3 DEF LimitFirst
  <2>5. Stopping'
    BY <2>1 DEF Stopping
  <2>6. axis'.steps_taken <= StopSteps
    BY <1>1, <2>2, <2>3 DEF LimitFirst
  <2>7. InvSteps'
    BY <1>1, <1>3, <2>1, <2>2, <2>3, <2>4, <2>5, <2>6 DEF InvSteps
  <2> QED BY <1>2, <2>7, SameSafe DEF InvSafe
<1>8. CASE chan.dma /\ SmoothTaken
  <2>1. /\ cmd.pc = "smoothTaken" /\ cmd'.pc = "smoothActual"
        /\ cmd'.ticks = cmd.ticks
    BY <1>0, <1>8, GotoView DEF SmoothTaken
  <2>2. Stopping /\ Stopping'
    BY <2>1 DEF Stopping
  <2>3. /\ axis.steps_taken <= StopSteps
        /\ \/ axis.stop_at = StopSteps + 2 /\ (axis.steps_taken = 1 \/ Refilled)
           \/ LimitFirst
        /\ axis.bstopping /\ (chan.len = 0 \/ chan.cndtr + cmd.ticks >= 1)
        /\ axis.steps_request = StopSteps
    BY <1>5, <1>8, <2>1, <2>2 DEF InvSteps
  <2>4. axis.stop_at >= axis.steps_taken
    BY <1>1, <2>3 DEF LimitFirst
  <2>5. /\ axis'.steps_request = StopSteps /\ axis'.steps_taken = 0
        /\ axis'.stop_at = axis.stop_at - axis.steps_taken /\ axis'.bstopping
    <3>1. ~(axis.stop_at < axis.steps_taken)
      BY <1>1, <2>4
    <3> QED BY <1>0, <1>8, <2>3, <3>1 DEF SmoothTaken, Axis
  <2>6. axis'.stop_at >= StopSteps \/ Refilled'
    <3>1. CASE Refilled
      BY <1>4, <2>1, <3>1
    <3>2. CASE ~Refilled
      BY <1>1, <2>3, <2>5, <3>2 DEF LimitFirst
    <3> QED BY <3>1, <3>2
  <2>7. axis'.steps_taken <= StopSteps /\ axis'.steps_taken <= axis'.stop_at
    BY <1>1, <2>4, <2>5
  <2>8. InvSteps'
    BY <1>1, <1>3, <2>1, <2>2, <2>3, <2>5, <2>6, <2>7 DEF InvSteps
  <2> QED BY <1>2, <2>8, SameSafe DEF InvSafe
<1>9. CASE chan.dma /\ SmoothActual
  <2>1. /\ cmd.pc = "smoothActual" /\ cmd'.pc = "smoothRamp"
        /\ cmd'.ticks = cmd.ticks
    BY <1>0, <1>9, GotoView DEF SmoothActual
  <2>2. Stopping /\ Stopping'
    BY <2>1 DEF Stopping
  <2>3. /\ axis'.steps_request = axis.steps_request
        /\ axis'.steps_taken = axis.steps_taken
        /\ axis'.stop_at = axis.stop_at /\ axis'.bstopping = axis.bstopping
    BY <1>0, <1>9 DEF SmoothActual, Axis
  <2>4. /\ axis.steps_taken <= StopSteps /\ axis.steps_taken <= axis.stop_at
        /\ axis.stop_at >= StopSteps \/ Refilled
        /\ axis.bstopping /\ (chan.len = 0 \/ chan.cndtr + cmd.ticks >= 1)
        /\ axis.steps_request = StopSteps
    BY <1>5, <1>9, <2>1, <2>2 DEF InvSteps
  <2>5. axis'.stop_at >= StopSteps \/ Refilled'
    BY <1>4, <2>1, <2>3, <2>4
  <2>6. InvSteps'
    BY <1>1, <1>3, <2>1, <2>2, <2>3, <2>4, <2>5 DEF InvSteps
  <2> QED BY <1>2, <2>6, SameSafe DEF InvSafe
<1>10. CASE chan.dma /\ SmoothRamp
  <2>1. cmd.pc = "smoothRamp" /\ cmd'.pc = "idle"
    BY <1>0, <1>10, GotoView DEF SmoothRamp
  <2>2. Stopping /\ ~Stopping'
    BY <2>1 DEF Stopping
  <2>3. /\ axis'.steps_request = axis.steps_request
        /\ axis'.steps_taken = axis.steps_taken
        /\ axis'.stop_at = axis.steps_taken + StopSteps
    BY <1>0, <1>1, <1>10 DEF SmoothRamp, Axis
  <2>4. axis.steps_taken <= StopSteps /\ axis.steps_request = StopSteps
    BY <1>5, <1>10, <2>1, <2>2 DEF InvSteps
  <2>5. InvSteps'
    BY <1>1, <2>1, <2>2, <2>3, <2>4 DEF InvSteps
  <2> QED BY <1>2, <2>5, SameSafe DEF InvSafe
<1> QED BY <1>6, <1>7, <1>8, <1>9, <1>10

LEMMA CommandSafe ==
  ASSUME TypeOK, cmd \in CmdType, InvLabel, InvExact, InvSafe, ~StopFixed,
         Command
  PROVE  InvSafe'
<1>1. ASSUME NEW step \in FixSteps, NEW lim \in RampLimits, FixArm(step, lim)
      PROVE  InvSafe'
  <2>1. PICK a \in Axis : /\ Arm(a) /\ Filled(a)
                          /\ Begin("start", "mark") /\ IsStoped(axis)
    BY <1>1, FixArmDoes
  <2> QED BY <2>1, ArmSafe
<1>2. ASSUME NEW dir \in {"rdCW", "rdCCW"}, FreeArm(dir)
      PROVE  InvSafe'
  <2>1. PICK a \in Axis : /\ Arm(a) /\ Filled(a)
                          /\ Begin("start", "mark") /\ IsStoped(axis)
    BY <1>2, FreeArmDoes
  <2> QED BY <2>1, ArmSafe
<1> QED BY <1>1, <1>2, QuietSafe, SuddenSafe, SmoothBeginSafe, SmoothMarkSafe,
           StoresSafe, Zenon DEF Command

LEMMA SafeStep ==
  ASSUME PTypeOK, InvLabel, InvExact, InvSafe, ~late', WholeBuffers,
         ~StopFixed, [PNext]_pvars
  PROVE  InvSafe'
<1>0. TypeOK /\ cmd \in CmdType
  BY DEF PTypeOK, CmdType
<1>1. CASE PTick
  BY <1>0, <1>1, TickSafe
<1>2. CASE Command
  BY <1>0, <1>2, CommandSafe
<1>3. CASE \/ \E l \in Lines : Interrupt(SensorChange(l)) \/ Interrupt(ExtiIrq(l))
           \/ Interrupt(DmaIrq)
           \/ Interrupt(LimitCheck)
  BY <1>0, <1>3, HandlerSafe
<1>4. CASE UNCHANGED pvars
  BY <1>4 DEF pvars, InvSafe, InvReady, InvInOrder, InvSteps, InOrder,
    Refilled, LimitFirst, Stopping
<1> QED BY <1>1, <1>2, <1>3, <1>4, HandlerStep

LEMMA SafeInit ==
  ASSUME PInit
  PROVE  InvSafe
<1>1. ~hung /\ ~chan.tim /\ ~chan.dma /\ ~chan.ht
  BY DEF PInit, Init
<1> QED BY <1>1 DEF InvSafe, InvReady, InvInOrder, InvSteps, InOrder

(* Until a limit stop comes late.                                          *)
LEMMA SafeUntilLate ==
  ASSUME PTypeOK, ~late => InvLabel /\ InvExact /\ InvSafe,
         ShortCommands, WholeBuffers, ~StopFixed, [PNext]_pvars
  PROVE  PTypeOK' /\ (~late' => InvLabel' /\ InvExact' /\ InvSafe')
BY PTypeStep, PLateStays, LabelStep, ExactStep, SafeStep

(* Before a limit stop comes late the DMA interrupt never enters its       *)
(* endless loop for want of a buffer, and the ramp is never asked for a    *)
(* step it has not, whatever step of a command the interrupts come         *)
(* between, a limit handler's stop of either mode among them: the three    *)
(* stores of a smooth stop leave a half-new request, which is enough for   *)
(* the one buffer that can be filled before the last.  The host sends a    *)
(* smooth stop to a free run only: torn between its stores, a smooth stop  *)
(* of a fixed move can hang.                                               *)
THEOREM NeverTrappedHalfWay ==
  ASSUME ShortCommands, WholeBuffers, ~StopFixed
  PROVE  PSpec => []NoTrap
<1> DEFINE I == PTypeOK /\ (~late => InvLabel /\ InvExact /\ InvSafe)
<1>1. PInit => I
  BY ExactInit, SafeInit
<1>2. I /\ [PNext]_pvars => I'
  BY SafeUntilLate
<1>3. I => NoTrap
  BY DEF InvSafe, NoTrap
<1> QED BY <1>1, <1>2, <1>3, PTL DEF PSpec

(* Before a limit stop comes late the steps leave in the order they were   *)
(* generated, none lost and none sent twice, whatever step of a command    *)
(* the interrupts come between.                                            *)
THEOREM PlayedInOrderHalfWay ==
  ASSUME ShortCommands, WholeBuffers, ~StopFixed
  PROVE  PSpec => []PlaysInOrder
<1> DEFINE I == PTypeOK /\ (~late => InvLabel /\ InvExact /\ InvSafe)
<1>1. PInit => I
  BY ExactInit, SafeInit
<1>2. I /\ [PNext]_pvars => I'
  BY SafeUntilLate
<1>3. I => PlaysInOrder
  BY DEF InvSafe, InvInOrder, PlaysInOrder, InOrder, Cur
<1> QED BY <1>1, <1>2, <1>3, PTL DEF PSpec
=============================================================================
