-------------------------- MODULE StepMotor_proofs --------------------------
(* Type correctness and the safety properties of one axis, for every       *)
(* buffer size, every set of commands and every travel bound; the latter   *)
(* until a limit handler stops the axis with a transfer-complete pending.  *)
EXTENDS StepMotor, TLAPS

-----------------------------------------------------------------------------
(* The operators on the axis keep its type.                                *)

(* A well-typed update of one field of the axis.                           *)
LEMMA AxisUpdate ==
  ASSUME NEW a \in Axis
  PROVE  /\ \A v \in AxisState : [a EXCEPT !.axis_state = v] \in Axis
         /\ \A v \in {"rdCW", "rdCCW"} : [a EXCEPT !.dir = v] \in Axis
         /\ \A v \in BOOLEAN : [a EXCEPT !.bdo_home = v] \in Axis
         /\ \A v \in BOOLEAN : [a EXCEPT !.bstopping = v] \in Axis
         /\ \A v \in BOOLEAN : [a EXCEPT !.blast_hit_home = v] \in Axis
         /\ \A v \in Int : [a EXCEPT !.steps_request = v] \in Axis
         /\ \A v \in Nat : [a EXCEPT !.steps_taken = v] \in Axis
         /\ \A v \in Int : [a EXCEPT !.steps_actual = v] \in Axis
         /\ \A v \in Nat : [a EXCEPT !.stop_at = v] \in Axis
         /\ \A v \in Int : [a EXCEPT !.pos = v] \in Axis
         /\ \A v \in [Blocks -> DmaBuf] : [a EXCEPT !.dma_buf = v] \in Axis
         /\ \A v \in Blocks : [a EXCEPT !.dma_buf_idx = v] \in Axis
         /\ \A v \in Nat : [a EXCEPT !.gen = v] \in Axis
BY DEF Axis

(* A well-typed update of one buffer.                                      *)
LEMMA BufUpdate ==
  ASSUME NEW a \in Axis, NEW b \in Blocks
  PROVE  /\ \A v \in DmaBuf : [a.dma_buf EXCEPT ![b] = v] \in [Blocks -> DmaBuf]
         /\ \A n \in 0 .. HM_DMA_BUF_SIZE :
              [a.dma_buf[b] EXCEPT !.len = n] \in DmaBuf
         /\ \A v \in BOOLEAN : [a.dma_buf[b] EXCEPT !.valid = v] \in DmaBuf
<1>1. a.dma_buf \in [Blocks -> DmaBuf]
  BY DEF Axis
<1> QED BY <1>1 DEF DmaBuf

(* hm_dma_update never writes past the end of a buffer.                    *)
LEMMA FillCountFits ==
  ASSUME NEW a \in Axis, NEW b \in Blocks
  PROVE  /\ FillCount(a, b) \in Nat
         /\ a.dma_buf[b].len + FillCount(a, b) \in 0 .. HM_DMA_BUF_SIZE
<1>1. a.dma_buf[b].len \in 0 .. HM_DMA_BUF_SIZE
  BY DEF Axis, DmaBuf
<1>2. a.steps_request \in Int /\ a.steps_taken \in Int
  BY DEF Axis
<1> QED BY <1>1, <1>2, BufAssumption DEF FillCount

LEMMA UpdateType ==
  ASSUME NEW a \in Axis, NEW b \in Blocks
  PROVE  hm_dma_update(a, b) \in Axis
<1> DEFINE n == FillCount(a, b)
           buf == [len |-> a.dma_buf[b].len + n, valid |-> TRUE,
                   first |-> IF a.dma_buf[b].len = 0 THEN a.gen
                             ELSE a.dma_buf[b].first]
           taken == IF a.steps_request = HM_INVALID_STEP THEN a.steps_taken
                    ELSE a.steps_taken + n
<1>1. n \in Nat /\ buf \in DmaBuf /\ taken \in Nat /\ a.gen + n \in Nat
  BY FillCountFits DEF Axis, DmaBuf
<1> DEFINE d == [a.dma_buf EXCEPT ![b] = buf]
           p == [a EXCEPT !.dma_buf = d]
           t == [p EXCEPT !.steps_taken = taken]
<1>2. hm_dma_update(a, b) = [t EXCEPT !.gen = a.gen + n]
  BY DEF hm_dma_update, Axis
<1> HIDE DEF n, buf, taken
<1>3. d \in [Blocks -> DmaBuf]
  BY <1>1, BufUpdate
<1> HIDE DEF d
<1>4. p \in Axis
  BY <1>3, AxisUpdate, Zenon
<1> HIDE DEF p
<1>5. t \in Axis
  BY <1>1, <1>4, AxisUpdate, Zenon
<1> HIDE DEF t
<1> QED BY <1>1, <1>2, <1>5, AxisUpdate, Zenon

LEMMA OtherBlockType ==
  ASSUME NEW a \in Axis
  PROVE  /\ a.dma_buf_idx \in Blocks /\ OtherBlock(a) \in Blocks
         /\ OtherBlock(a) # a.dma_buf_idx
BY DEF OtherBlock, Axis, Blocks

LEMMA FillNextType ==
  ASSUME NEW a \in Axis
  PROVE  hm_dma_fill_next_buf(a) \in Axis
<1> DEFINE b == OtherBlock(a)
<1>1. 0 \in 0 .. HM_DMA_BUF_SIZE
  BY BufAssumption
<1>2. [a EXCEPT !.dma_buf[b].len = 0] \in Axis
  BY <1>1, OtherBlockType, BufUpdate, AxisUpdate, Zenon
<1> QED BY <1>2, OtherBlockType, UpdateType, Zenon DEF hm_dma_fill_next_buf

LEMMA CurType ==
  ASSUME NEW a \in Axis
  PROVE  Cur(a).len \in 0 .. HM_DMA_BUF_SIZE /\ Cur(a).len \in Nat
BY BufAssumption DEF Cur, Axis, DmaBuf

LEMMA SetupType ==
  ASSUME NEW a \in Axis, NEW c \in Chan, NEW en \in BOOLEAN
  PROVE  hm_dma_setup(a, c, en) \in Chan
BY CurType, OtherBlockType DEF hm_dma_setup, Chan

LEMMA SignedType ==
  ASSUME NEW dir, NEW n \in Int
  PROVE  Signed(dir, n) \in Int
BY DEF Signed

LEMMA MarkStopedType ==
  ASSUME NEW a \in Axis
  PROVE  MarkStoped(a) \in Axis
<1>1. "asStoped" \in AxisState
  BY DEF AxisState
<1> QED BY <1>1, AxisUpdate, Zenon DEF MarkStoped

LEMMA StopSmoothType ==
  ASSUME NEW a \in Axis
  PROVE  hm_step_motor_stop_smooth(a) \in Axis
<1>1. 0 \in Int /\ 0 \in Nat /\ StopSteps \in Int /\ StopSteps \in Nat
  BY StopAssumption
<1> QED BY <1>1, AxisUpdate, Zenon DEF hm_step_motor_stop_smooth

LEMMA SuddenType ==
  ASSUME NEW a \in Axis, NEW c \in Chan
  PROVE  SuddenAxis(a, c) \in Axis /\ SuddenChan(a, c) \in Chan
<1>1. SuddenChan(a, c) \in Chan
  <2>1. hm_dma_setup(a, c, FALSE) \in Chan
    BY SetupType
  <2> QED BY <2>1 DEF SuddenChan, Chan
<1> DEFINE m == MarkStoped(a)
           passed == Cur(a).len - SuddenChan(a, c).cndtr
<1>2. m \in Axis
  BY MarkStopedType
<1>3. m.pos + Signed(a.dir, passed) \in Int
  <2>1. passed \in Int
    BY <1>1, CurType DEF Chan
  <2>2. m.pos \in Int
    BY <1>2 DEF Axis
  <2> HIDE DEF m, passed
  <2> QED BY <2>1, <2>2, SignedType
<1>4. m.pos = [m EXCEPT !.bstopping = FALSE].pos
  BY <1>2 DEF Axis
<1>5. SuddenAxis(a, c) \in Axis
  <2> HIDE DEF m
  <2> QED BY <1>2, <1>3, <1>4, AxisUpdate, Zenon DEF SuddenAxis, m
<1> QED BY <1>1, <1>5

LEMMA CountedType ==
  ASSUME NEW a \in Axis
  PROVE  Counted(a) \in Axis
<1> DEFINE i == a.dma_buf_idx
<1>1. a.pos + Signed(a.dir, Cur(a).len) \in Int
  BY CurType, SignedType DEF Axis
<1>2. a.steps_actual + Cur(a).len \in Int
  BY CurType DEF Axis
<1>3. [a.dma_buf EXCEPT ![i] = [a.dma_buf[i] EXCEPT !.valid = FALSE]]
        \in [Blocks -> DmaBuf]
  BY OtherBlockType, BufUpdate, Zenon
<1> DEFINE p == [a EXCEPT !.pos = a.pos + Signed(a.dir, Cur(a).len)]
           v == [p EXCEPT !.dma_buf[i].valid = FALSE]
           t == [v EXCEPT !.steps_actual = a.steps_actual + Cur(a).len]
<1>4. p \in Axis /\ p.dma_buf = a.dma_buf
  BY <1>1 DEF Axis
<1>5. v = [p EXCEPT !.dma_buf =
             [a.dma_buf EXCEPT ![i] = [a.dma_buf[i] EXCEPT !.valid = FALSE]]]
  BY <1>4, Zenon
<1> HIDE DEF p
<1>6. v \in Axis
  BY <1>3, <1>4, <1>5, AxisUpdate, Zenon
<1> HIDE DEF v
<1>7. t \in Axis
  BY <1>2, <1>6, AxisUpdate, Zenon
<1>8. Counted(a) = t
  BY DEF Counted, p, v, Axis
<1> QED BY <1>7, <1>8

LEMMA PreparedType ==
  ASSUME NEW a \in Axis, NEW dir \in {"rdCW", "rdCCW"}
  PROVE  Prepared(a, dir) \in Axis
<1>1. EmptyBuf \in DmaBuf
  BY BufAssumption DEF EmptyBuf, DmaBuf
<1>2. [b \in Blocks |-> EmptyBuf] \in [Blocks -> DmaBuf]
  BY <1>1
<1>3. 0 \in Blocks /\ 0 \in Nat
  BY DEF Blocks
<1> QED BY <1>2, <1>3, AxisUpdate, Zenon DEF Prepared

LEMMA FirstStepType ==
  ASSUME NEW a \in Axis
  PROVE  FirstStep(a) \in Axis
<1>1. 0 \in Blocks /\ 1 \in 0 .. HM_DMA_BUF_SIZE /\ 1 \in Int /\ 1 \in Nat
  BY BufAssumption DEF Blocks
<1>2. [a EXCEPT !.dma_buf[0].len = 1] \in Axis
  BY <1>1, BufUpdate, AxisUpdate, Zenon
<1> QED BY <1>1, <1>2, AxisUpdate, Zenon DEF FirstStep

LEMMA FillBothType ==
  ASSUME NEW a \in Axis
  PROVE  FillBoth(a) \in Axis
<1>1. 0 \in Blocks /\ 1 \in Blocks
  BY DEF Blocks
<1> QED BY <1>1, UpdateType, Zenon DEF FillBoth

(* The ramp of a move never stops before the move's last step.             *)
LEMMA StopAtBound ==
  ASSUME NEW n \in Nat, NEW m \in Nat \ {0}, n >= 2
  PROVE  StopAt(n, m) \in Nat /\ n <= StopAt(n, m)
BY DEF StopAt, DecelVal

LEMMA MoveFilledType ==
  ASSUME NEW a \in Axis, NEW n \in Nat, NEW m \in Nat \ {0}
  PROVE  MoveFilled(a, n, m) \in Axis
<1> DEFINE r == [a EXCEPT !.steps_request = n, !.steps_taken = 0,
                          !.steps_actual = 0, !.bdo_home = FALSE]
           f == FirstStep(r)
<1>1. r \in Axis
  <2>1. n \in Int /\ 0 \in Int /\ 0 \in Nat
    OBVIOUS
  <2> QED BY <2>1, AxisUpdate, Zenon
<1>2. f \in Axis
  BY <1>1, FirstStepType
<1>3. CASE n = 0
  <2>1. MoveFilled(a, n, m) = r
    BY <1>3 DEF MoveFilled
  <2> QED BY <1>1, <2>1
<1>4. CASE n = 1
  <2>1. 0 \in Blocks /\ 2 \in Nat /\ n # 0
    BY <1>4 DEF Blocks
  <2> HIDE DEF f
  <2>2. [f EXCEPT !.dma_buf[0].valid = TRUE, !.stop_at = 2] \in Axis
    BY <1>2, <2>1, BufUpdate, AxisUpdate, Zenon
  <2> QED BY <1>4, <2>1, <2>2, Zenon DEF MoveFilled, f
<1>5. CASE n # 0 /\ n # 1
  <2>1. StopAt(n, m) \in Nat
    BY <1>5, StopAtBound
  <2> HIDE DEF f
  <2>2. [f EXCEPT !.stop_at = StopAt(n, m)] \in Axis
    BY <1>2, <2>1, AxisUpdate, Zenon
  <2> QED BY <1>5, <2>2, FillBothType, Zenon DEF MoveFilled, f
<1> QED BY <1>3, <1>4, <1>5

LEMMA RunFilledType ==
  ASSUME NEW a \in Axis, pins \in [Lines -> BOOLEAN]
  PROVE  RunFilled(a) \in Axis
<1> DEFINE p == [a EXCEPT !.steps_request = HM_INVALID_STEP,
                          !.steps_actual = HM_INVALID_STEP]
           h == IF a.bdo_home THEN pins["Home"] ELSE a.blast_hit_home
<1>1. HM_INVALID_STEP \in Int /\ h \in BOOLEAN
  BY DEF HM_INVALID_STEP, Axis, Lines
<1>2. p \in Axis
  BY <1>1, AxisUpdate, Zenon
<1>3. p.blast_hit_home = a.blast_hit_home
  BY DEF Axis
<1> HIDE DEF h
<1>4. [p EXCEPT !.blast_hit_home = h] \in Axis
  BY <1>1, <1>2, AxisUpdate, Zenon
<1>5. RunFilled(a) = FillBoth(FirstStep([p EXCEPT !.blast_hit_home = h]))
  BY <1>3, Zenon DEF RunFilled, h
<1> QED BY <1>4, <1>5, FirstStepType, FillBothType, Zenon

-----------------------------------------------------------------------------
(* Every action keeps the types.                                           *)

LEMMA DmaCkType ==
  ASSUME TypeOK, NEW a \in Axis, hm_dma_ck(a)
  PROVE  axis' \in Axis /\ chan' \in Chan /\ hung' \in BOOLEAN
<1> DEFINE c == Counted(a)
           next == [c EXCEPT !.dma_buf_idx = OtherBlock(a)]
           done == MarkStoped([c EXCEPT !.bstopping = FALSE])
<1>1. c \in Axis
  BY CountedType
<1> HIDE DEF c
<1>2. next \in Axis
  BY <1>1, OtherBlockType, AxisUpdate, Zenon
<1>3. done \in Axis
  BY <1>1, MarkStopedType, AxisUpdate, Zenon
<1> HIDE DEF next, done
<1>4. chan \in Chan /\ [chan EXCEPT !.dma = FALSE] \in Chan /\ hung \in BOOLEAN
  BY DEF TypeOK, Chan
<1> DEFINE sd == hm_dma_setup(done, chan, FALSE)
           sn == hm_dma_setup(next, [chan EXCEPT !.dma = FALSE], TRUE)
<1>5. sd \in Chan /\ sn \in Chan
  BY <1>2, <1>3, <1>4, SetupType, Zenon
<1> HIDE DEF sd, sn
<1>6. CASE ~MoreToSend(c)
  <2>1. /\ axis' = done /\ hung' = hung
        /\ chan' = [sd EXCEPT !.tim = FALSE, !.ht = FALSE, !.tc = FALSE]
    BY <1>6, Zenon DEF hm_dma_ck, c, done, sd
  <2> QED BY <1>3, <1>4, <1>5, <2>1 DEF Chan
<1>7. CASE MoreToSend(c) /\ Cur(next).valid
  <2>1. /\ axis' = next /\ hung' = hung
        /\ chan' = [sn EXCEPT !.tim = TRUE, !.ht = FALSE, !.tc = FALSE]
    BY <1>7, Zenon DEF hm_dma_ck, c, next, sn
  <2> QED BY <1>2, <1>4, <1>5, <2>1 DEF Chan
<1>8. CASE MoreToSend(c) /\ ~Cur(next).valid
  <2>1. axis' = c /\ chan' = [chan EXCEPT !.ht = FALSE] /\ hung' = TRUE
    BY <1>8, Zenon DEF hm_dma_ck, c, next
  <2> QED BY <1>1, <1>4, <2>1 DEF Chan
<1> QED BY <1>6, <1>7, <1>8

LEMMA AfterHalfType ==
  ASSUME TypeOK
  PROVE  AfterHalf \in Axis /\ RampOverrun(AfterHalf) \in BOOLEAN
BY FillNextType, Zenon DEF AfterHalf, TypeOK, RampOverrun

LEMMA LimitStopType ==
  ASSUME TypeOK, NEW a \in Axis, LimitStop(a)
  PROVE  axis' \in Axis /\ chan' \in Chan /\ late' \in BOOLEAN
<1>1. late \in BOOLEAN /\ (late \/ chan.tc) \in BOOLEAN
  BY DEF TypeOK, Chan
<1> QED BY <1>1, SuddenType, StopSmoothType, Zenon DEF LimitStop, TypeOK

LEMMA StartOnType ==
  ASSUME TypeOK, NEW a \in Axis, StartOn(a)
  PROVE  TypeOK'
<1>1. axis' \in Axis
  <2>1. "asRuning" \in AxisState
    BY DEF AxisState
  <2> QED BY <2>1, AxisUpdate, Zenon DEF StartOn
<1>2. chan' \in Chan
  <2> DEFINE d == hm_motor_set_dir(chan, a.dir = "rdCW")
             s == hm_dma_setup(a, d, TRUE)
  <2>1. (a.dir = "rdCW") \in BOOLEAN
    OBVIOUS
  <2>2. d \in Chan
    BY <2>1 DEF hm_motor_set_dir, TypeOK, Chan
  <2>3. s \in Chan
    BY <2>2, SetupType, Zenon
  <2>4. chan' = [s EXCEPT !.tim = TRUE]
    BY Zenon DEF StartOn
  <2> HIDE DEF s
  <2> QED BY <2>3, <2>4 DEF Chan
<1>3. cfg' \in Cfg
  BY DEF StartOn, TypeOK, Cfg
<1>4. hung' \in BOOLEAN
  BY Zenon DEF StartOn, RampOverrun
<1>5. /\ pins' \in [Lines -> BOOLEAN] /\ exti' \in SUBSET Lines
      /\ fed' \in Int /\ out' \in Nat /\ late' \in BOOLEAN
  BY DEF StartOn, TypeOK
<1> QED BY <1>1, <1>2, <1>3, <1>4, <1>5 DEF TypeOK

LEMMA SettingType ==
  ASSUME NEW g \in Cfg, NEW flag, NEW v \in SettingValues
  PROVE  SettingApplied(g, flag, v) \in Cfg
<1>1. \A h \in Cfg, a, b, c \in BOOLEAN, m \in {"TCurve", "sCurve"} :
        SetStopMode(h, a, b, c, m) \in Cfg
  BY DEF SetStopMode, Cfg
<1>2. /\ g.bStopImmediatelyCCW \in BOOLEAN /\ g.bStopImmediatelyHome \in BOOLEAN
      /\ g.method \in {"TCurve", "sCurve"}
  BY DEF Cfg
<1>3. /\ v.trig \in BOOLEAN /\ v.cw \in BOOLEAN /\ v.ccw \in BOOLEAN
      /\ v.home \in BOOLEAN /\ v.method \in {"TCurve", "sCurve"}
  BY DEF SettingValues
<1>4. [g EXCEPT !.bhome_stop_low_triger = v.trig] \in Cfg
  BY <1>3 DEF Cfg
<1> DEFINE ccw  == g.bStopImmediatelyCCW
           home == g.bStopImmediatelyHome
           g0 == IF "HomeTriger" \in flag
                 THEN [g EXCEPT !.bhome_stop_low_triger = v.trig] ELSE g
           g1 == IF "StopModeCW" \in flag
                 THEN SetStopMode(g0, v.cw, ccw, home, g.method) ELSE g0
           g2 == IF "StopModeCCW" \in flag
                 THEN SetStopMode(g1, ccw, v.ccw, home, g.method) ELSE g1
           g3 == IF "StopModeHome" \in flag
                 THEN SetStopMode(g2, ccw, ccw, v.home, g.method) ELSE g2
           g4 == IF "Curve" \in flag
                 THEN SetStopMode(g3, ccw, ccw, home, v.method) ELSE g3
<1>5. SettingApplied(g, flag, v) = g4
  BY Zenon DEF SettingApplied
<1>6. g0 \in Cfg
  BY <1>4, Zenon
<1> HIDE DEF g0
<1>7. g1 \in Cfg
  BY <1>1, <1>2, <1>3, <1>6, Zenon
<1> HIDE DEF g1
<1>8. g2 \in Cfg
  BY <1>1, <1>2, <1>3, <1>7, Zenon
<1> HIDE DEF g2
<1>9. g3 \in Cfg
  BY <1>1, <1>2, <1>3, <1>8, Zenon
<1> HIDE DEF g3
<1>10. g4 \in Cfg
  BY <1>1, <1>2, <1>3, <1>9, Zenon
<1> QED BY <1>5, <1>10

LEMMA TypeStep ==
  ASSUME TypeOK, [Next]_vars
  PROVE  TypeOK'
<1> USE DEF TypeOK
<1>1. CASE Tick
  <2>1. chan' \in Chan
    <3> DEFINE left == chan.cndtr - 1
               h == chan.ht \/ (2 * left <= chan.len /\ 2 * chan.cndtr > chan.len)
               t == chan.tc \/ left = 0
    <3>1. left \in Nat
      BY <1>1 DEF Tick, Chan
    <3>2. chan' = [chan EXCEPT !.cndtr = left, !.ht = h, !.tc = t]
      BY <1>1, Zenon DEF Tick
    <3>3. h \in BOOLEAN /\ t \in BOOLEAN
      BY Zenon DEF Chan
    <3> HIDE DEF left, h, t
    <3> QED BY <3>1, <3>2, <3>3 DEF Chan
  <2>2. fed' \in Int /\ out' \in Nat
    BY <1>1 DEF Tick
  <2> QED BY <1>1, <2>1, <2>2 DEF Tick
<1>2. ASSUME NEW l \in Lines, SensorChange(l)
      PROVE  TypeOK'
  BY <1>2 DEF SensorChange
<1>3. CASE DmaHalf
  <2>1. chan' \in Chan
    BY <1>3 DEF DmaHalf, Chan
  <2>2. axis' \in Axis /\ hung' \in BOOLEAN
    BY <1>3, AfterHalfType, Zenon DEF DmaHalf
  <2> QED BY <1>3, <2>1, <2>2 DEF DmaHalf
<1>4. CASE DmaComplete
  <2>1. axis' \in Axis /\ chan' \in Chan /\ hung' \in BOOLEAN
    <3>1. CASE RampOverrun(AfterHalf)
      BY <1>4, <3>1, AfterHalfType, Zenon DEF DmaComplete
    <3>2. CASE ~RampOverrun(AfterHalf)
      <4>1. hm_dma_ck(AfterHalf)
        BY <1>4, <3>2, Zenon DEF DmaComplete
      <4> QED BY <4>1, AfterHalfType, DmaCkType, Zenon
    <3> QED BY <3>1, <3>2
  <2> QED BY <1>4, <2>1 DEF DmaComplete
<1>5. ASSUME NEW l \in Lines, ExtiIrq(l)
      PROVE  TypeOK'
  <2>1. LimitStop(axis) \/ UNCHANGED <<axis, chan, late>>
    BY <1>5, Zenon DEF ExtiIrq
  <2>2. axis' \in Axis /\ chan' \in Chan /\ late' \in BOOLEAN
    BY <2>1, LimitStopType
  <2> QED BY <1>5, <2>2 DEF ExtiIrq
<1>6. CASE LimitCheck
  <2> DEFINE seen == IF axis.axis_state = "asRuning" /\ axis.bdo_home
                     THEN [axis EXCEPT !.blast_hit_home = pins["Home"]]
                     ELSE axis
  <2>1. seen \in Axis
    <3>1. pins["Home"] \in BOOLEAN
      BY DEF Lines
    <3> QED BY <3>1, AxisUpdate, Zenon
  <2>2. LimitStop(seen) \/ (axis' = seen /\ UNCHANGED <<chan, late>>)
    BY <1>6, Zenon DEF LimitCheck
  <2>3. axis' \in Axis /\ chan' \in Chan /\ late' \in BOOLEAN
    <3> HIDE DEF seen
    <3> QED BY <2>1, <2>2, LimitStopType
  <2> QED BY <1>6, <2>3 DEF LimitCheck
<1>7. ASSUME NEW step \in FixSteps, NEW lim \in RampLimits, FixMove(step, lim)
      PROVE  TypeOK'
  <2> DEFINE dir == IF step < 0 THEN "rdCCW" ELSE "rdCW"
  <2>1. dir \in {"rdCW", "rdCCW"}
    OBVIOUS
  <2>2. Abs(step) \in Nat /\ lim \in Nat \ {0}
    BY FixAssumption, RampAssumption DEF Abs
  <2> HIDE DEF dir
  <2>3. CASE Blocked(dir, axis.bdo_home)
    <3>1. axis' = [axis EXCEPT !.dir = dir]
      BY <1>7, <2>3, Zenon DEF FixMove, dir
    <3>2. axis' \in Axis
      BY <2>1, <3>1, AxisUpdate, Zenon
    <3>3. UNCHANGED <<cfg, chan, pins, exti, hung, fed, out, late>>
      BY <1>7, <2>3, Zenon DEF FixMove, dir
    <3> QED BY <3>2, <3>3
  <2>4. CASE ~Blocked(dir, axis.bdo_home)
    <3>1. StartOn(MoveFilled(Prepared(axis, dir), Abs(step), lim))
      BY <1>7, <2>4, Zenon DEF FixMove, dir
    <3>2. MoveFilled(Prepared(axis, dir), Abs(step), lim) \in Axis
      BY <2>1, <2>2, PreparedType, MoveFilledType, Zenon
    <3> QED BY <3>1, <3>2, StartOnType, Zenon
  <2> QED BY <2>3, <2>4
<1>8. ASSUME NEW dir \in {"rdCW", "rdCCW"}, NEW bhome \in BOOLEAN,
             KeepMove(dir, bhome)
      PROVE  TypeOK'
  <2> DEFINE h == [axis EXCEPT !.bdo_home = bhome]
  <2>1. h \in Axis
    BY AxisUpdate, Zenon
  <2>2. CASE axis' = h /\ UNCHANGED <<cfg, chan, pins, exti, hung, fed, out, late>>
    BY <2>1, <2>2
  <2>3. CASE /\ axis' = [h EXCEPT !.dir = dir]
             /\ UNCHANGED <<cfg, chan, pins, exti, hung, fed, out, late>>
    <3> HIDE DEF h
    <3>1. axis' \in Axis
      BY <2>1, <2>3, AxisUpdate, Zenon
    <3> QED BY <2>3, <3>1
  <2>4. CASE StartOn(RunFilled(Prepared(h, dir)))
    <3> HIDE DEF h
    <3>1. RunFilled(Prepared(h, dir)) \in Axis
      BY <2>1, PreparedType, RunFilledType, Zenon
    <3> QED BY <2>4, <3>1, StartOnType, Zenon
  <2> QED BY <1>8, <2>2, <2>3, <2>4, Zenon DEF KeepMove
<1>9. CASE StopSmooth
  <2>1. axis' \in Axis
    BY <1>9, StopSmoothType, Zenon DEF StopSmooth
  <2> QED BY <1>9, <2>1 DEF StopSmooth
<1>10. CASE StopSudden
  <2>1. axis' \in Axis /\ chan' \in Chan
    BY <1>10, SuddenType, Zenon DEF StopSudden
  <2> QED BY <1>10, <2>1 DEF StopSudden
<1>11. ASSUME NEW a \in Axis, NEW p \in Int, SetPosition(a, p),
              UNCHANGED <<cfg, chan, pins, exti, hung, out, late>>
       PROVE  TypeOK'
  <2>1. axis' \in Axis
    BY <1>11, AxisUpdate, Zenon DEF SetPosition
  <2>2. hm_step_motor_get_cur_pos(axis, chan) \in Int /\ axis.pos \in Int
    <3>1. Cur(axis).len - chan.cndtr \in Int
      BY CurType DEF Chan
    <3>2. axis.pos \in Int
      BY DEF Axis
    <3> QED BY <3>1, <3>2, SignedType DEF hm_step_motor_get_cur_pos
  <2>3. fed' \in Int
    BY <1>11, <2>2 DEF SetPosition
  <2> QED BY <1>11, <2>1, <2>3
<1>12. ASSUME NEW p \in NewPositions, SetPos(p)
       PROVE  TypeOK'
  BY <1>11, <1>12, PosAssumption, Zenon DEF SetPos
<1>13. CASE ResetBoard
  <2>1. 0 \in Int
    OBVIOUS
  <2>2. hm_step_motor_stop_smooth(axis) \in Axis
    BY StopSmoothType, Zenon
  <2> QED BY <1>11, <1>13, <2>1, <2>2, Zenon DEF ResetBoard
<1>14. ASSUME NEW b \in BOOLEAN, EnableAxis(b)
       PROVE  TypeOK'
  BY <1>14 DEF EnableAxis, Cfg
<1>15. ASSUME NEW flag \in SettingFlags, NEW v \in SettingValues,
              SetAxisSetting(flag, v)
       PROVE  TypeOK'
  <2>1. cfg' \in Cfg
    BY <1>15, SettingType, Zenon DEF SetAxisSetting
  <2> QED BY <1>15, <2>1 DEF SetAxisSetting
<1>16. CASE UNCHANGED vars
  BY <1>16 DEF vars
<1> QED BY <1>1, <1>2, <1>3, <1>4, <1>5, <1>6, <1>7, <1>8, <1>9, <1>10,
           <1>12, <1>13, <1>14, <1>15, <1>16, Zenon DEF Next, DmaIrq

LEMMA TypeInit ==
  ASSUME Init
  PROVE  TypeOK
<1>1. EmptyBuf \in DmaBuf
  BY BufAssumption DEF EmptyBuf, DmaBuf
<1>2. [b \in Blocks |-> EmptyBuf] \in [Blocks -> DmaBuf]
  BY <1>1
<1>3. axis \in Axis
  BY <1>2 DEF Init, Axis, AxisState, Blocks
<1>4. cfg \in Cfg
  BY DEF Init, Cfg
<1>5. chan \in Chan
  BY BufAssumption DEF Init, Chan, Blocks
<1>6. pins \in [Lines -> BOOLEAN] /\ exti \in SUBSET Lines /\ hung \in BOOLEAN
  BY DEF Init
<1>7. fed \in Int /\ out \in Nat
  BY DEF Init
<1>8. late \in BOOLEAN
  BY DEF Init
<1> QED BY <1>3, <1>4, <1>5, <1>6, <1>7, <1>8, Zenon DEF TypeOK

(* In every reachable state the data of hm_step_info_t stays in range: a   *)
(* DMA buffer never holds more than HM_DMA_BUF_SIZE steps, the buffer      *)
(* index is one of two, and the axis is in a state of AXIS_STATE_E.        *)
THEOREM TypeCorrect == Spec => []TypeOK
<1>1. Init => TypeOK
  BY TypeInit
<1>2. TypeOK /\ [Next]_vars => TypeOK'
  BY TypeStep
<1> QED BY <1>1, <1>2, PTL DEF Spec

-----------------------------------------------------------------------------
(* What the operators on the axis do to the fields IndInv speaks of.       *)

(* The fields that filling a buffer leaves alone.                          *)
SameMotion(r, a) ==
  /\ r.axis_state = a.axis_state /\ r.dir = a.dir
  /\ r.bstopping = a.bstopping
  /\ r.steps_request = a.steps_request /\ r.steps_actual = a.steps_actual
  /\ r.stop_at = a.stop_at /\ r.pos = a.pos
  /\ r.dma_buf_idx = a.dma_buf_idx

LEMMA BlockCases ==
  ASSUME NEW a \in Axis
  PROVE  \/ a.dma_buf_idx = 0 /\ OtherBlock(a) = 1
         \/ a.dma_buf_idx = 1 /\ OtherBlock(a) = 0
BY DEF OtherBlock, Axis, Blocks

LEMMA AxisFields ==
  ASSUME NEW a \in Axis
  PROVE  /\ a.axis_state \in AxisState
         /\ a.steps_request \in Int /\ a.steps_taken \in Int
         /\ a.steps_actual \in Int /\ a.stop_at \in Nat
         /\ a.pos \in Int /\ a.gen \in Nat
         /\ a.bstopping \in BOOLEAN
         /\ Cur(a).len \in Nat /\ Cur(a).len <= HM_DMA_BUF_SIZE
         /\ Cur(a).first \in Nat
         /\ Other(a).len \in Nat /\ Other(a).len <= HM_DMA_BUF_SIZE
         /\ Other(a).first \in Nat /\ Other(a).valid \in BOOLEAN
         /\ OtherLen(a) \in Nat
<1>1. Cur(a) \in DmaBuf /\ Other(a) \in DmaBuf
  BY OtherBlockType DEF Cur, Other, Axis
<1>2. \A d \in DmaBuf : /\ d.len \in Nat /\ d.len <= HM_DMA_BUF_SIZE
                        /\ d.first \in Nat /\ d.valid \in BOOLEAN
  BY BufAssumption DEF DmaBuf
<1>3. OtherLen(a) \in Nat
  BY <1>1, <1>2 DEF OtherLen
<1>4. /\ a.axis_state \in AxisState
      /\ a.steps_request \in Int /\ a.steps_taken \in Int
      /\ a.steps_actual \in Int /\ a.stop_at \in Nat
      /\ a.pos \in Int /\ a.gen \in Nat
      /\ a.bstopping \in BOOLEAN
  BY DEF Axis
<1> QED BY <1>1, <1>2, <1>3, <1>4

LEMMA UpdateView ==
  ASSUME NEW a \in Axis, NEW b \in Blocks
  PROVE  LET u == hm_dma_update(a, b)
             n == FillCount(a, b)
         IN /\ SameMotion(u, a)
            /\ u.steps_taken = IF a.steps_request = HM_INVALID_STEP
                               THEN a.steps_taken ELSE a.steps_taken + n
            /\ u.gen = a.gen + n
            /\ u.dma_buf[b].len = a.dma_buf[b].len + n
            /\ u.dma_buf[b].valid = TRUE
            /\ u.dma_buf[b].first = IF a.dma_buf[b].len = 0 THEN a.gen
                                    ELSE a.dma_buf[b].first
            /\ \A d \in Blocks \ {b} : u.dma_buf[d] = a.dma_buf[d]
BY DEF hm_dma_update, Axis, SameMotion

(* How many steps hm_dma_update adds.                                      *)
LEMMA FillCountView ==
  ASSUME NEW a \in Axis, NEW b \in Blocks
  PROVE  LET n == FillCount(a, b)
             room == HM_DMA_BUF_SIZE - a.dma_buf[b].len
         IN /\ n \in Nat /\ room \in Nat
            /\ a.steps_request = HM_INVALID_STEP => n = room
            /\ /\ a.steps_request # HM_INVALID_STEP
               /\ a.steps_taken <= a.steps_request
               => /\ a.steps_taken + n <= a.steps_request
                  /\ n # room => a.steps_taken + n = a.steps_request
<1>1. a.dma_buf[b].len \in 0 .. HM_DMA_BUF_SIZE
  BY DEF Axis, DmaBuf
<1>2. a.steps_request \in Int /\ a.steps_taken \in Int
  BY DEF Axis
<1> QED BY <1>1, <1>2, BufAssumption DEF FillCount

(* hm_dma_fill_next_buf makes the other buffer ready and touches nothing   *)
(* that is being sent.                                                     *)
LEMMA FillNextView ==
  ASSUME NEW a \in Axis, ~Other(a).valid
  PROVE  LET r == hm_dma_fill_next_buf(a)
             n == Other(r).len
         IN /\ SameMotion(r, a) /\ Cur(r) = Cur(a)
            /\ Other(r).valid = TRUE /\ Other(r).first = a.gen
            /\ n \in Nat
            /\ r.gen = a.gen + n
            /\ r.steps_taken = IF a.steps_request = HM_INVALID_STEP
                               THEN a.steps_taken ELSE a.steps_taken + n
            /\ a.steps_request = HM_INVALID_STEP => n = HM_DMA_BUF_SIZE
            /\ /\ a.steps_request # HM_INVALID_STEP
               /\ a.steps_taken <= a.steps_request
               => /\ r.steps_taken <= a.steps_request
                  /\ n # HM_DMA_BUF_SIZE => r.steps_taken = a.steps_request
<1> DEFINE b == OtherBlock(a)
           e == [a EXCEPT !.dma_buf[b].len = 0]
           r == hm_dma_fill_next_buf(a)
<1>1. b \in Blocks /\ a.dma_buf_idx \in Blocks \ {b}
  BY OtherBlockType
<1>2. e \in Axis
  <2>1. 0 \in 0 .. HM_DMA_BUF_SIZE
    BY BufAssumption
  <2> QED BY <1>1, <2>1, BufUpdate, AxisUpdate, Zenon
<1>3. /\ SameMotion(e, a) /\ e.gen = a.gen /\ e.steps_taken = a.steps_taken
      /\ \A d \in Blocks \ {b} : e.dma_buf[d] = a.dma_buf[d]
      /\ e.dma_buf[b].len = 0
  BY <1>1 DEF Axis, DmaBuf, SameMotion
<1>4. r = hm_dma_update(e, b)
  BY Zenon DEF hm_dma_fill_next_buf, Other
<1> HIDE DEF e, r, b
<1>5. SameMotion(r, a)
  BY <1>1, <1>2, <1>3, <1>4, UpdateView DEF SameMotion
<1>6. OtherBlock(r) = b
  BY <1>5 DEF SameMotion, OtherBlock, b
<1>7. Cur(r) = Cur(a)
  <2>1. r.dma_buf[a.dma_buf_idx] = e.dma_buf[a.dma_buf_idx]
    BY <1>1, <1>2, <1>4, UpdateView
  <2>2. r.dma_buf_idx = a.dma_buf_idx
    BY <1>5 DEF SameMotion
  <2> QED BY <1>1, <1>3, <2>1, <2>2 DEF Cur
<1>8. /\ Other(r).valid = TRUE /\ Other(r).first = a.gen
      /\ Other(r).len = FillCount(e, b)
      /\ r.gen = a.gen + FillCount(e, b)
      /\ r.steps_taken = IF a.steps_request = HM_INVALID_STEP THEN a.steps_taken
                         ELSE a.steps_taken + FillCount(e, b)
  <2>1. FillCount(e, b) \in Nat
    BY <1>1, <1>2, FillCountView
  <2>2. /\ e.steps_request = a.steps_request /\ e.gen = a.gen
        /\ e.steps_taken = a.steps_taken /\ e.dma_buf[b].len = 0
    BY <1>3 DEF SameMotion
  <2>3. /\ r.dma_buf[b].valid = TRUE /\ r.dma_buf[b].first = e.gen
        /\ r.dma_buf[b].len = 0 + FillCount(e, b)
        /\ r.gen = e.gen + FillCount(e, b)
        /\ r.steps_taken = IF e.steps_request = HM_INVALID_STEP
                           THEN e.steps_taken
                           ELSE e.steps_taken + FillCount(e, b)
    BY <1>1, <1>2, <1>4, <2>2, UpdateView
  <2> QED BY <1>6, <2>1, <2>2, <2>3 DEF Other
<1>9. /\ FillCount(e, b) \in Nat
      /\ a.steps_request = HM_INVALID_STEP => FillCount(e, b) = HM_DMA_BUF_SIZE
      /\ /\ a.steps_request # HM_INVALID_STEP
         /\ a.steps_taken <= a.steps_request
         => /\ a.steps_taken + FillCount(e, b) <= a.steps_request
            /\ FillCount(e, b) # HM_DMA_BUF_SIZE =>
                 a.steps_taken + FillCount(e, b) = a.steps_request
  BY <1>1, <1>2, <1>3, FillCountView, BufAssumption DEF SameMotion
<1> QED BY <1>5, <1>7, <1>8, <1>9 DEF r

LEMMA SignedZero ==
  ASSUME NEW dir
  PROVE  Signed(dir, 0) = 0
<1>1. \A n \in Int : n <= 0 /\ n >= 0 => Signed(dir, n) = n
  BY DEF Signed
<1> QED BY <1>1

LEMMA ChanFields ==
  ASSUME NEW c \in Chan
  PROVE  /\ c.cndtr \in Nat /\ c.len \in Nat
         /\ c.tim \in BOOLEAN /\ c.dma \in BOOLEAN
         /\ c.ht \in BOOLEAN /\ c.tc \in BOOLEAN /\ c.cw \in BOOLEAN
BY DEF Chan

LEMMA States ==
  ASSUME TypeOK, Motion
  PROVE  axis.axis_state = "asStoped" \/ axis.axis_state = "asRuning"
BY AxisFields DEF TypeOK, Motion, AxisState

LEMMA TickMotion ==
  ASSUME TypeOK, Motion, Tick
  PROVE  Motion'
<1> DEFINE left == chan.cndtr - 1
<1>1. /\ axis' = axis /\ hung' = hung /\ out' = out + 1
      /\ fed' = fed + (IF chan.cw THEN 1 ELSE -1)
      /\ chan.tim /\ chan.dma /\ chan.cndtr > 0
  BY DEF Tick
<1>2. /\ chan'.tim = chan.tim /\ chan'.dma = chan.dma /\ chan'.len = chan.len
      /\ chan'.cmar = chan.cmar /\ chan'.cw = chan.cw
      /\ chan'.cndtr = left
      /\ chan'.ht <=> (chan.ht \/ (2 * left <= chan.len /\ 2 * chan.cndtr > chan.len))
      /\ chan'.tc <=> (chan.tc \/ left = 0)
  BY DEF Tick, TypeOK, Chan
<1>3. axis.axis_state = "asRuning"
  BY <1>1, States DEF Motion, InvStoped
<1>4. /\ chan.cndtr \in Nat /\ chan.len \in Nat /\ fed \in Int /\ out \in Nat
      /\ chan.tc \in BOOLEAN /\ chan.ht \in BOOLEAN
      /\ axis.pos \in Int /\ Cur(axis).first \in Nat /\ axis.steps_actual \in Int
  BY AxisFields, ChanFields DEF TypeOK
<1>5. InvRunning'
  <2>1. /\ chan.cmar = axis.dma_buf_idx
        /\ chan.len = Cur(axis).len
        /\ chan.cndtr <= chan.len /\ ~chan.tc
        /\ chan.cw <=> (axis.dir = "rdCW")
        /\ fed = axis.pos + Signed(axis.dir, chan.len - chan.cndtr)
    BY <1>1, <1>3 DEF Motion, InvRunning
  <2>2. fed' = axis'.pos + Signed(axis'.dir, chan'.len - chan'.cndtr)
    BY <1>1, <1>2, <1>4, <2>1 DEF Signed
  <2>3. chan'.tc <=> (chan'.cndtr = 0 /\ chan'.len > 0)
    BY <1>1, <1>2, <1>4, <2>1
  <2>4. chan'.cndtr <= chan'.len
    BY <1>2, <1>4, <2>1
  <2> QED BY <1>1, <1>2, <2>1, <2>2, <2>3, <2>4 DEF InvRunning, Cur
<1>6. InvNextReady'
  BY <1>1, <1>2, <1>3, <1>4 DEF Motion, InvNextReady, Other, OtherBlock
<1>7. InvOrder' /\ InvMove' /\ InvFree'
  <2>1. /\ Cur(axis') = Cur(axis) /\ Other(axis') = Other(axis)
        /\ OtherLen(axis') = OtherLen(axis)
    BY <1>1
  <2>2. InvOrder'
    BY <1>1, <1>2, <1>4, <2>1 DEF Motion, InvOrder
  <2>3. InvMove'
    BY <1>1, <1>2, <1>4, <2>1 DEF Motion, InvMove
  <2>4. InvFree'
    BY <1>1, <2>1 DEF Motion, InvFree
  <2> QED BY <2>2, <2>3, <2>4
<1> QED BY <1>1, <1>3, <1>5, <1>6, <1>7 DEF Motion, InvStoped, InvRamp

-----------------------------------------------------------------------------
(* The DMA interrupt.                                                      *)

(* The half-transfer part leaves what is being sent alone, makes the other *)
(* buffer ready, and keeps the counters consistent.                        *)
LEMMA AfterHalfView ==
  ASSUME TypeOK, Motion
  PROVE  /\ AfterHalf \in Axis
         /\ SameMotion(AfterHalf, axis)
         /\ Cur(AfterHalf) = Cur(axis)
         /\ chan.ht \/ Other(axis).valid => Other(AfterHalf).valid
         /\ axis.steps_request # HM_INVALID_STEP =>
              /\ 0 <= AfterHalf.steps_taken
              /\ AfterHalf.steps_taken <= axis.steps_request
         /\ axis.axis_state = "asRuning" =>
              /\ AfterHalf.gen =
                   Cur(axis).first + Cur(axis).len + OtherLen(AfterHalf)
              /\ Other(AfterHalf).valid =>
                   Other(AfterHalf).first = Cur(axis).first + Cur(axis).len
         /\ /\ axis.axis_state = "asRuning"
            /\ axis.steps_request # HM_INVALID_STEP
            /\ ~axis.bstopping
            => /\ AfterHalf.steps_taken =
                    axis.steps_actual + Cur(axis).len + OtherLen(AfterHalf)
               /\ Other(AfterHalf).valid /\ OtherLen(AfterHalf) < HM_DMA_BUF_SIZE
                    => AfterHalf.steps_taken = axis.steps_request
         /\ axis.axis_state = "asRuning" /\ axis.steps_request = HM_INVALID_STEP
            => (Other(AfterHalf).valid => OtherLen(AfterHalf) = HM_DMA_BUF_SIZE)
<1>1. axis \in Axis
  BY DEF TypeOK
<1>2. CASE ~chan.ht \/ Other(axis).valid
  <2>1. AfterHalf = axis
    BY <1>2, Zenon DEF AfterHalf, hm_dma_fill_next_buf, Other
  <2>2. SameMotion(axis, axis)
    BY DEF SameMotion
  <2> QED BY <1>1, <1>2, <2>1, <2>2 DEF Motion, InvRamp, InvOrder, InvMove, InvFree
<1>3. CASE chan.ht /\ ~Other(axis).valid
  <2> DEFINE r == hm_dma_fill_next_buf(axis)
  <2>1. AfterHalf = r
    BY <1>3, Zenon DEF AfterHalf
  <2>2. r \in Axis
    BY <1>1, FillNextType
  <2> HIDE DEF r
  <2>3. /\ SameMotion(r, axis) /\ Cur(r) = Cur(axis)
        /\ Other(r).valid = TRUE /\ Other(r).first = axis.gen
        /\ Other(r).len \in Nat
        /\ r.gen = axis.gen + Other(r).len
        /\ r.steps_taken = IF axis.steps_request = HM_INVALID_STEP
                           THEN axis.steps_taken
                           ELSE axis.steps_taken + Other(r).len
        /\ axis.steps_request = HM_INVALID_STEP => Other(r).len = HM_DMA_BUF_SIZE
        /\ /\ axis.steps_request # HM_INVALID_STEP
           /\ axis.steps_taken <= axis.steps_request
           => /\ r.steps_taken <= axis.steps_request
              /\ Other(r).len # HM_DMA_BUF_SIZE =>
                   r.steps_taken = axis.steps_request
    BY <1>1, <1>3, FillNextView DEF r
  <2>4. OtherLen(axis) = 0 /\ OtherLen(r) = Other(r).len
    BY <1>3, <2>3 DEF OtherLen
  <2>5. /\ axis.steps_taken \in Int /\ axis.steps_request \in Int
        /\ axis.gen \in Nat /\ axis.steps_actual \in Int
        /\ Cur(axis).first \in Nat /\ Cur(axis).len \in Nat
    BY <1>1, AxisFields
  <2>6. axis.steps_request # HM_INVALID_STEP =>
          0 <= r.steps_taken /\ r.steps_taken <= axis.steps_request
    BY <2>3, <2>5 DEF Motion, InvRamp
  <2>7. axis.axis_state = "asRuning" =>
          /\ r.gen = Cur(axis).first + Cur(axis).len + OtherLen(r)
          /\ Other(r).first = Cur(axis).first + Cur(axis).len
    BY <2>3, <2>4, <2>5 DEF Motion, InvOrder
  <2>8. /\ axis.axis_state = "asRuning"
        /\ axis.steps_request # HM_INVALID_STEP
        /\ ~axis.bstopping
        => /\ r.steps_taken = axis.steps_actual + Cur(axis).len + OtherLen(r)
           /\ OtherLen(r) < HM_DMA_BUF_SIZE => r.steps_taken = axis.steps_request
    BY <2>3, <2>4, <2>5, BufAssumption DEF Motion, InvMove, InvRamp
  <2> QED BY <2>1, <2>2, <2>3, <2>4, <2>6, <2>7, <2>8
<1> QED BY <1>2, <1>3

LEMMA NoOverrun ==
  ASSUME TypeOK, Motion
  PROVE  ~RampOverrun(AfterHalf)
<1>1. /\ AfterHalf.steps_request = axis.steps_request
      /\ AfterHalf.stop_at = axis.stop_at
  BY AfterHalfView DEF SameMotion
<1>2. /\ AfterHalf \in Axis /\ axis \in Axis
      /\ axis.steps_request # HM_INVALID_STEP =>
           AfterHalf.steps_taken <= axis.steps_request
  BY AfterHalfView DEF TypeOK
<1>3. /\ AfterHalf.steps_taken \in Int /\ axis.steps_request \in Int
      /\ axis.stop_at \in Nat
  BY <1>2, AxisFields
<1> QED BY <1>1, <1>2, <1>3 DEF RampOverrun, Motion, InvRamp

LEMMA DmaHalfMotion ==
  ASSUME TypeOK, Motion, DmaHalf
  PROVE  Motion'
<1>1. /\ axis' = AfterHalf /\ fed' = fed /\ out' = out /\ chan.ht
      /\ ~hung'
  BY NoOverrun DEF DmaHalf
<1>2. /\ chan'.tim = chan.tim /\ chan'.dma = chan.dma /\ chan'.len = chan.len
      /\ chan'.cmar = chan.cmar /\ chan'.cw = chan.cw
      /\ chan'.cndtr = chan.cndtr /\ chan'.tc = chan.tc
  BY DEF DmaHalf, TypeOK, Chan
<1>3. /\ SameMotion(axis', axis) /\ Cur(axis') = Cur(axis) /\ Other(axis').valid
  BY <1>1, AfterHalfView
<1>4. InvStoped' /\ InvRunning'
  BY <1>1, <1>2, <1>3 DEF Motion, InvStoped, InvRunning, SameMotion
<1>5. InvNextReady'
  BY <1>3 DEF InvNextReady
<1>6. InvRamp'
  BY <1>1, <1>3, AfterHalfView DEF Motion, InvRamp, SameMotion
<1>7. InvOrder'
  BY <1>1, <1>2, <1>3, AfterHalfView DEF Motion, InvOrder, SameMotion
<1>8. InvMove'
  BY <1>1, <1>2, <1>3, AfterHalfView DEF Motion, InvMove, SameMotion
<1>9. InvFree'
  BY <1>1, <1>2, <1>3, AfterHalfView DEF Motion, InvFree, SameMotion
<1>10. axis'.axis_state # "asPreparing"
  BY <1>3 DEF Motion, SameMotion
<1> QED BY <1>1, <1>4, <1>5, <1>6, <1>7, <1>8, <1>9, <1>10 DEF Motion

LEMMA CountedView ==
  ASSUME NEW a \in Axis
  PROVE  LET c == Counted(a)
         IN /\ c \in Axis
            /\ c.axis_state = a.axis_state /\ c.dir = a.dir
            /\ c.bstopping = a.bstopping
            /\ c.steps_request = a.steps_request /\ c.steps_taken = a.steps_taken
            /\ c.stop_at = a.stop_at /\ c.gen = a.gen
            /\ c.dma_buf_idx = a.dma_buf_idx
            /\ c.pos = a.pos + Signed(a.dir, Cur(a).len)
            /\ c.steps_actual = a.steps_actual + Cur(a).len
            /\ c.dma_buf[OtherBlock(a)] = Other(a)
            /\ c.dma_buf[a.dma_buf_idx].valid = FALSE
            /\ c.dma_buf[a.dma_buf_idx].len = Cur(a).len
<1>1. Counted(a) \in Axis
  BY CountedType
<1>2. a.dma_buf_idx \in Blocks /\ OtherBlock(a) \in Blocks \ {a.dma_buf_idx}
  BY OtherBlockType
<1>3. /\ Counted(a).dma_buf[OtherBlock(a)] = Other(a)
      /\ Counted(a).dma_buf[a.dma_buf_idx].valid = FALSE
      /\ Counted(a).dma_buf[a.dma_buf_idx].len = Cur(a).len
  BY <1>2 DEF Counted, Axis, DmaBuf, Other, Cur
<1>4. LET c == Counted(a)
      IN /\ c.axis_state = a.axis_state /\ c.dir = a.dir
         /\ c.bstopping = a.bstopping
         /\ c.steps_request = a.steps_request /\ c.steps_taken = a.steps_taken
         /\ c.stop_at = a.stop_at /\ c.gen = a.gen
         /\ c.dma_buf_idx = a.dma_buf_idx
         /\ c.pos = a.pos + Signed(a.dir, Cur(a).len)
         /\ c.steps_actual = a.steps_actual + Cur(a).len
  BY DEF Counted, Axis
<1> QED BY <1>1, <1>3, <1>4

(* The last buffer of a request: the axis stops where it is.               *)
LEMMA CompleteStops ==
  ASSUME TypeOK, Motion, chan.tc, chan.dma, UNCHANGED <<fed, out>>,
         hm_dma_ck(AfterHalf), ~MoreToSend(Counted(AfterHalf)),
         axis.axis_state = "asRuning"
  PROVE  Motion'
<1> DEFINE a == AfterHalf
           c == Counted(a)
           b == [c EXCEPT !.bstopping = FALSE]
           sd == hm_dma_setup(MarkStoped(b), chan, FALSE)
<1>1. a \in Axis /\ SameMotion(a, axis) /\ Cur(a) = Cur(axis)
  BY AfterHalfView
<1>2. /\ c \in Axis /\ c.pos = a.pos + Signed(a.dir, Cur(a).len)
      /\ c.steps_request = a.steps_request /\ c.steps_taken = a.steps_taken
      /\ c.stop_at = a.stop_at
  BY <1>1, CountedView
<1>3. /\ axis' = MarkStoped(b) /\ hung' = hung
      /\ chan' = [sd EXCEPT !.tim = FALSE, !.ht = FALSE, !.tc = FALSE]
  BY Zenon DEF hm_dma_ck
<1> HIDE DEF c, a
<1>4. /\ axis'.axis_state = "asStoped" /\ axis'.pos = c.pos
      /\ axis'.steps_request = c.steps_request
      /\ axis'.steps_taken = c.steps_taken /\ axis'.stop_at = c.stop_at
  BY <1>2, <1>3 DEF MarkStoped, Axis
<1>5. sd = [chan EXCEPT !.dma = FALSE]
  BY DEF hm_dma_setup
<1>6. ~chan'.tim /\ ~chan'.dma /\ ~chan'.tc
  BY <1>3, <1>5 DEF TypeOK, Chan
<1>7. axis'.pos = fed
  <2>1. chan.cndtr = 0 /\ chan.len = Cur(axis).len
    BY DEF Motion, InvRunning
  <2>2. fed = axis.pos + Signed(axis.dir, chan.len - chan.cndtr)
    BY DEF Motion, InvRunning
  <2>3. Cur(axis).len \in Nat
    BY AxisFields DEF TypeOK
  <2>4. chan.len - chan.cndtr = Cur(axis).len
    BY <2>1, <2>3
  <2> QED BY <1>1, <1>2, <1>4, <2>2, <2>4 DEF SameMotion
<1>8. InvRamp'
  <2>1. axis'.steps_request = axis.steps_request /\ axis'.stop_at = axis.stop_at
    BY <1>1, <1>2, <1>4 DEF SameMotion
  <2>2. axis'.steps_taken = AfterHalf.steps_taken
    BY <1>2, <1>4 DEF a
  <2> QED BY <2>1, <2>2, AfterHalfView DEF Motion, InvRamp
<1>9. ~hung'
  BY <1>3 DEF Motion
<1> QED BY <1>4, <1>6, <1>7, <1>8, <1>9
  DEF Motion, InvStoped, InvRunning, InvNextReady, InvOrder, InvMove, InvFree

(* Any other buffer: the axis goes on with the buffer made ready before.   *)
LEMMA CompleteGoesOn ==
  ASSUME TypeOK, Motion, chan.tc, UNCHANGED <<fed, out>>,
         hm_dma_ck(AfterHalf), MoreToSend(Counted(AfterHalf)),
         axis.axis_state = "asRuning"
  PROVE  Motion'
<1> DEFINE a == AfterHalf
           c == Counted(a)
           next == [c EXCEPT !.dma_buf_idx = OtherBlock(a)]
           sn == hm_dma_setup(next, [chan EXCEPT !.dma = FALSE], TRUE)
<1>1. a \in Axis /\ SameMotion(a, axis) /\ Cur(a) = Cur(axis)
  BY AfterHalfView
<1>2. Other(a).valid
  <2>1. chan.cndtr = 0 /\ chan.len > 0 /\ chan.len \in Nat
    BY ChanFields DEF Motion, InvRunning, TypeOK
  <2>2. chan.ht \/ Other(axis).valid
    BY <2>1 DEF Motion, InvNextReady
  <2> QED BY <2>2, AfterHalfView
<1>3. /\ c \in Axis
      /\ c.axis_state = a.axis_state /\ c.dir = a.dir
      /\ c.bstopping = a.bstopping
      /\ c.steps_request = a.steps_request /\ c.steps_taken = a.steps_taken
      /\ c.stop_at = a.stop_at /\ c.gen = a.gen
      /\ c.dma_buf_idx = a.dma_buf_idx
      /\ c.pos = a.pos + Signed(a.dir, Cur(a).len)
      /\ c.steps_actual = a.steps_actual + Cur(a).len
      /\ c.dma_buf[OtherBlock(a)] = Other(a)
      /\ c.dma_buf[a.dma_buf_idx].valid = FALSE
  BY <1>1, CountedView
<1>4. Cur(next) = Other(a) /\ next.dma_buf_idx = OtherBlock(a)
  <2> HIDE DEF c
  <2> QED BY <1>1, <1>3, OtherBlockType DEF Cur, Axis
<1>5. /\ axis' = next /\ hung' = hung
      /\ chan' = [sn EXCEPT !.tim = TRUE, !.ht = FALSE, !.tc = FALSE]
  BY <1>2, <1>4, Zenon DEF hm_dma_ck
<1>6. /\ axis'.axis_state = c.axis_state /\ axis'.dir = c.dir
      /\ axis'.bstopping = c.bstopping
      /\ axis'.steps_request = c.steps_request
      /\ axis'.steps_taken = c.steps_taken
      /\ axis'.stop_at = c.stop_at /\ axis'.gen = c.gen
      /\ axis'.pos = c.pos /\ axis'.steps_actual = c.steps_actual
      /\ axis'.dma_buf = c.dma_buf
  <2> HIDE DEF c
  <2> QED BY <1>3, <1>5 DEF Axis
<1>7. Cur(axis') = Other(a) /\ axis'.dma_buf_idx = OtherBlock(a)
  BY <1>4, <1>5
<1>8. ~Other(axis').valid /\ OtherLen(axis') = 0
  <2>1. OtherBlock(axis') = a.dma_buf_idx
    BY <1>1, <1>7, BlockCases DEF OtherBlock
  <2> QED BY <1>3, <1>6, <2>1 DEF Other, OtherLen
<1>9. /\ chan'.tim /\ chan'.dma /\ ~chan'.tc /\ ~chan'.ht
      /\ chan'.cw = chan.cw
      /\ chan'.len = Other(a).len /\ chan'.cndtr = Other(a).len
      /\ chan'.cmar = axis'.dma_buf_idx
  <2> HIDE DEF next, a
  <2> QED BY <1>4, <1>5, <1>7 DEF hm_dma_setup, TypeOK, Chan
<1> HIDE DEF a, c, next, sn
<1>10. /\ axis'.axis_state = "asRuning" /\ axis'.dir = axis.dir
       /\ axis'.bstopping = axis.bstopping
       /\ axis'.steps_request = axis.steps_request
       /\ axis'.steps_taken = a.steps_taken
       /\ axis'.stop_at = axis.stop_at /\ axis'.gen = a.gen
       /\ axis'.pos = axis.pos + Signed(axis.dir, Cur(axis).len)
       /\ axis'.steps_actual = axis.steps_actual + Cur(axis).len
  BY <1>1, <1>3, <1>6 DEF SameMotion
<1>11. /\ chan.cndtr = 0 /\ chan.len = Cur(axis).len
       /\ chan.cw <=> (axis.dir = "rdCW")
       /\ fed = axis.pos + Signed(axis.dir, chan.len - chan.cndtr)
  BY DEF Motion, InvRunning
<1>12. /\ Cur(axis).len \in Nat /\ Cur(axis).first \in Nat
       /\ Other(a).len \in Nat /\ Other(a).first \in Nat
       /\ axis.pos \in Int /\ axis.steps_actual \in Int
       /\ axis.steps_request \in Int /\ a.steps_taken \in Int
       /\ OtherLen(a) = Other(a).len
  BY <1>1, <1>2, AxisFields DEF TypeOK, OtherLen
<1>13. InvRunning'
  <2>1. chan.len - chan.cndtr = Cur(axis).len /\ chan'.len - chan'.cndtr = 0
    BY <1>9, <1>11, <1>12
  <2>2. fed' = axis'.pos + Signed(axis'.dir, chan'.len - chan'.cndtr)
    <3>1. Signed(axis.dir, 0) = 0
      BY SignedZero
    <3>2. Signed(axis.dir, Cur(axis).len) \in Int
      BY <1>12, SignedType
    <3> QED BY <1>10, <1>11, <1>12, <2>1, <3>1, <3>2
  <2>3. ~(chan'.cndtr = 0 /\ chan'.len > 0)
    BY <1>9
  <2>4. chan'.cndtr <= chan'.len
    BY <1>9, <1>12
  <2> QED BY <1>7, <1>9, <1>10, <1>11, <2>2, <2>3, <2>4 DEF InvRunning
<1>14. InvNextReady'
  BY <1>9, <1>12 DEF InvNextReady
<1>15. InvRamp'
  BY <1>10, AfterHalfView DEF Motion, InvRamp, a
<1>16. InvOrder'
  <2>1. /\ Cur(axis).first + (chan.len - chan.cndtr) = out
        /\ a.gen = Cur(axis).first + Cur(axis).len + OtherLen(a)
        /\ Other(a).first = Cur(axis).first + Cur(axis).len
    BY <1>2, AfterHalfView DEF Motion, InvOrder, a
  <2> QED BY <1>7, <1>8, <1>9, <1>10, <1>11, <1>12, <2>1 DEF InvOrder
<1>17. InvMove'
  <2> SUFFICES ASSUME axis.steps_request # HM_INVALID_STEP, ~axis.bstopping
               PROVE  /\ axis'.steps_taken = axis'.steps_actual
                           + Cur(axis').len + OtherLen(axis')
                      /\ out' = axis'.steps_actual + (chan'.len - chan'.cndtr)
                      /\ axis'.steps_request # 0 => Cur(axis').len > 0
    BY <1>8, <1>10 DEF InvMove
  <2>1. /\ a.steps_taken = axis.steps_actual + Cur(axis).len + OtherLen(a)
        /\ OtherLen(a) < HM_DMA_BUF_SIZE => a.steps_taken = axis.steps_request
    BY <1>2, AfterHalfView DEF a
  <2>2. out = axis.steps_actual + (chan.len - chan.cndtr)
    BY DEF Motion, InvMove
  <2>3. axis.steps_actual + Cur(axis).len < axis.steps_request
    BY <1>1, <1>3 DEF MoreToSend, SameMotion, c, a
  <2> QED BY <1>7, <1>8, <1>9, <1>10, <1>11, <1>12, <2>1, <2>2, <2>3,
             BufAssumption
<1>18. InvFree'
  BY <1>2, <1>7, <1>8, <1>10, <1>12, AfterHalfView DEF InvFree, a
<1>19. ~hung' /\ axis'.axis_state # "asPreparing" /\ InvStoped'
  BY <1>5, <1>10 DEF Motion, InvStoped
<1> QED BY <1>13, <1>14, <1>15, <1>16, <1>17, <1>18, <1>19 DEF Motion

LEMMA DmaCompleteMotion ==
  ASSUME TypeOK, Motion, DmaComplete
  PROVE  Motion'
<1>1. hm_dma_ck(AfterHalf) /\ chan.tc /\ UNCHANGED <<fed, out>>
  BY NoOverrun DEF DmaComplete
<1>2. axis.axis_state = "asRuning" /\ chan.dma
  BY <1>1, States DEF Motion, InvStoped, InvRunning
<1> QED BY <1>1, <1>2, CompleteStops, CompleteGoesOn, Zenon

-----------------------------------------------------------------------------
(* Steps that leave the run as it is, up to a new origin of the position.  *)

SameRun(r, a) ==
  /\ r.axis_state = a.axis_state /\ r.dir = a.dir
  /\ r.bstopping = a.bstopping
  /\ r.steps_request = a.steps_request /\ r.steps_taken = a.steps_taken
  /\ r.steps_actual = a.steps_actual
  /\ r.stop_at = a.stop_at /\ r.gen = a.gen
  /\ r.dma_buf_idx = a.dma_buf_idx /\ r.dma_buf = a.dma_buf

(* The position the axis answers is the true one.                          *)
LEMMA PosExact ==
  ASSUME TypeOK, Motion
  PROVE  hm_step_motor_get_cur_pos(axis, chan) = fed
BY States DEF Motion, InvStoped, InvRunning, hm_step_motor_get_cur_pos, IsStoped

LEMMA ShiftKept ==
  ASSUME TypeOK, Motion, UNCHANGED <<chan, hung, out>>,
         axis' \in Axis, SameRun(axis', axis),
         fed' = axis'.pos + (fed - axis.pos)
  PROVE  Motion'
<1>1. Cur(axis') = Cur(axis) /\ Other(axis') = Other(axis)
  BY DEF SameRun, Cur, Other, OtherBlock
<1>2. OtherLen(axis') = OtherLen(axis)
  BY <1>1 DEF OtherLen
<1>3. axis.pos \in Int /\ axis'.pos \in Int /\ fed \in Int
  BY AxisFields DEF TypeOK
<1>4. InvStoped'
  BY <1>3 DEF SameRun, Motion, InvStoped
<1>5. InvRunning'
  <2> SUFFICES ASSUME axis.axis_state = "asRuning"
               PROVE  fed' = axis'.pos + Signed(axis.dir, chan.len - chan.cndtr)
    BY <1>1 DEF SameRun, Motion, InvRunning
  <2>1. fed = axis.pos + Signed(axis.dir, chan.len - chan.cndtr)
    BY DEF Motion, InvRunning
  <2>2. Signed(axis.dir, chan.len - chan.cndtr) \in Int
    BY ChanFields, SignedType DEF TypeOK
  <2> QED BY <1>3, <2>1, <2>2
<1> QED BY <1>1, <1>2, <1>4, <1>5
  DEF SameRun, Motion, InvNextReady, InvRamp, InvOrder, InvMove, InvFree

(* A smooth stop, likewise.                                                *)
LEMMA SmoothKept ==
  ASSUME TypeOK, Motion, UNCHANGED <<chan, hung, out>>,
         NEW s \in Axis, SameRun(s, axis),
         axis' \in Axis, SameRun(axis', hm_step_motor_stop_smooth(s)),
         fed' = axis'.pos + (fed - axis.pos)
  PROVE  Motion'
<1>1. CASE IsStoped(s) \/ s.bstopping
  <2>1. hm_step_motor_stop_smooth(s) = s
    BY <1>1 DEF hm_step_motor_stop_smooth
  <2>2. SameRun(axis', axis)
    BY <2>1 DEF SameRun
  <2> QED BY <2>2, ShiftKept
<1>2. CASE ~IsStoped(s) /\ ~s.bstopping
  <2> DEFINE r == hm_step_motor_stop_smooth(s)
  <2>1. r = [s EXCEPT !.bstopping = TRUE, !.steps_request = StopSteps,
                      !.steps_taken = 0, !.steps_actual = 0,
                      !.stop_at = StopSteps]
    BY <1>2, Zenon DEF hm_step_motor_stop_smooth
  <2>2. /\ r.axis_state = s.axis_state /\ r.dir = s.dir
        /\ r.gen = s.gen
        /\ r.dma_buf_idx = s.dma_buf_idx /\ r.dma_buf = s.dma_buf
        /\ r.bstopping = TRUE /\ r.steps_request = StopSteps
        /\ r.steps_taken = 0 /\ r.stop_at = StopSteps
    BY <2>1 DEF Axis
  <2> HIDE DEF r
  <2>3. /\ axis'.axis_state = axis.axis_state /\ axis'.dir = axis.dir
        /\ axis'.gen = axis.gen
        /\ axis'.dma_buf_idx = axis.dma_buf_idx /\ axis'.dma_buf = axis.dma_buf
        /\ axis'.bstopping = TRUE /\ axis'.steps_request = StopSteps
        /\ axis'.steps_taken = 0 /\ axis'.stop_at = StopSteps
    BY <2>2 DEF SameRun, r
  <2>4. axis.axis_state = "asRuning"
    BY <1>2, States DEF SameRun, IsStoped
  <2>5. Cur(axis') = Cur(axis) /\ Other(axis') = Other(axis)
    BY <2>3 DEF Cur, Other, OtherBlock
  <2>6. OtherLen(axis') = OtherLen(axis)
    BY <2>5 DEF OtherLen
  <2>7. axis.pos \in Int /\ axis'.pos \in Int /\ fed \in Int
    BY AxisFields DEF TypeOK
  <2>8. InvRunning'
    <3>1. fed = axis.pos + Signed(axis.dir, chan.len - chan.cndtr)
      BY <2>4 DEF Motion, InvRunning
    <3>2. Signed(axis.dir, chan.len - chan.cndtr) \in Int
      BY ChanFields, SignedType DEF TypeOK
    <3>3. fed' = axis'.pos + Signed(axis.dir, chan.len - chan.cndtr)
      BY <2>7, <3>1, <3>2
    <3> QED BY <2>3, <2>4, <2>5, <3>3 DEF Motion, InvRunning
  <2>9. InvRamp' /\ InvMove' /\ InvFree'
    BY <2>3, StopAssumption DEF InvRamp, InvMove, InvFree, HM_INVALID_STEP
  <2>10. InvOrder' /\ InvNextReady'
    BY <2>3, <2>4, <2>5, <2>6 DEF Motion, InvOrder, InvNextReady
  <2>11. InvStoped' /\ ~hung' /\ axis'.axis_state # "asPreparing"
    BY <2>3, <2>4 DEF Motion, InvStoped
  <2> QED BY <2>8, <2>9, <2>10, <2>11 DEF Motion
<1> QED BY <1>1, <1>2

(* A sudden stop: the DMA counter of the still enabled channel tells what  *)
(* was sent; of a channel switched off before, it is reloaded.             *)
LEMMA SuddenKept ==
  ASSUME TypeOK, Motion, ~chan.tc, UNCHANGED <<hung, fed, out>>,
         NEW s \in Axis, SameRun(s, axis), s.pos = axis.pos,
         axis' = SuddenAxis(s, chan), chan' = SuddenChan(s, chan)
  PROVE  Motion'
<1> DEFINE h == hm_dma_setup(s, chan, FALSE)
           passed == Cur(s).len - chan'.cndtr
           m == MarkStoped(s)
<1>1. Cur(s) = Cur(axis)
  BY DEF SameRun, Cur
<1>2. /\ chan.dma => h.cndtr = chan.cndtr
      /\ ~chan.dma => h.cndtr = Cur(axis).len
      /\ ~h.dma /\ h.tc = chan.tc
  BY <1>1 DEF hm_dma_setup, TypeOK, Chan
<1>3. h \in Chan
  BY SetupType DEF TypeOK
<1> HIDE DEF h
<1>4. /\ chan'.cndtr = h.cndtr /\ ~chan'.tim /\ ~chan'.dma /\ ~chan'.tc
  BY <1>2, <1>3 DEF SuddenChan, Chan, h
<1>5. /\ axis'.axis_state = "asStoped"
      /\ axis'.pos = s.pos + Signed(s.dir, passed)
      /\ axis'.steps_request = s.steps_request
      /\ axis'.steps_taken = s.steps_taken /\ axis'.stop_at = s.stop_at
  <2>1. axis' = [m EXCEPT !.bstopping = FALSE,
                          !.pos = m.pos + Signed(s.dir, passed)]
    BY Zenon DEF SuddenAxis
  <2>2. /\ m \in Axis /\ m.axis_state = "asStoped" /\ m.pos = s.pos
        /\ m.steps_request = s.steps_request
        /\ m.steps_taken = s.steps_taken /\ m.stop_at = s.stop_at
    BY MarkStopedType DEF MarkStoped, Axis
  <2> HIDE DEF m
  <2> QED BY <2>1, <2>2 DEF Axis
<1>6. axis'.pos = fed
  <2>1. CASE axis.axis_state = "asRuning"
    <3>1. /\ chan.dma /\ chan.len = Cur(axis).len
          /\ fed = axis.pos + Signed(axis.dir, chan.len - chan.cndtr)
      BY <2>1 DEF Motion, InvRunning
    <3> QED BY <1>1, <1>2, <1>4, <1>5, <3>1 DEF SameRun
  <2>2. CASE axis.axis_state = "asStoped"
    <3>1. ~chan.dma /\ axis.pos = fed
      BY <2>2 DEF Motion, InvStoped
    <3>2. Cur(axis).len \in Nat /\ axis.pos \in Int
      BY AxisFields DEF TypeOK
    <3>3. passed = 0
      BY <1>1, <1>2, <1>4, <3>1, <3>2
    <3> QED BY <1>5, <3>1, <3>2, <3>3, SignedZero
  <2> QED BY <2>1, <2>2, States
<1>7. InvRamp'
  BY <1>5 DEF SameRun, Motion, InvRamp
<1> QED BY <1>4, <1>5, <1>6, <1>7
  DEF Motion, InvStoped, InvRunning, InvNextReady, InvOrder, InvMove, InvFree

LEMMA LimitStopMotion ==
  ASSUME TypeOK, Motion, ~late', UNCHANGED <<hung, fed, out>>,
         NEW s \in Axis, SameRun(s, axis), s.pos = axis.pos, LimitStop(s)
  PROVE  Motion'
<1>1. CASE cfg.bStopImmediatelyCW
  <2>1. /\ ~chan.tc
        /\ axis' = SuddenAxis(s, chan) /\ chan' = SuddenChan(s, chan)
    BY <1>1, Zenon DEF LimitStop
  <2> QED BY <2>1, SuddenKept
<1>2. CASE ~cfg.bStopImmediatelyCW
  <2> DEFINE r == hm_step_motor_stop_smooth(s)
  <2>1. axis' = r /\ UNCHANGED chan
    BY <1>2, Zenon DEF LimitStop
  <2>2. r \in Axis /\ r.pos = s.pos
    BY StopSmoothType DEF hm_step_motor_stop_smooth, Axis
  <2>3. SameRun(r, r)
    BY DEF SameRun
  <2>4. fed' = axis'.pos + (fed - axis.pos)
    <3>1. axis.pos \in Int /\ fed \in Int
      BY AxisFields DEF TypeOK
    <3> HIDE DEF r
    <3> QED BY <2>1, <2>2, <3>1
  <2> HIDE DEF r
  <2> QED BY <2>1, <2>2, <2>3, <2>4, SmoothKept DEF r
<1> QED BY <1>1, <1>2

-----------------------------------------------------------------------------
(* Starts.                                                                 *)

(* A filled axis that may be switched on.                                  *)
Filled(a) ==
  /\ Cur(a).first = 0
  /\ a.gen = Cur(a).len + OtherLen(a)
  /\ Other(a).valid => Other(a).first = Cur(a).len
  /\ a.steps_request # HM_INVALID_STEP =>
       /\ 0 <= a.steps_taken /\ a.steps_taken <= a.steps_request
       /\ a.steps_request <= a.stop_at
       /\ a.steps_actual = 0
       /\ a.steps_taken = Cur(a).len + OtherLen(a)
       /\ a.steps_request # 0 => Cur(a).len > 0
       /\ Cur(a).len < HM_DMA_BUF_SIZE => Cur(a).len = a.steps_request
       /\ Other(a).valid /\ OtherLen(a) < HM_DMA_BUF_SIZE
            => a.steps_taken = a.steps_request
  /\ a.steps_request = HM_INVALID_STEP =>
       /\ Cur(a).len = HM_DMA_BUF_SIZE
       /\ Other(a).valid /\ OtherLen(a) = HM_DMA_BUF_SIZE
       /\ a.steps_actual = HM_INVALID_STEP /\ a.steps_taken = 1

LEMMA StartMotion ==
  ASSUME TypeOK, Motion, ~chan.tc, axis.axis_state = "asStoped",
         NEW a \in Axis, a.pos = axis.pos, Filled(a), StartOn(a)
  PROVE  Motion'
<1> DEFINE d == hm_motor_set_dir(chan, a.dir = "rdCW")
           h == hm_dma_setup(a, d, TRUE)
<1>1. ~chan.dma /\ axis.pos = fed
  BY DEF Motion, InvStoped
<1>2. /\ h \in Chan /\ h.dma /\ h.cndtr = Cur(a).len /\ h.len = Cur(a).len
      /\ h.cmar = a.dma_buf_idx /\ h.tc = chan.tc
      /\ h.cw <=> (a.dir = "rdCW")
  <2>1. /\ d \in Chan /\ ~d.dma /\ d.tc = chan.tc
        /\ d.cw <=> (a.dir = "rdCW")
    BY <1>1 DEF hm_motor_set_dir, TypeOK, Chan
  <2> HIDE DEF d
  <2> QED BY <2>1, SetupType DEF hm_dma_setup, Chan
<1>3. chan' = [h EXCEPT !.tim = TRUE]
  BY Zenon DEF StartOn
<1> HIDE DEF h
<1>4. /\ chan'.tim /\ chan'.dma /\ ~chan'.tc
      /\ chan'.cndtr = Cur(a).len /\ chan'.len = Cur(a).len
      /\ chan'.cmar = a.dma_buf_idx
      /\ chan'.cw <=> (a.dir = "rdCW")
  BY <1>2, <1>3 DEF Chan
<1>5. /\ axis'.axis_state = "asRuning"
      /\ axis'.dir = a.dir /\ axis'.bstopping = a.bstopping
      /\ axis'.steps_request = a.steps_request
      /\ axis'.steps_taken = a.steps_taken
      /\ axis'.steps_actual = a.steps_actual
      /\ axis'.stop_at = a.stop_at /\ axis'.gen = a.gen
      /\ axis'.pos = a.pos
      /\ axis'.dma_buf_idx = a.dma_buf_idx /\ axis'.dma_buf = a.dma_buf
  BY DEF StartOn, Axis
<1>6. Cur(axis') = Cur(a) /\ Other(axis') = Other(a)
  BY <1>5 DEF Cur, Other, OtherBlock
<1>7. OtherLen(axis') = OtherLen(a)
  BY <1>6 DEF OtherLen
<1>8. /\ Cur(a).len \in Nat /\ OtherLen(a) \in Nat /\ a.pos \in Int
      /\ a.steps_taken \in Int /\ a.steps_request \in Int /\ a.stop_at \in Nat
  BY AxisFields
<1>9. fed' = fed /\ out' = 0
  BY DEF StartOn
<1>10. ~hung'
  <2>1. ~RampOverrun(a)
    BY <1>8 DEF RampOverrun, Filled
  <2> QED BY <2>1, Zenon DEF StartOn
<1>11. InvRunning'
  <2>1. chan'.len - chan'.cndtr = 0
    BY <1>4, <1>8
  <2>2. Signed(axis'.dir, 0) = 0
    BY SignedZero
  <2>3. fed' = axis'.pos + Signed(axis'.dir, chan'.len - chan'.cndtr)
    BY <1>1, <1>5, <1>8, <1>9, <2>1, <2>2
  <2>4. chan'.cndtr <= chan'.len /\ ~(chan'.cndtr = 0 /\ chan'.len > 0)
    BY <1>4, <1>8
  <2> QED BY <1>4, <1>5, <1>6, <2>3, <2>4 DEF InvRunning
<1>12. InvNextReady'
  BY <1>4, <1>8 DEF InvNextReady
<1>13. InvRamp'
  BY <1>5 DEF InvRamp, Filled
<1>14. InvOrder'
  BY <1>4, <1>5, <1>6, <1>7, <1>8, <1>9 DEF InvOrder, Filled
<1>15. InvMove'
  BY <1>4, <1>5, <1>6, <1>7, <1>8, <1>9 DEF InvMove, Filled
<1>16. InvFree'
  BY <1>5, <1>6, <1>7 DEF InvFree, Filled
<1> QED BY <1>5, <1>10, <1>11, <1>12, <1>13, <1>14, <1>15, <1>16
  DEF Motion, InvStoped

LEMMA PreparedView ==
  ASSUME NEW a \in Axis, NEW dir \in {"rdCW", "rdCCW"}
  PROVE  LET p == Prepared(a, dir)
         IN /\ p.pos = a.pos /\ p.dma_buf_idx = 0 /\ p.gen = 0
            /\ p.dma_buf[0] = EmptyBuf /\ p.dma_buf[1] = EmptyBuf
<1>1. 0 \in Blocks /\ 1 \in Blocks
  BY DEF Blocks
<1>2. Prepared(a, dir).dma_buf = [b \in Blocks |-> EmptyBuf]
  BY DEF Prepared, Axis
<1>3. LET p == Prepared(a, dir)
      IN p.pos = a.pos /\ p.dma_buf_idx = 0 /\ p.gen = 0
  BY DEF Prepared, Axis
<1> QED BY <1>1, <1>2, <1>3

LEMMA FirstStepView ==
  ASSUME NEW a \in Axis, a.dma_buf_idx = 0,
         a.dma_buf[0] = EmptyBuf, a.dma_buf[1] = EmptyBuf
  PROVE  LET f == FirstStep(a)
         IN /\ f \in Axis
            /\ f.pos = a.pos /\ f.dma_buf_idx = 0
            /\ f.steps_request = a.steps_request
            /\ f.steps_actual = a.steps_actual
            /\ f.stop_at = a.stop_at
            /\ f.steps_taken = 1 /\ f.gen = 1
            /\ f.dma_buf[0].len = 1 /\ f.dma_buf[0].first = 0
            /\ f.dma_buf[1].len = 0 /\ f.dma_buf[1].valid = FALSE
<1>1. 0 \in Blocks /\ 1 \in Blocks
  BY DEF Blocks
<1>2. FirstStep(a) \in Axis
  BY FirstStepType
<1>3. FirstStep(a).dma_buf = [a.dma_buf EXCEPT ![0].len = 1]
  BY DEF FirstStep, Axis
<1>4. /\ EmptyBuf.len = 0 /\ EmptyBuf.valid = FALSE
      /\ [EmptyBuf EXCEPT !.len = 1].len = 1
      /\ [EmptyBuf EXCEPT !.len = 1].first = 0
  BY DEF EmptyBuf
<1>5. a.dma_buf \in [Blocks -> DmaBuf]
  BY DEF Axis
<1>6. LET f == FirstStep(a)
      IN /\ f.pos = a.pos /\ f.dma_buf_idx = 0
         /\ f.steps_request = a.steps_request
         /\ f.steps_actual = a.steps_actual
         /\ f.stop_at = a.stop_at
         /\ f.steps_taken = 1 /\ f.gen = 1
  BY DEF FirstStep, Axis
<1>7. /\ FirstStep(a).dma_buf[0] = [EmptyBuf EXCEPT !.len = 1]
      /\ FirstStep(a).dma_buf[1] = EmptyBuf
  BY <1>1, <1>3, <1>5
<1> QED BY <1>2, <1>4, <1>6, <1>7

(* Filling both buffers after the first step.                              *)
LEMMA FillBothView ==
  ASSUME NEW a \in Axis, a.dma_buf_idx = 0, a.steps_taken = 1, a.gen = 1,
         a.dma_buf[0].len = 1, a.dma_buf[0].first = 0,
         a.dma_buf[1].len = 0, a.dma_buf[1].valid = FALSE,
         \/ /\ a.steps_request = HM_INVALID_STEP
            /\ a.steps_actual = HM_INVALID_STEP
         \/ /\ a.steps_request >= 2 /\ a.steps_request <= a.stop_at
            /\ a.steps_actual = 0
  PROVE  /\ Filled(FillBoth(a)) /\ FillBoth(a).pos = a.pos
         /\ FillBoth(a).steps_request = a.steps_request
<1> DEFINE b0 == hm_dma_update(a, 0)
           b1 == hm_dma_update(b0, 1)
           n0 == FillCount(a, 0)
           n1 == FillCount(b0, 1)
<1>1. 0 \in Blocks /\ 1 \in Blocks /\ 1 \in Blocks \ {0} /\ 0 \in Blocks \ {1}
  BY DEF Blocks
<1>2. /\ b0 \in Axis /\ b1 \in Axis
  BY <1>1, UpdateType
<1>3. /\ SameMotion(b0, a)
      /\ b0.steps_taken = IF a.steps_request = HM_INVALID_STEP THEN 1 ELSE 1 + n0
      /\ b0.gen = 1 + n0
      /\ b0.dma_buf[0].len = 1 + n0 /\ b0.dma_buf[0].valid = TRUE
      /\ b0.dma_buf[0].first = 0
      /\ b0.dma_buf[1].len = 0 /\ b0.dma_buf[1].valid = FALSE
  <2>1. /\ SameMotion(b0, a)
        /\ b0.steps_taken = IF a.steps_request = HM_INVALID_STEP
                            THEN a.steps_taken ELSE a.steps_taken + n0
        /\ b0.gen = a.gen + n0
        /\ b0.dma_buf[0].len = a.dma_buf[0].len + n0
        /\ b0.dma_buf[0].valid = TRUE
        /\ b0.dma_buf[0].first = IF a.dma_buf[0].len = 0 THEN a.gen
                                 ELSE a.dma_buf[0].first
        /\ \A d \in Blocks \ {0} : b0.dma_buf[d] = a.dma_buf[d]
    BY <1>1, UpdateView, ZenonT(60)
  <2>2. b0.dma_buf[1] = a.dma_buf[1]
    BY <1>1, <2>1
  <2> HIDE DEF b0, n0
  <2> QED BY <2>1, <2>2
<1>4. /\ n0 \in Nat
      /\ a.steps_request = HM_INVALID_STEP => 1 + n0 = HM_DMA_BUF_SIZE
      /\ a.steps_request # HM_INVALID_STEP =>
           /\ 1 + n0 <= a.steps_request
           /\ 1 + n0 < HM_DMA_BUF_SIZE => 1 + n0 = a.steps_request
  BY <1>1, FillCountView, AxisFields, BufAssumption
<1> HIDE DEF b0
<1>5. /\ SameMotion(b1, b0)
      /\ b1.steps_taken = IF b0.steps_request = HM_INVALID_STEP
                          THEN b0.steps_taken ELSE b0.steps_taken + n1
      /\ b1.gen = b0.gen + n1
      /\ b1.dma_buf[1].len = 0 + n1 /\ b1.dma_buf[1].valid = TRUE
      /\ b1.dma_buf[1].first = b0.gen
      /\ b1.dma_buf[0] = b0.dma_buf[0]
  <2>1. /\ SameMotion(b1, b0)
        /\ b1.steps_taken = IF b0.steps_request = HM_INVALID_STEP
                            THEN b0.steps_taken ELSE b0.steps_taken + n1
        /\ b1.gen = b0.gen + n1
        /\ b1.dma_buf[1].len = b0.dma_buf[1].len + n1
        /\ b1.dma_buf[1].valid = TRUE
        /\ b1.dma_buf[1].first = IF b0.dma_buf[1].len = 0 THEN b0.gen
                                 ELSE b0.dma_buf[1].first
        /\ \A d \in Blocks \ {1} : b1.dma_buf[d] = b0.dma_buf[d]
    BY <1>1, <1>2, UpdateView, Zenon
  <2>2. b1.dma_buf[0] = b0.dma_buf[0]
    BY <1>1, <2>1
  <2> HIDE DEF b1, n1
  <2> QED BY <1>3, <2>1, <2>2
<1>6. /\ n1 \in Nat
      /\ b0.steps_request = HM_INVALID_STEP => n1 = HM_DMA_BUF_SIZE
      /\ b0.steps_request # HM_INVALID_STEP =>
           /\ b0.steps_taken + n1 <= b0.steps_request
           /\ n1 # HM_DMA_BUF_SIZE => b0.steps_taken + n1 = b0.steps_request
  <2>1. b0.steps_request = a.steps_request
    BY <1>3 DEF SameMotion
  <2>2. b0.steps_request # HM_INVALID_STEP => b0.steps_taken <= b0.steps_request
    BY <1>3, <1>4, <2>1
  <2> QED BY <1>1, <1>2, <1>3, <2>2, FillCountView, BufAssumption
<1> HIDE DEF b1, n0, n1
<1>7. /\ b0.dma_buf_idx = 0 /\ b0.pos = a.pos
      /\ b0.steps_request = a.steps_request /\ b0.stop_at = a.stop_at
      /\ b0.steps_actual = a.steps_actual
      /\ b1.dma_buf_idx = 0 /\ b1.pos = a.pos
      /\ b1.steps_request = a.steps_request /\ b1.stop_at = a.stop_at
      /\ b1.steps_actual = a.steps_actual
  BY <1>3, <1>5 DEF SameMotion
<1>8. /\ OtherBlock(b0) = 1 /\ OtherBlock(b1) = 1
  BY <1>7 DEF OtherBlock
<1>9. /\ a.steps_request \in Int /\ a.stop_at \in Nat
  BY AxisFields
<1>10. a.steps_request # HM_INVALID_STEP => Filled(b0)
  <2>1. /\ Cur(b0).first = 0 /\ Cur(b0).len = 1 + n0
        /\ Other(b0).valid = FALSE /\ OtherLen(b0) = 0
    BY <1>3, <1>7, <1>8 DEF Cur, Other, OtherLen
  <2> QED BY <1>3, <1>4, <1>7, <1>9, <2>1 DEF Filled
<1>11. Filled(b1)
  <2>1. /\ Cur(b1).first = 0 /\ Cur(b1).len = 1 + n0
        /\ Other(b1).valid = TRUE /\ Other(b1).first = 1 + n0
        /\ OtherLen(b1) = n1
    BY <1>3, <1>5, <1>6, <1>7, <1>8 DEF Cur, Other, OtherLen
  <2>2. b1.steps_request = HM_INVALID_STEP =>
          /\ b1.steps_actual = HM_INVALID_STEP /\ b1.steps_taken = 1
          /\ n1 = HM_DMA_BUF_SIZE
    BY <1>3, <1>5, <1>6, <1>7 DEF HM_INVALID_STEP
  <2> QED BY <1>3, <1>4, <1>5, <1>6, <1>7, <1>9, <2>1, <2>2 DEF Filled
<1>12. \/ FillBoth(a) = b0 /\ a.steps_request # HM_INVALID_STEP
       \/ FillBoth(a) = b1
  BY <1>7, Zenon DEF FillBoth, RampStopped, b0, b1
<1> QED BY <1>7, <1>10, <1>11, <1>12

(* hm_step_motor_move leaves a filled axis, for a move of any length.      *)
LEMMA MoveFilledView ==
  ASSUME NEW a \in Axis, a.dma_buf_idx = 0, a.gen = 0,
         a.dma_buf[0] = EmptyBuf, a.dma_buf[1] = EmptyBuf,
         NEW n \in Nat, NEW m \in Nat \ {0}
  PROVE  /\ Filled(MoveFilled(a, n, m)) /\ MoveFilled(a, n, m).pos = a.pos
         /\ MoveFilled(a, n, m).steps_request = n
<1> DEFINE r == [a EXCEPT !.steps_request = n, !.steps_taken = 0,
                          !.steps_actual = 0, !.bdo_home = FALSE]
           f == FirstStep(r)
<1>1. r \in Axis
  <2>1. n \in Int /\ 0 \in Int /\ 0 \in Nat
    OBVIOUS
  <2> QED BY <2>1, AxisUpdate, Zenon
<1>2. /\ r.steps_request = n /\ r.steps_taken = 0 /\ r.steps_actual = 0
      /\ r.pos = a.pos /\ r.dma_buf_idx = 0 /\ r.gen = 0
      /\ r.stop_at = a.stop_at /\ r.dma_buf = a.dma_buf
  BY DEF Axis
<1>3. /\ EmptyBuf.len = 0 /\ EmptyBuf.valid = FALSE /\ EmptyBuf.first = 0
  BY DEF EmptyBuf
<1> HIDE DEF r
<1>4. CASE n = 0
  <2>1. MoveFilled(a, n, m) = r
    BY <1>4 DEF MoveFilled, r
  <2>2. OtherBlock(r) = 1
    BY <1>2 DEF OtherBlock
  <2>3. /\ Cur(r) = EmptyBuf /\ Other(r) = EmptyBuf
    BY <1>2, <2>2 DEF Cur, Other
  <2>4. OtherLen(r) = 0
    BY <1>3, <2>3 DEF OtherLen
  <2>5. r.stop_at \in Nat
    BY <1>1, AxisFields
  <2> QED BY <1>2, <1>3, <1>4, <2>1, <2>3, <2>4, <2>5
     DEF Filled, HM_INVALID_STEP
<1>5. /\ f \in Axis
      /\ f.pos = r.pos /\ f.dma_buf_idx = 0
      /\ f.steps_request = r.steps_request
      /\ f.steps_actual = r.steps_actual
      /\ f.stop_at = r.stop_at
      /\ f.steps_taken = 1 /\ f.gen = 1
      /\ f.dma_buf[0].len = 1 /\ f.dma_buf[0].first = 0
      /\ f.dma_buf[1].len = 0 /\ f.dma_buf[1].valid = FALSE
  BY <1>1, <1>2, FirstStepView
<1> HIDE DEF f
<1>6. CASE n = 1
  <2> DEFINE e == [f EXCEPT !.dma_buf[0].valid = TRUE, !.stop_at = 2]
  <2>1. MoveFilled(a, n, m) = e
    <3>1. n # 0
      BY <1>6
    <3> QED BY <1>6, <3>1, Zenon DEF MoveFilled, f, r
  <2>2. 0 \in Blocks /\ 1 \in Blocks
    BY DEF Blocks
  <2>3. /\ e.pos = f.pos /\ e.dma_buf_idx = 0
        /\ e.steps_request = f.steps_request
        /\ e.steps_actual = f.steps_actual
        /\ e.stop_at = 2
        /\ e.steps_taken = 1 /\ e.gen = 1
        /\ e.dma_buf = [f.dma_buf EXCEPT ![0].valid = TRUE]
    BY <1>5 DEF Axis
  <2>4. /\ e.dma_buf[0].len = 1 /\ e.dma_buf[0].first = 0
        /\ e.dma_buf[1].valid = FALSE
    <3>1. f.dma_buf \in [Blocks -> DmaBuf]
      BY <1>5 DEF Axis
    <3> QED BY <1>5, <2>2, <2>3, <3>1 DEF DmaBuf
  <2> HIDE DEF e
  <2>5. OtherBlock(e) = 1
    BY <2>3 DEF OtherBlock
  <2>6. /\ Cur(e).len = 1 /\ Cur(e).first = 0
        /\ Other(e).valid = FALSE /\ OtherLen(e) = 0
    BY <2>3, <2>4, <2>5 DEF Cur, Other, OtherLen
  <2> QED BY <1>2, <1>5, <1>6, <2>1, <2>3, <2>6 DEF Filled, HM_INVALID_STEP
<1>7. CASE n # 0 /\ n # 1
  <2> DEFINE e == [f EXCEPT !.stop_at = StopAt(n, m)]
  <2>1. MoveFilled(a, n, m) = FillBoth(e)
    BY <1>7, Zenon DEF MoveFilled, f, r
  <2>2. n >= 2
    BY <1>7
  <2>3. StopAt(n, m) \in Nat /\ n <= StopAt(n, m)
    BY <2>2, StopAtBound
  <2>4. e \in Axis
    BY <1>5, <2>3, AxisUpdate, Zenon
  <2>5. /\ e.pos = f.pos /\ e.dma_buf_idx = 0 /\ e.dma_buf = f.dma_buf
        /\ e.steps_request = f.steps_request
        /\ e.steps_actual = f.steps_actual
        /\ e.stop_at = StopAt(n, m)
        /\ e.steps_taken = 1 /\ e.gen = 1
    BY <1>5 DEF Axis
  <2> HIDE DEF e
  <2>6. /\ e.dma_buf[0].len = 1 /\ e.dma_buf[0].first = 0
        /\ e.dma_buf[1].len = 0 /\ e.dma_buf[1].valid = FALSE
    BY <1>5, <2>5
  <2>7. /\ e.steps_request >= 2 /\ e.steps_request <= e.stop_at
        /\ e.steps_actual = 0
    BY <1>2, <1>5, <2>2, <2>3, <2>5
  <2>8. /\ Filled(FillBoth(e)) /\ FillBoth(e).pos = e.pos
        /\ FillBoth(e).steps_request = e.steps_request
    BY <2>4, <2>5, <2>6, <2>7, FillBothView
  <2> QED BY <1>2, <1>5, <2>1, <2>5, <2>8
<1> QED BY <1>4, <1>6, <1>7

(* hm_step_motor_start_run likewise: both buffers are full.                *)
LEMMA RunFilledView ==
  ASSUME NEW a \in Axis, a.dma_buf_idx = 0, a.gen = 0,
         a.dma_buf[0] = EmptyBuf, a.dma_buf[1] = EmptyBuf,
         pins \in [Lines -> BOOLEAN]
  PROVE  /\ Filled(RunFilled(a)) /\ RunFilled(a).pos = a.pos
         /\ RunFilled(a).steps_request = HM_INVALID_STEP
<1> DEFINE h == IF a.bdo_home THEN pins["Home"] ELSE a.blast_hit_home
           p == [a EXCEPT !.steps_request = HM_INVALID_STEP,
                          !.steps_actual = HM_INVALID_STEP]
           r == [p EXCEPT !.blast_hit_home = h]
           f == FirstStep(r)
<1>1. HM_INVALID_STEP \in Int /\ h \in BOOLEAN
  BY DEF HM_INVALID_STEP, Axis, Lines
<1>2. p \in Axis
  BY <1>1, AxisUpdate, Zenon
<1>3. p.blast_hit_home = a.blast_hit_home
  BY DEF Axis
<1> HIDE DEF h
<1>4. r \in Axis
  BY <1>1, <1>2, AxisUpdate, Zenon
<1>5. RunFilled(a) = FillBoth(f)
  BY <1>3, Zenon DEF RunFilled, h
<1>6. /\ r.steps_request = HM_INVALID_STEP
      /\ r.steps_actual = HM_INVALID_STEP
      /\ r.pos = a.pos /\ r.dma_buf_idx = 0 /\ r.dma_buf = a.dma_buf
  BY <1>1 DEF Axis
<1> HIDE DEF r
<1>7. /\ f \in Axis
      /\ f.pos = r.pos /\ f.dma_buf_idx = 0
      /\ f.steps_request = r.steps_request
      /\ f.steps_actual = r.steps_actual
      /\ f.steps_taken = 1 /\ f.gen = 1
      /\ f.dma_buf[0].len = 1 /\ f.dma_buf[0].first = 0
      /\ f.dma_buf[1].len = 0 /\ f.dma_buf[1].valid = FALSE
  BY <1>4, <1>6, FirstStepView
<1> HIDE DEF f
<1>8. /\ Filled(FillBoth(f)) /\ FillBoth(f).pos = f.pos
      /\ FillBoth(f).steps_request = f.steps_request
  BY <1>6, <1>7, FillBothView
<1> QED BY <1>5, <1>6, <1>7, <1>8

LEMMA FixMoveMotion ==
  ASSUME TypeOK, Motion, NEW step \in FixSteps, NEW lim \in RampLimits,
         FixMove(step, lim)
  PROVE  Motion'
<1> DEFINE dir == IF step < 0 THEN "rdCCW" ELSE "rdCW"
           p == Prepared(axis, dir)
<1>1. dir \in {"rdCW", "rdCCW"} /\ axis \in Axis
  BY DEF TypeOK
<1>2. Abs(step) \in Nat /\ lim \in Nat \ {0}
  BY FixAssumption, RampAssumption DEF Abs
<1> HIDE DEF dir
<1>3. axis.axis_state = "asStoped" /\ ~chan.tc
  BY DEF FixMove, IsStoped, EthMayRun
<1>4. CASE Blocked(dir, axis.bdo_home)
  <2>1. /\ axis' = [axis EXCEPT !.dir = dir]
        /\ UNCHANGED <<cfg, chan, pins, exti, hung, fed, out, late>>
    BY <1>4, Zenon DEF FixMove, dir
  <2>2. /\ axis'.axis_state = "asStoped" /\ axis'.pos = axis.pos
        /\ axis'.steps_request = axis.steps_request
        /\ axis'.steps_taken = axis.steps_taken /\ axis'.stop_at = axis.stop_at
    BY <1>1, <1>3, <2>1 DEF Axis
  <2> QED BY <1>3, <2>1, <2>2
     DEF Motion, InvStoped, InvRunning, InvNextReady, InvRamp, InvOrder,
         InvMove, InvFree
<1>5. CASE ~Blocked(dir, axis.bdo_home)
  <2>1. StartOn(MoveFilled(p, Abs(step), lim))
    BY <1>5, Zenon DEF FixMove, dir
  <2>2. p \in Axis
    BY <1>1, PreparedType
  <2>3. /\ p.pos = axis.pos /\ p.dma_buf_idx = 0 /\ p.gen = 0
        /\ p.dma_buf[0] = EmptyBuf /\ p.dma_buf[1] = EmptyBuf
    BY <1>1, PreparedView
  <2> HIDE DEF p
  <2>4. MoveFilled(p, Abs(step), lim) \in Axis
    BY <1>2, <2>2, MoveFilledType
  <2>5. /\ Filled(MoveFilled(p, Abs(step), lim))
        /\ MoveFilled(p, Abs(step), lim).pos = axis.pos
    BY <1>2, <2>2, <2>3, MoveFilledView
  <2> QED BY <1>3, <2>1, <2>4, <2>5, StartMotion
<1> QED BY <1>4, <1>5

LEMMA KeepMoveMotion ==
  ASSUME TypeOK, Motion, NEW dir \in {"rdCW", "rdCCW"}, NEW bhome \in BOOLEAN,
         KeepMove(dir, bhome)
  PROVE  Motion'
<1> DEFINE h == [axis EXCEPT !.bdo_home = bhome]
           p == Prepared(h, dir)
<1>1. axis \in Axis /\ h \in Axis /\ SameRun(h, axis) /\ h.pos = axis.pos
  <2>1. axis \in Axis
    BY DEF TypeOK
  <2>2. h \in Axis
    BY <2>1, AxisUpdate, Zenon
  <2> QED BY <2>1, <2>2 DEF SameRun, Axis
<1>2. CASE axis' = h /\ UNCHANGED <<cfg, chan, pins, exti, hung, fed, out, late>>
  <2>1. fed' = axis'.pos + (fed - axis.pos)
    <3>1. axis.pos \in Int /\ fed \in Int
      BY AxisFields DEF TypeOK
    <3> HIDE DEF h
    <3> QED BY <1>1, <1>2, <3>1
  <2> HIDE DEF h
  <2> QED BY <1>1, <1>2, <2>1, ShiftKept
<1>3. CASE /\ IsStoped(axis)
           /\ axis' = [h EXCEPT !.dir = dir]
           /\ UNCHANGED <<cfg, chan, pins, exti, hung, fed, out, late>>
  <2>1. /\ axis'.axis_state = "asStoped" /\ axis'.pos = axis.pos
        /\ axis'.steps_request = axis.steps_request
        /\ axis'.steps_taken = axis.steps_taken /\ axis'.stop_at = axis.stop_at
    <3> HIDE DEF h
    <3> QED BY <1>1, <1>3 DEF Axis, SameRun, IsStoped
  <2> QED BY <1>3, <2>1
     DEF IsStoped, Motion, InvStoped, InvRunning, InvNextReady, InvRamp,
         InvOrder, InvMove, InvFree
<1>4. CASE IsStoped(axis) /\ StartOn(RunFilled(p))
  <2> HIDE DEF h
  <2>1. p \in Axis
    BY <1>1, PreparedType
  <2>2. /\ p.pos = axis.pos /\ p.dma_buf_idx = 0 /\ p.gen = 0
        /\ p.dma_buf[0] = EmptyBuf /\ p.dma_buf[1] = EmptyBuf
    BY <1>1, PreparedView
  <2> HIDE DEF p
  <2>3. RunFilled(p) \in Axis
    BY <2>1, RunFilledType DEF TypeOK
  <2>4. Filled(RunFilled(p)) /\ RunFilled(p).pos = axis.pos
    BY <2>1, <2>2, RunFilledView DEF TypeOK
  <2>5. axis.axis_state = "asStoped" /\ ~chan.tc
    BY <1>4 DEF KeepMove, IsStoped, EthMayRun
  <2> QED BY <1>4, <2>3, <2>4, <2>5, StartMotion
<1> QED BY <1>2, <1>3, <1>4, Zenon DEF KeepMove

LEMMA SetPositionMotion ==
  ASSUME TypeOK, Motion, UNCHANGED <<chan, hung, out>>, NEW p \in Int,
         SetPosition(axis, p) \/ SetPosition(hm_step_motor_stop_smooth(axis), p)
  PROVE  Motion'
<1>1. axis \in Axis /\ SameRun(axis, axis)
  BY DEF TypeOK, SameRun
<1>2. fed' = p + (fed - axis.pos)
  BY PosExact DEF SetPosition
<1>3. ASSUME NEW a \in Axis, axis' = [a EXCEPT !.pos = p]
      PROVE  axis' \in Axis /\ SameRun(axis', a) /\ axis'.pos = p
  <2>1. axis' \in Axis
    BY <1>3, AxisUpdate, Zenon
  <2> QED BY <1>3, <2>1 DEF SameRun, Axis
<1>4. CASE SetPosition(axis, p)
  <2>1. axis' = [axis EXCEPT !.pos = p]
    BY <1>4 DEF SetPosition
  <2>2. axis' \in Axis /\ SameRun(axis', axis) /\ axis'.pos = p
    BY <1>1, <1>3, <2>1
  <2> QED BY <1>2, <2>2, ShiftKept
<1>5. CASE SetPosition(hm_step_motor_stop_smooth(axis), p)
  <2> DEFINE r == hm_step_motor_stop_smooth(axis)
  <2>1. axis' = [r EXCEPT !.pos = p]
    BY <1>5 DEF SetPosition
  <2>2. r \in Axis
    BY <1>1, StopSmoothType
  <2> HIDE DEF r
  <2>3. axis' \in Axis /\ SameRun(axis', r) /\ axis'.pos = p
    BY <1>3, <2>1, <2>2
  <2> QED BY <1>1, <1>2, <2>3, SmoothKept DEF r
<1> QED BY <1>4, <1>5

LEMMA Unmoved ==
  ASSUME TypeOK, Motion, UNCHANGED <<axis, chan, hung, fed, out>>
  PROVE  Motion'
BY DEF Motion, InvStoped, InvRunning, InvNextReady, InvRamp, InvOrder,
       InvMove, InvFree, Cur, Other, OtherLen, OtherBlock

-----------------------------------------------------------------------------
(* Every action keeps IndInv.                                              *)
LEMMA MotionStep ==
  ASSUME TypeOK, Motion, ~late', [Next]_vars
  PROVE  Motion'
<1>0. axis \in Axis /\ SameRun(axis, axis)
  BY DEF TypeOK, SameRun
<1>1. CASE Tick
  BY <1>1, TickMotion
<1>2. ASSUME NEW l \in Lines, SensorChange(l)
      PROVE  Motion'
  BY <1>2, Unmoved DEF SensorChange
<1>3. CASE DmaIrq
  BY <1>3, DmaHalfMotion, DmaCompleteMotion DEF DmaIrq
<1>4. ASSUME NEW l \in Lines, ExtiIrq(l)
      PROVE  Motion'
  <2>1. UNCHANGED <<hung, fed, out>>
    BY <1>4 DEF ExtiIrq
  <2>2. LimitStop(axis) \/ UNCHANGED <<axis, chan>>
    BY <1>4, Zenon DEF ExtiIrq
  <2> QED BY <1>0, <2>1, <2>2, LimitStopMotion, Unmoved
<1>5. CASE LimitCheck
  <2> DEFINE seen == IF axis.axis_state = "asRuning" /\ axis.bdo_home
                     THEN [axis EXCEPT !.blast_hit_home = pins["Home"]]
                     ELSE axis
  <2>1. seen \in Axis
    <3>1. pins["Home"] \in BOOLEAN
      BY DEF TypeOK, Lines
    <3> QED BY <1>0, <3>1, AxisUpdate, Zenon
  <2>2. SameRun(seen, axis) /\ seen.pos = axis.pos
    BY <1>0 DEF SameRun, Axis
  <2>3. UNCHANGED <<hung, fed, out>>
    BY <1>5 DEF LimitCheck
  <2>4. LimitStop(seen) \/ (axis' = seen /\ UNCHANGED chan)
    BY <1>5, Zenon DEF LimitCheck
  <2> HIDE DEF seen
  <2>5. CASE axis' = seen /\ UNCHANGED chan
    <3>1. axis.pos \in Int /\ fed \in Int
      BY AxisFields DEF TypeOK
    <3>2. fed' = axis'.pos + (fed - axis.pos)
      BY <2>2, <2>3, <2>5, <3>1
    <3> QED BY <2>1, <2>2, <2>3, <2>5, <3>2, ShiftKept
  <2> QED BY <2>1, <2>2, <2>3, <2>4, <2>5, LimitStopMotion
<1>6. ASSUME NEW step \in FixSteps, NEW lim \in RampLimits, FixMove(step, lim)
      PROVE  Motion'
  BY <1>6, FixMoveMotion
<1>7. ASSUME NEW dir \in {"rdCW", "rdCCW"}, NEW bhome \in BOOLEAN,
             KeepMove(dir, bhome)
      PROVE  Motion'
  BY <1>7, KeepMoveMotion
<1>8. CASE StopSmooth
  <2> DEFINE r == hm_step_motor_stop_smooth(axis)
  <2>1. axis' = r /\ UNCHANGED <<chan, hung, fed, out>>
    BY <1>8 DEF StopSmooth
  <2>2. r \in Axis /\ r.pos = axis.pos /\ SameRun(r, r)
    BY <1>0, StopSmoothType DEF hm_step_motor_stop_smooth, Axis, SameRun
  <2> HIDE DEF r
  <2>3. axis.pos \in Int /\ fed \in Int
    BY AxisFields DEF TypeOK
  <2>4. fed' = axis'.pos + (fed - axis.pos)
    BY <2>1, <2>2, <2>3
  <2> QED BY <1>0, <2>1, <2>2, <2>4, SmoothKept DEF r
<1>9. CASE StopSudden
  <2>1. /\ ~chan.tc /\ UNCHANGED <<hung, fed, out>>
        /\ axis' = SuddenAxis(axis, chan) /\ chan' = SuddenChan(axis, chan)
    BY <1>9 DEF StopSudden, EthMayRun
  <2> QED BY <1>0, <2>1, SuddenKept
<1>10. ASSUME NEW p \in NewPositions, SetPos(p)
       PROVE  Motion'
  BY <1>10, PosAssumption, SetPositionMotion DEF SetPos
<1>11. CASE ResetBoard
  <2>1. 0 \in Int
    OBVIOUS
  <2> QED BY <1>11, <2>1, SetPositionMotion DEF ResetBoard
<1>12. ASSUME NEW b \in BOOLEAN, EnableAxis(b)
       PROVE  Motion'
  BY <1>12, Unmoved DEF EnableAxis
<1>13. ASSUME NEW flag \in SettingFlags, NEW v \in SettingValues,
              SetAxisSetting(flag, v)
       PROVE  Motion'
  BY <1>13, Unmoved DEF SetAxisSetting
<1>14. CASE UNCHANGED vars
  BY <1>14, Unmoved DEF vars
<1> QED BY <1>1, <1>2, <1>3, <1>4, <1>5, <1>6, <1>7, <1>8, <1>9, <1>10, <1>11,
           <1>12, <1>13, <1>14, Zenon DEF Next

LEMMA MotionInit ==
  ASSUME Init
  PROVE  Motion
<1>1. /\ axis.axis_state = "asStoped" /\ axis.pos = 0
      /\ axis.steps_request = 0 /\ axis.steps_taken = 0 /\ axis.stop_at = 0
  BY DEF Init
<1>2. ~chan.tim /\ ~chan.dma /\ ~chan.tc
  BY DEF Init
<1>3. ~hung /\ fed = 0
  BY DEF Init
<1> QED BY <1>1, <1>2, <1>3
  DEF Motion, InvStoped, InvRunning, InvNextReady, InvRamp, InvOrder,
      InvMove, InvFree

(* Once a limit stop came late, it stays so.                               *)
LEMMA LateStays ==
  ASSUME [Next]_vars, late
  PROVE  late'
<1>1. ASSUME NEW a, LimitStop(a)
      PROVE  late'
  BY <1>1, Zenon DEF LimitStop
<1>2. ASSUME NEW l \in Lines, ExtiIrq(l)
      PROVE  late'
  BY <1>1, <1>2, Zenon DEF ExtiIrq
<1>3. CASE LimitCheck
  BY <1>1, <1>3, Zenon DEF LimitCheck
<1>4. CASE Tick \/ DmaIrq \/ \E l \in Lines : SensorChange(l)
  BY <1>4 DEF Tick, DmaIrq, DmaHalf, DmaComplete, SensorChange
<1>5. ASSUME NEW step \in FixSteps, NEW lim \in RampLimits, FixMove(step, lim)
      PROVE  late'
  BY <1>5, Zenon DEF FixMove, StartOn
<1>6. ASSUME NEW dir \in {"rdCW", "rdCCW"}, NEW bhome \in BOOLEAN,
             KeepMove(dir, bhome)
      PROVE  late'
  BY <1>6, Zenon DEF KeepMove, StartOn
<1>7. CASE StopSmooth \/ StopSudden \/ ResetBoard
  BY <1>7 DEF StopSmooth, StopSudden, ResetBoard
<1>8. ASSUME NEW p \in NewPositions, SetPos(p)
      PROVE  late'
  BY <1>8 DEF SetPos
<1>9. ASSUME NEW b \in BOOLEAN, EnableAxis(b)
      PROVE  late'
  BY <1>9 DEF EnableAxis
<1>10. ASSUME NEW flag \in SettingFlags, NEW v \in SettingValues,
              SetAxisSetting(flag, v)
       PROVE  late'
  BY <1>10 DEF SetAxisSetting
<1>11. CASE UNCHANGED vars
  BY <1>11 DEF vars
<1> QED BY <1>2, <1>3, <1>4, <1>5, <1>6, <1>7, <1>8, <1>9, <1>10, <1>11, Zenon
        DEF Next

(* The inductive invariant holds in every reachable state.                 *)
THEOREM Inductive == Spec => []IndInv
<1>1. Init => IndInv
  BY TypeInit, MotionInit DEF IndInv
<1>2. IndInv /\ [Next]_vars => IndInv'
  <2> SUFFICES ASSUME IndInv, [Next]_vars
               PROVE  IndInv'
    OBVIOUS
  <2>1. TypeOK'
    BY TypeStep DEF IndInv
  <2>2. ASSUME ~late'
        PROVE  Motion'
    <3>1. ~late
      BY <2>2, LateStays
    <3> QED BY <2>2, <3>1, MotionStep DEF IndInv
  <2> QED BY <2>1, <2>2 DEF IndInv
<1> QED BY <1>1, <1>2, PTL DEF Spec

LEMMA IndInvParts ==
  ASSUME IndInv, ~late
  PROVE  TypeOK /\ Motion
BY DEF IndInv

(* hm_step_motor_get_cur_pos answers the true position in every state a    *)
(* late limit stop has not spoilt: no step that DMA fed to the timer is    *)
(* lost or counted twice.                                                  *)
THEOREM PositionIsExact == Spec => []ExactCount
<1>1. IndInv => ExactCount
  BY IndInvParts, PosExact DEF ExactCount
<1> QED BY <1>1, Inductive, PTL

(* Neither while(1) is entered before a late limit stop: the next buffer   *)
(* is always ready when hm_dma_ck needs it, and no step is asked of a      *)
(* stopped ramp.                                                           *)
THEOREM NeverTrapped == Spec => []NoTrap
<1>1. IndInv => NoTrap
  BY DEF IndInv, Motion, NoTrap
<1> QED BY <1>1, Inductive, PTL

(* A transfer-complete left pending by a limit handler is the only way an  *)
(* axis marked asStoped has its timer or its DMA channel switched on.      *)
THEOREM StoppedIsOff == Spec => []StopHolds
<1>1. IndInv => StopHolds
  BY DEF IndInv, Motion, InvStoped, StopHolds, StopIsFinal
<1> QED BY <1>1, Inductive, PTL

(* DMA plays the steps in the order hm_dma_update generated them, until a  *)
(* limit stop comes late.                                                  *)
THEOREM BuffersInOrder == Spec => []PlaysInOrder
<1>1. IndInv => PlaysInOrder
  <2> SUFFICES ASSUME IndInv, ~late, chan.tim
               PROVE  axis.dma_buf[chan.cmar].first + (chan.len - chan.cndtr) = out
    BY DEF PlaysInOrder, InOrder
  <2>1. TypeOK /\ Motion
    BY IndInvParts
  <2>2. axis.axis_state = "asRuning"
    BY <2>1, States DEF Motion, InvStoped
  <2> QED BY <2>1, <2>2 DEF Motion, InvRunning, InvOrder, Cur
<1> QED BY <1>1, Inductive, PTL

(* A motion nobody asked to stop smoothly never runs on without DMA,       *)
(* except the move of zero steps, until a limit stop comes late.           *)
THEOREM NeverFreeWheels == Spec => []NoRunaway
<1>1. IndInv => NoRunaway
  <2> SUFFICES ASSUME IndInv, FreeWheel, ~late, ~axis.bstopping,
                      axis.steps_request # 0
               PROVE  FALSE
    BY DEF NoRunaway
  <2>1. TypeOK /\ Motion
    BY IndInvParts
  <2>2. axis.axis_state = "asRuning"
    BY <2>1, States DEF Motion, InvStoped, FreeWheel
  <2>3. chan.len = 0 /\ chan.len = Cur(axis).len
    BY <2>1, <2>2, ChanFields DEF Motion, InvRunning, FreeWheel, TypeOK
  <2>4. Cur(axis).len > 0
    BY <2>1, <2>2, BufAssumption DEF Motion, InvMove, InvFree
  <2> QED BY <2>3, <2>4
<1> QED BY <1>1, Inductive, PTL

(* Only a transfer-complete handler takes back a pending transfer-complete.*)
LEMMA OnlyComplete ==
  ASSUME TypeOK, Next, chan.tc, ~chan'.tc
  PROVE  DmaComplete
<1>1. ~EthMayRun /\ ~DmaHalf
  BY DEF EthMayRun, DmaHalf
<1>2. ASSUME Tick
      PROVE  FALSE
  BY <1>2 DEF Tick, TypeOK, Chan
<1>3. ASSUME NEW a \in Axis, LimitStop(a)
      PROVE  FALSE
  <2>1. chan' = SuddenChan(a, chan) \/ chan' = chan
    BY <1>3, Zenon DEF LimitStop
  <2>2. SuddenChan(a, chan).tc = chan.tc
    <3>1. hm_dma_setup(a, chan, FALSE) \in Chan
      BY SetupType DEF TypeOK
    <3>2. hm_dma_setup(a, chan, FALSE).tc = chan.tc
      BY DEF hm_dma_setup, TypeOK, Chan
    <3> QED BY <3>1, <3>2 DEF SuddenChan, Chan
  <2> QED BY <2>1, <2>2
<1>4. axis \in Axis /\ pins["Home"] \in BOOLEAN
  BY DEF TypeOK, Lines
<1>5. \A l \in Lines : ~ExtiIrq(l)
  BY <1>3, <1>4, Zenon DEF ExtiIrq
<1>6. ~LimitCheck
  <2> DEFINE seen == IF axis.axis_state = "asRuning" /\ axis.bdo_home
                     THEN [axis EXCEPT !.blast_hit_home = pins["Home"]]
                     ELSE axis
  <2>1. seen \in Axis
    BY <1>4, AxisUpdate, Zenon
  <2>2. LimitCheck => LimitStop(seen) \/ chan' = chan
    BY Zenon DEF LimitCheck
  <2> QED BY <1>3, <2>1, <2>2
<1>7. \A l \in Lines : ~SensorChange(l)
  BY DEF SensorChange
<1>8. /\ \A step \in FixSteps, lim \in RampLimits : ~FixMove(step, lim)
      /\ \A dir \in {"rdCW", "rdCCW"}, bhome \in BOOLEAN : ~KeepMove(dir, bhome)
      /\ ~StopSmooth /\ ~StopSudden /\ ~ResetBoard
      /\ \A p \in NewPositions : ~SetPos(p)
      /\ \A b \in BOOLEAN : ~EnableAxis(b)
      /\ \A flag \in SettingFlags, v \in SettingValues : ~SetAxisSetting(flag, v)
  BY <1>1, Zenon
     DEF FixMove, KeepMove, StopSmooth, StopSudden, ResetBoard, SetPos,
         EnableAxis, SetAxisSetting
<1> QED BY <1>1, <1>2, <1>5, <1>6, <1>7, <1>8, Zenon DEF Next, DmaIrq

(* A fixed move that ends by itself has sent exactly the steps requested.  *)
THEOREM MoveHasItsLength == Spec => MoveIsExact
<1> DEFINE Ends == /\ chan.tc /\ ~chan'.tc /\ ~axis.bstopping /\ ~late
                   /\ axis.steps_request # HM_INVALID_STEP
                   /\ axis.axis_state = "asRuning"
                   /\ axis'.axis_state = "asStoped"
<1>1. ASSUME IndInv, Next, Ends
      PROVE  out = axis.steps_request
  <2> DEFINE a == AfterHalf
             c == Counted(a)
  <2>1. TypeOK /\ Motion
    BY <1>1, IndInvParts
  <2>2. DmaComplete
    BY <1>1, <2>1, OnlyComplete
  <2>3. hm_dma_ck(a)
    BY <2>1, <2>2, NoOverrun DEF DmaComplete
  <2>4. a \in Axis /\ SameMotion(a, axis) /\ Cur(a) = Cur(axis)
    BY <2>1, AfterHalfView
  <2>5. /\ c \in Axis /\ c.axis_state = a.axis_state
        /\ c.steps_request = a.steps_request
        /\ c.steps_actual = a.steps_actual + Cur(a).len
    BY <2>4, CountedView
  <2>6. ~MoreToSend(c)
    <3> HIDE DEF c, a
    <3>1. [c EXCEPT !.dma_buf_idx = OtherBlock(a)].axis_state = c.axis_state
      BY <2>5 DEF Axis
    <3>2. c.axis_state = "asRuning"
      BY <1>1, <2>4, <2>5 DEF SameMotion
    <3>3. \/ ~MoreToSend(c)
          \/ axis' = [c EXCEPT !.dma_buf_idx = OtherBlock(a)]
          \/ axis' = c
      BY <2>3, Zenon DEF hm_dma_ck, c
    <3> QED BY <1>1, <3>1, <3>2, <3>3
  <2>7. axis.steps_actual + Cur(axis).len >= axis.steps_request
    <3> HIDE DEF c, a
    <3>1. axis.steps_actual \in Int /\ Cur(axis).len \in Nat
          /\ axis.steps_request \in Int
      BY <2>1, AxisFields DEF TypeOK
    <3> QED BY <2>4, <2>5, <2>6, <3>1 DEF MoreToSend, SameMotion
  <2>8. axis.steps_actual + Cur(axis).len <= axis.steps_request
    <3>1. /\ a.steps_taken = axis.steps_actual + Cur(axis).len + OtherLen(a)
          /\ a.steps_taken <= axis.steps_request
      BY <1>1, <2>1, AfterHalfView
    <3>2. /\ axis.steps_actual \in Int /\ Cur(axis).len \in Nat
          /\ OtherLen(a) \in Nat /\ axis.steps_request \in Int
      BY <2>1, <2>4, AxisFields DEF TypeOK
    <3> QED BY <3>1, <3>2
  <2>9. out = axis.steps_actual + Cur(axis).len
    <3>1. /\ chan.cndtr = 0 /\ chan.len = Cur(axis).len
          /\ out = axis.steps_actual + (chan.len - chan.cndtr)
      BY <1>1, <2>1 DEF Motion, InvRunning, InvMove
    <3>2. Cur(axis).len \in Nat
      BY <2>1, AxisFields DEF TypeOK
    <3> QED BY <3>1, <3>2
  <2>10. axis.steps_actual \in Int /\ Cur(axis).len \in Nat
         /\ axis.steps_request \in Int
    BY <2>1, AxisFields DEF TypeOK
  <2> QED BY <2>7, <2>8, <2>9, <2>10
<1>2. IndInv /\ [Next]_vars => [Ends => out = axis.steps_request]_vars
  BY <1>1
<1> QED BY <1>2, Inductive, PTL DEF Spec, MoveIsExact
=============================================================================
