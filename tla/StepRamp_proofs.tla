-------------------------- MODULE StepRamp_proofs ---------------------------
(* Where a fixed move stops, for every length, drive, curve and buffer     *)
(* size.  The counters decide it; nothing is assumed of the delays.        *)
EXTENDS StepRamp, TLAPS

-----------------------------------------------------------------------------
(* The closed form.                                                        *)

LEMMA Shape ==
  ASSUME NEW n \in Nat, n > 1, NEW lim \in Nat \ {0}
  PROVE  /\ DecelVal(n, lim) \in Int /\ DecelVal(n, lim) < 0
         /\ n + DecelVal(n, lim) \in Nat \ {0}
         /\ TurnsAt(n, lim) \in Nat /\ TurnsAt(n, lim) >= 2
         /\ TurnsAt(n, lim) >= n + DecelVal(n, lim)
         /\ TurnsAt(n, lim) = 2 \/ TurnsAt(n, lim) = n + DecelVal(n, lim)
         /\ StopAt(n, lim) = TurnsAt(n, lim) - DecelVal(n, lim)
<1>1. n \div 2 \in Nat /\ n \div 2 > 0 /\ n \div 2 < n
  OBVIOUS
<1>2. DecelVal(n, lim) = IF n \div 2 <= lim THEN n \div 2 - n ELSE -lim
  BY <1>1 DEF DecelVal
<1>3. /\ DecelVal(n, lim) \in Int /\ DecelVal(n, lim) < 0
      /\ n + DecelVal(n, lim) \in Nat \ {0}
  BY <1>1, <1>2
<1> QED BY <1>3 DEF TurnsAt, StopAt

LEMMA LimitIs ==
  ASSUME NEW k \in Nat
  PROVE  AtLeastOne(k) \in Nat \ {0}
BY DEF AtLeastOne

-----------------------------------------------------------------------------
(* The arithmetic of the delays leaves the counters alone.                 *)

SameCounters(s, r) ==
  /\ Whole(s)
  /\ s.run_state = r.run_state /\ s.bstopping = r.bstopping
  /\ s.n2 = r.n2 /\ s.steps_request = r.steps_request
  /\ s.steps_taken = r.steps_taken /\ s.decel_start = r.decel_start
  /\ s.decel_val = r.decel_val /\ s.accel_count = r.accel_count

LEMMA RestIs ==
  ASSUME NEW r, Whole(r), NEW v
  PROVE  SameCounters([r EXCEPT !.rest = v], r)
BY DEF Whole, SameCounters

LEMMA DelayIs ==
  ASSUME NEW r, Whole(r), NEW v
  PROVE  SameCounters([r EXCEPT !.step_delay = v], r)
BY DEF Whole, SameCounters

LEMMA DividedIs ==
  ASSUME NEW r, Whole(r), NEW a, NEW b
  PROVE  SameCounters(Divided(r, a, b), r)
<1> DEFINE d == UInt16(r.step_delay - CDiv(a, b))
           e == CMod(a, b)
<1>1. Divided(r, a, b) = [r EXCEPT !.step_delay = d, !.rest = e]
  BY DEF Divided
<1> HIDE DEF d, e
<1>2. PICK s : s = [r EXCEPT !.step_delay = d]
  OBVIOUS
<1>3. SameCounters(s, r)
  BY <1>2, DelayIs
<1>4. SameCounters([s EXCEPT !.rest = e], s)
  BY <1>3, RestIs DEF SameCounters
<1>5. Divided(r, a, b) = [s EXCEPT !.rest = e]
  BY <1>1, <1>2
<1> QED BY <1>3, <1>4, <1>5 DEF SameCounters

LEMMA AccelDelayIs ==
  ASSUME NEW r, Whole(r)
  PROVE  SameCounters(AccelDelay(r), r)
<1> DEFINE s == IF r.method = "sCurve" /\ r.accel_count \in {r.n2, r.n2 + 1}
                THEN [r EXCEPT !.rest = 0] ELSE r
<1>1. SameCounters(s, r)
  <2>1. SameCounters(r, r)
    BY DEF SameCounters
  <2> QED BY <2>1, RestIs
<1>2. AccelDelay(r) = IF s.method = "sCurve" /\ s.n2 > s.accel_count
                      THEN Divided(s, 2 * s.step_delay * (s.n2 - s.accel_count) + s.rest,
                                      (4 * s.accel_count + 1) * s.n2)
                      ELSE TDivided(s)
  BY DEF AccelDelay
<1> HIDE DEF s
<1>3. Whole(s)
  BY <1>1 DEF SameCounters
<1>4. \A a, b : SameCounters(Divided(s, a, b), s)
  BY <1>3, DividedIs
<1>5. SameCounters(AccelDelay(r), s)
  BY <1>2, <1>4 DEF TDivided
<1> QED BY <1>1, <1>5 DEF SameCounters

LEMMA DecelDelayIs ==
  ASSUME NEW r, Whole(r)
  PROVE  SameCounters(DecelDelay(r), r)
<1>1. \A a, b : SameCounters(Divided(r, a, b), r)
  BY DividedIs
<1> QED BY <1>1 DEF DecelDelay, TDivided

-----------------------------------------------------------------------------
(* What one step does to the counters.                                     *)

(* What the set-up of a move fixes.                                        *)
Fixed(s, r) ==
  /\ Whole(s)
  /\ s.bstopping = r.bstopping /\ s.n2 = r.n2 /\ s.steps_request = r.steps_request
  /\ s.decel_start = r.decel_start /\ s.decel_val = r.decel_val

LEMMA SameIsFixed ==
  ASSUME NEW r, NEW s, SameCounters(s, r)
  PROVE  Fixed(s, r)
BY DEF SameCounters, Fixed

LEMMA TakenIs ==
  ASSUME NEW r, Whole(r), NEW v, NEW s, s = [r EXCEPT !.steps_taken = v]
  PROVE  /\ Fixed(s, r) /\ s.steps_taken = v
         /\ s.run_state = r.run_state /\ s.accel_count = r.accel_count
BY DEF Whole, Fixed

LEMMA CountIs ==
  ASSUME NEW r, Whole(r), NEW v, NEW s, s = [r EXCEPT !.accel_count = v]
  PROVE  /\ Fixed(s, r) /\ s.accel_count = v
         /\ s.run_state = r.run_state /\ s.steps_taken = r.steps_taken
BY DEF Whole, Fixed

LEMMA StateIs ==
  ASSUME NEW r, Whole(r), NEW v, NEW s, s = [r EXCEPT !.run_state = v]
  PROVE  /\ Fixed(s, r) /\ s.run_state = v
         /\ s.accel_count = r.accel_count /\ s.steps_taken = r.steps_taken
BY DEF Whole, Fixed

LEMMA LastIs ==
  ASSUME NEW r, Whole(r), NEW v
  PROVE  SameCounters([r EXCEPT !.last_accel_delay = v], r)
BY DEF Whole, SameCounters

LEMMA StartDecelIs ==
  ASSUME NEW r, Whole(r), NEW s, s = StartDecel(r)
  PROVE  /\ Fixed(s, r) /\ s.steps_taken = r.steps_taken
         /\ s.run_state = "rsDECEL" /\ s.accel_count = r.decel_val
<1>1. PICK c : c = [r EXCEPT !.accel_count = r.decel_val]
  OBVIOUS
<1>2. s = [c EXCEPT !.run_state = "rsDECEL"]
  BY <1>1 DEF StartDecel
<1>3. Fixed(c, r) /\ c.accel_count = r.decel_val /\ c.steps_taken = r.steps_taken
  BY <1>1, CountIs
<1>4. Whole(c)
  BY <1>3 DEF Fixed
<1>5. /\ Fixed(s, c) /\ s.run_state = "rsDECEL"
      /\ s.accel_count = c.accel_count /\ s.steps_taken = c.steps_taken
  BY <1>2, <1>4, StateIs
<1> QED BY <1>3, <1>5 DEF Fixed

LEMMA AcceleratedIs ==
  ASSUME NEW c, Whole(c), c.run_state = "rsACCEL", NEW s, s = Accelerated(c)
  PROVE  /\ Fixed(s, c) /\ s.steps_taken = c.steps_taken
         /\ IF DecelDue(c) THEN s.run_state = "rsDECEL" /\ s.accel_count = c.decel_val
            ELSE s.run_state \in {"rsACCEL", "rsRUN"}
<1>1. PICK b : b = [c EXCEPT !.accel_count = c.accel_count + 1]
  OBVIOUS
<1>2. /\ Fixed(b, c) /\ b.run_state = "rsACCEL" /\ b.steps_taken = c.steps_taken
  BY <1>1, CountIs
<1>3. PICK r : r = AccelDelay(b)
  OBVIOUS
<1>4. /\ Fixed(r, c) /\ r.run_state = "rsACCEL" /\ r.steps_taken = c.steps_taken
  <2>1. SameCounters(r, b)
    BY <1>2, <1>3, AccelDelayIs DEF Fixed
  <2> QED BY <1>2, <2>1 DEF SameCounters, Fixed
<1>5. DecelDue(r) <=> DecelDue(c)
  BY <1>4 DEF DecelDue, Fixed
<1>6. s = IF DecelDue(r) THEN StartDecel(r)
          ELSE IF r.step_delay <= r.min_delay
          THEN [r EXCEPT !.last_accel_delay = r.step_delay,
                         !.step_delay = r.min_delay, !.rest = 0,
                         !.run_state = "rsRUN"]
          ELSE r
  BY <1>1, <1>3 DEF Accelerated
<1>7. Whole(r)
  BY <1>4 DEF Fixed
<1>8. CASE DecelDue(r)
  <2>1. s = StartDecel(r)
    BY <1>6, <1>8
  <2> QED BY <1>4, <1>5, <1>7, <1>8, <2>1, StartDecelIs DEF Fixed
<1>9. CASE ~DecelDue(r) /\ r.step_delay <= r.min_delay
  <2>1. PICK x : x = [r EXCEPT !.last_accel_delay = r.step_delay]
    OBVIOUS
  <2>2. PICK y : y = [x EXCEPT !.step_delay = r.min_delay]
    OBVIOUS
  <2>3. PICK z : z = [y EXCEPT !.rest = 0]
    OBVIOUS
  <2>4. s = [z EXCEPT !.run_state = "rsRUN"]
    BY <1>6, <1>9, <2>1, <2>2, <2>3
  <2>5. SameCounters(x, r)
    BY <1>7, <2>1, LastIs
  <2>6. SameCounters(y, x)
    BY <2>2, <2>5, DelayIs, SMTT(60) DEF SameCounters
  <2>7. SameCounters(z, y)
    BY <2>3, <2>6, RestIs DEF SameCounters
  <2>8. SameCounters(z, r)
    BY <2>5, <2>6, <2>7 DEF SameCounters
  <2>9. /\ Fixed(s, z) /\ s.run_state = "rsRUN" /\ s.steps_taken = z.steps_taken
    BY <2>4, <2>8, StateIs DEF SameCounters
  <2> QED BY <1>4, <1>5, <1>9, <2>8, <2>9 DEF SameCounters, Fixed
<1>10. CASE ~DecelDue(r) /\ ~(r.step_delay <= r.min_delay)
  BY <1>4, <1>5, <1>6, <1>10
<1> QED BY <1>8, <1>9, <1>10

LEMMA CruisedIs ==
  ASSUME NEW c, Whole(c), c.run_state = "rsRUN", NEW s, s = Cruised(c)
  PROVE  /\ Fixed(s, c) /\ s.steps_taken = c.steps_taken
         /\ IF DecelDue(c) THEN s.run_state = "rsDECEL" /\ s.accel_count = c.decel_val
            ELSE s.run_state = "rsRUN"
<1>1. CASE DecelDue(c)
  <2>1. PICK x : x = StartDecel(c)
    OBVIOUS
  <2>2. s = [x EXCEPT !.step_delay = c.last_accel_delay]
    BY <1>1, <2>1 DEF Cruised
  <2>3. /\ Fixed(x, c) /\ x.steps_taken = c.steps_taken
        /\ x.run_state = "rsDECEL" /\ x.accel_count = c.decel_val
    BY <2>1, StartDecelIs
  <2>4. SameCounters(s, x)
    BY <2>2, <2>3, DelayIs DEF Fixed
  <2> QED BY <1>1, <2>3, <2>4 DEF SameCounters, Fixed
<1>2. CASE ~DecelDue(c)
  <2>1. s = [c EXCEPT !.step_delay = c.min_delay]
    BY <1>2 DEF Cruised
  <2>2. SameCounters(s, c)
    BY <2>1, DelayIs
  <2> QED BY <1>2, <2>2 DEF SameCounters, Fixed
<1> QED BY <1>1, <1>2

LEMMA DeceleratedIs ==
  ASSUME NEW c, Whole(c), c.run_state = "rsDECEL", NEW s, s = Decelerated(c)
  PROVE  /\ Fixed(s, c) /\ s.steps_taken = c.steps_taken
         /\ s.accel_count = c.accel_count + 1
         /\ s.run_state = IF s.accel_count >= 0 THEN "rsSTOP" ELSE "rsDECEL"
<1>1. PICK b : b = [c EXCEPT !.accel_count = c.accel_count + 1]
  OBVIOUS
<1>2. /\ Fixed(b, c) /\ b.run_state = "rsDECEL" /\ b.steps_taken = c.steps_taken
      /\ b.accel_count = c.accel_count + 1
  BY <1>1, CountIs
<1>3. PICK r : r = DecelDelay(b)
  OBVIOUS
<1>4. /\ Fixed(r, c) /\ r.run_state = "rsDECEL" /\ r.steps_taken = c.steps_taken
      /\ r.accel_count = c.accel_count + 1 /\ Whole(r)
  <2>1. SameCounters(r, b)
    BY <1>2, <1>3, DecelDelayIs DEF Fixed
  <2> QED BY <1>2, <2>1 DEF SameCounters, Fixed
<1>5. s = IF r.accel_count >= 0 THEN [r EXCEPT !.run_state = "rsSTOP"] ELSE r
  BY <1>1, <1>3 DEF Decelerated
<1>6. CASE r.accel_count >= 0
  <2>1. s = [r EXCEPT !.run_state = "rsSTOP"]
    BY <1>5, <1>6
  <2>2. /\ Fixed(s, r) /\ s.run_state = "rsSTOP"
        /\ s.accel_count = r.accel_count /\ s.steps_taken = r.steps_taken
    BY <1>4, <2>1, StateIs
  <2> QED BY <1>4, <1>6, <2>2 DEF Fixed
<1>7. CASE ~(r.accel_count >= 0)
  BY <1>4, <1>5, <1>7
<1> QED BY <1>6, <1>7

LEMMA SteppedIs ==
  ASSUME NEW r, Whole(r), r.run_state \in RunState, NEW s, s = Stepped(r)
  PROVE  /\ Fixed(s, r) /\ s.run_state \in RunState
         /\ s.steps_taken = IF r.steps_request = HM_INVALID_STEP THEN r.steps_taken
                            ELSE r.steps_taken + 1
         /\ r.run_state \in {"rsACCEL", "rsRUN"} =>
              IF r.decel_start # HM_INVALID_STEP /\ s.steps_taken >= r.decel_start
              THEN s.run_state = "rsDECEL" /\ s.accel_count = r.decel_val
              ELSE s.run_state \in {"rsACCEL", "rsRUN"}
         /\ r.run_state = "rsDECEL" =>
              /\ s.accel_count = r.accel_count + 1
              /\ s.run_state = IF s.accel_count >= 0 THEN "rsSTOP" ELSE "rsDECEL"
         /\ r.run_state = "rsSTOP" => s.run_state = "rsSTOP"
<1>1. PICK c : c = IF r.steps_request = HM_INVALID_STEP THEN r
                   ELSE [r EXCEPT !.steps_taken = r.steps_taken + 1]
  OBVIOUS
<1>2. /\ Fixed(c, r) /\ c.run_state = r.run_state /\ c.accel_count = r.accel_count
      /\ c.steps_taken = IF r.steps_request = HM_INVALID_STEP THEN r.steps_taken
                         ELSE r.steps_taken + 1
  <2>1. CASE r.steps_request = HM_INVALID_STEP
    BY <1>1, <2>1 DEF Fixed
  <2>2. CASE r.steps_request # HM_INVALID_STEP
    <3>1. c = [r EXCEPT !.steps_taken = r.steps_taken + 1]
      BY <1>1, <2>2
    <3> QED BY <2>2, <3>1, TakenIs
  <2> QED BY <2>1, <2>2
<1>3. s = CASE c.run_state = "rsACCEL" -> Accelerated(c)
            [] c.run_state = "rsRUN"   -> Cruised(c)
            [] c.run_state = "rsDECEL" -> Decelerated(c)
            [] c.run_state = "rsSTOP"  -> c
  BY <1>1 DEF Stepped
<1>4. Whole(c)
  BY <1>2 DEF Fixed
<1>5. DecelDue(c) <=> r.decel_start # HM_INVALID_STEP /\ c.steps_taken >= r.decel_start
  BY <1>2 DEF DecelDue, Fixed
<1>6. CASE r.run_state = "rsACCEL"
  <2>1. s = Accelerated(c) /\ c.run_state = "rsACCEL"
    BY <1>2, <1>3, <1>6
  <2>2. /\ Fixed(s, c) /\ s.steps_taken = c.steps_taken
        /\ IF DecelDue(c) THEN s.run_state = "rsDECEL" /\ s.accel_count = c.decel_val
           ELSE s.run_state \in {"rsACCEL", "rsRUN"}
    BY <1>4, <2>1, AcceleratedIs
  <2> QED BY <1>2, <1>5, <1>6, <2>2 DEF Fixed, RunState
<1>7. CASE r.run_state = "rsRUN"
  <2>1. s = Cruised(c) /\ c.run_state = "rsRUN"
    BY <1>2, <1>3, <1>7
  <2>2. /\ Fixed(s, c) /\ s.steps_taken = c.steps_taken
        /\ IF DecelDue(c) THEN s.run_state = "rsDECEL" /\ s.accel_count = c.decel_val
           ELSE s.run_state = "rsRUN"
    BY <1>4, <2>1, CruisedIs
  <2> QED BY <1>2, <1>5, <1>7, <2>2 DEF Fixed, RunState
<1>8. CASE r.run_state = "rsDECEL"
  <2>1. s = Decelerated(c) /\ c.run_state = "rsDECEL"
    BY <1>2, <1>3, <1>8
  <2>2. /\ Fixed(s, c) /\ s.steps_taken = c.steps_taken
        /\ s.accel_count = c.accel_count + 1
        /\ s.run_state = IF s.accel_count >= 0 THEN "rsSTOP" ELSE "rsDECEL"
    BY <1>4, <2>1, DeceleratedIs
  <2> QED BY <1>2, <1>8, <2>2 DEF Fixed, RunState
<1>9. CASE r.run_state = "rsSTOP"
  <2>1. s = c
    BY <1>2, <1>3, <1>9
  <2> QED BY <1>2, <1>9, <2>1 DEF RunState
<1> QED BY <1>6, <1>7, <1>8, <1>9 DEF RunState

-----------------------------------------------------------------------------
(* A step of a move that goes on.                                          *)
LEMMA StepKeepsMove ==
  ASSUME NEW r, Whole(r), r.run_state \in RunState, r.steps_request > 1, InvMove(r),
         NEW s, s = Stepped(r)
  PROVE  InvMove(s)
<1>1. PICK n \in Nat, lim \in Nat \ {0}, t \in Nat \ {0} :
        n = r.steps_request /\ lim = AtLeastOne(r.n2) /\ t = r.steps_taken
  BY DEF InvMove
<1>2. PICK v \in Int, turns \in Nat : v = DecelVal(n, lim) /\ turns = TurnsAt(n, lim)
  BY <1>1, Shape
<1>3. /\ v < 0 /\ n + v \in Nat \ {0} /\ turns >= 2 /\ turns >= n + v
      /\ turns = 2 \/ turns = n + v
      /\ StopAt(n, lim) = turns - v
  BY <1>1, <1>2, Shape, ZenonT(60)
<1>4. /\ r.decel_val = v /\ r.decel_start = n + v
      /\ r.run_state \in {"rsACCEL", "rsRUN"} => t < turns
      /\ r.run_state = "rsDECEL" =>
           t >= turns /\ r.accel_count = v + (t - turns) /\ r.accel_count < 0
      /\ r.run_state = "rsSTOP" => t >= turns - v
  BY <1>1, <1>2, <1>3 DEF InvMove
<1>5. n # HM_INVALID_STEP /\ n + v # HM_INVALID_STEP
  BY <1>3 DEF HM_INVALID_STEP
<1>6. /\ Fixed(s, r) /\ s.run_state \in RunState /\ s.steps_taken = t + 1
      /\ r.run_state \in {"rsACCEL", "rsRUN"} =>
           IF t + 1 >= n + v THEN s.run_state = "rsDECEL" /\ s.accel_count = v
           ELSE s.run_state \in {"rsACCEL", "rsRUN"}
      /\ r.run_state = "rsDECEL" =>
           /\ s.accel_count = r.accel_count + 1
           /\ s.run_state = IF s.accel_count >= 0 THEN "rsSTOP" ELSE "rsDECEL"
      /\ r.run_state = "rsSTOP" => s.run_state = "rsSTOP"
  BY <1>1, <1>4, <1>5, SteppedIs
<1>7. /\ s.run_state \in {"rsACCEL", "rsRUN"} => t + 1 < turns
      /\ s.run_state = "rsDECEL" =>
           /\ t + 1 >= turns /\ s.accel_count = v + ((t + 1) - turns)
           /\ s.accel_count < 0
      /\ s.run_state = "rsSTOP" => t + 1 >= turns - v
  <2>1. CASE r.run_state \in {"rsACCEL", "rsRUN"}
    <3>1. CASE t + 1 >= n + v
      <4>1. t + 1 = turns
        BY <1>3, <1>4, <2>1, <3>1
      <4> QED BY <1>3, <1>6, <2>1, <3>1, <4>1
    <3>2. CASE ~(t + 1 >= n + v)
      <4>1. t + 1 < turns
        BY <1>3, <3>2
      <4> QED BY <1>6, <2>1, <3>2, <4>1
    <3> QED BY <3>1, <3>2
  <2>2. CASE r.run_state = "rsDECEL"
    <3>1. s.accel_count = v + ((t + 1) - turns) /\ t + 1 >= turns
      BY <1>4, <1>6, <2>2
    <3> QED BY <1>6, <2>2, <3>1
  <2>3. CASE r.run_state = "rsSTOP"
    BY <1>4, <1>6, <2>3
  <2> QED BY <2>1, <2>2, <2>3 DEF RunState
<1>8. /\ s.steps_request = n /\ AtLeastOne(s.n2) = lim
      /\ s.decel_val = v /\ s.decel_start = n + v /\ t + 1 \in Nat \ {0}
  BY <1>1, <1>4, <1>6 DEF Fixed
<1> QED BY <1>2, <1>3, <1>6, <1>7, <1>8 DEF InvMove

-----------------------------------------------------------------------------
(* Setting up.                                                             *)

LEMMA NatProduct == \A a, b \in Nat : a * b \in Nat
OBVIOUS

LEMMA NatQuotient == \A a \in Nat, b \in Nat \ {0} : a \div b \in Nat
OBVIOUS

LEMMA MaxSLimIs ==
  ASSUME NEW r, NEW d \in Drives
  PROVE  MaxSLim(r, d) \in Nat
<1>1. PICK a \in Nat \ {0}, v \in Nat : a = d.accel /\ v = d.speed
  BY DriveAssumption
<1>2. 125 * v * v \in Nat /\ (v \div 2) * v \in Nat
  <2>1. v \div 2 \in Nat /\ 125 * v \in Nat
    BY NatQuotient, NatProduct
  <2> QED BY <2>1, NatProduct
<1>3. 92 * a \in Nat \ {0}
  OBVIOUS
<1> QED BY <1>1, <1>2, <1>3, NatQuotient DEF MaxSLim

(* The record that SetUp and the assignments after it leave.               *)
LEMMA SetUpIs ==
  ASSUME NEW r, Whole(r), NEW d, NEW s, s = SetUp(r, d)
  PROVE  /\ Whole(s) /\ s.run_state \in {"rsRUN", "rsACCEL"}
         /\ s.bstopping = FALSE /\ s.n2 = MaxSLim(r, d) /\ s.steps_taken = 1
<1> DEFINE min == UInt16(tim_base_fre(d.speed) \div d.speed)
           c0 == FirstDelay(d)
           lim == MaxSLim(r, d)
           delay == IF c0 <= min THEN min ELSE c0
           state == IF c0 <= min THEN "rsRUN" ELSE "rsACCEL"
<1>1. s = [r EXCEPT !.bstopping = FALSE, !.rest = 0, !.n2 = lim, !.min_delay = min,
                    !.step_delay = delay, !.run_state = state,
                    !.accel_count = 0, !.steps_taken = 1]
  BY DEF SetUp
<1>2. state \in {"rsRUN", "rsACCEL"}
  OBVIOUS
<1> HIDE DEF min, c0, lim, delay, state
<1>3. s = [run_state |-> state, method |-> r.method, bstopping |-> FALSE,
           n2 |-> lim, steps_request |-> r.steps_request, steps_taken |-> 1,
           decel_start |-> r.decel_start, decel_val |-> r.decel_val,
           accel_count |-> 0, rest |-> 0, last_accel_delay |-> r.last_accel_delay,
           min_delay |-> min, step_delay |-> delay]
  BY <1>1, ZenonT(60) DEF Whole
<1>4. Whole(s) /\ s.run_state = state /\ s.bstopping = FALSE
        /\ s.n2 = lim /\ s.steps_taken = 1
  BY <1>3 DEF Whole
<1> QED BY <1>2, <1>4 DEF lim

LEMMA MoveIs ==
  ASSUME NEW r, Whole(r), NEW n \in Nat, n > 1, NEW d \in Drives, NEW s,
         NEW val, val = DecelVal(n, AtLeastOne(MaxSLim(r, d))),
         s = [SetUp(r, d) EXCEPT !.steps_request = n, !.decel_val = val,
                                 !.decel_start = n + val]
  PROVE  Whole(s) /\ s.run_state \in RunState /\ InvMove(s)
<1>1. PICK u : u = SetUp(r, d)
  OBVIOUS
<1>2. /\ Whole(u) /\ u.run_state \in {"rsRUN", "rsACCEL"}
      /\ u.bstopping = FALSE /\ u.n2 = MaxSLim(r, d) /\ u.steps_taken = 1
  BY <1>1, SetUpIs
<1>3. PICK lim \in Nat \ {0} : lim = AtLeastOne(u.n2)
  BY <1>2, MaxSLimIs, LimitIs
<1>4. val = DecelVal(n, lim) /\ TurnsAt(n, lim) >= 2 /\ TurnsAt(n, lim) \in Nat
  BY <1>2, <1>3, Shape
<1>5. s = [u EXCEPT !.steps_request = n, !.decel_val = val, !.decel_start = n + val]
  BY <1>1
<1>6. PICK m : m = n + val
  OBVIOUS
<1>7. s = [run_state |-> u.run_state, method |-> u.method, bstopping |-> u.bstopping,
           n2 |-> u.n2, steps_request |-> n, steps_taken |-> u.steps_taken,
           decel_start |-> m, decel_val |-> val,
           accel_count |-> u.accel_count, rest |-> u.rest,
           last_accel_delay |-> u.last_accel_delay,
           min_delay |-> u.min_delay, step_delay |-> u.step_delay]
  BY <1>2, <1>5, <1>6 DEF Whole
<1>8. /\ Whole(s) /\ s.run_state = u.run_state /\ s.n2 = u.n2 /\ s.steps_request = n
      /\ s.steps_taken = u.steps_taken /\ s.decel_start = m /\ s.decel_val = val
  <2>1. /\ s.run_state = u.run_state /\ s.n2 = u.n2 /\ s.steps_request = n
        /\ s.steps_taken = u.steps_taken /\ s.decel_start = m /\ s.decel_val = val
    BY ONLY <1>7
  <2>2. /\ s.method = u.method /\ s.bstopping = u.bstopping
        /\ s.accel_count = u.accel_count /\ s.rest = u.rest
        /\ s.last_accel_delay = u.last_accel_delay
        /\ s.min_delay = u.min_delay /\ s.step_delay = u.step_delay
    BY ONLY <1>7
  <2>3. Whole(s)
    BY <1>7, <2>1, <2>2, Zenon DEF Whole
  <2> QED BY <2>1, <2>3
<1>9. InvMove(s)
  BY <1>2, <1>3, <1>4, <1>6, <1>8 DEF InvMove
<1> QED BY <1>2, <1>8, <1>9 DEF RunState

LEMMA InitIs == Init => IndInv
<1> SUFFICES ASSUME Init PROVE IndInv
  OBVIOUS
<1>1. Whole(ramp) /\ ramp.run_state = "rsSTOP" /\ busy = FALSE
  BY DEF Init, Whole
<1> QED BY <1>1 DEF IndInv, RunState

LEMMA IndNext == IndInv /\ [Next]_vars => IndInv'
<1> SUFFICES ASSUME IndInv, [Next]_vars PROVE IndInv'
  OBVIOUS
<1>1. /\ Whole(ramp) /\ ramp.run_state \in RunState
      /\ busy /\ ~ramp.bstopping /\ ramp.steps_request > 1 => InvMove(ramp)
  BY DEF IndInv
<1>2. ASSUME Whole(ramp)', (ramp.run_state \in RunState)',
             (busy /\ ~ramp.bstopping /\ ramp.steps_request > 1 => InvMove(ramp))'
      PROVE  IndInv'
  BY <1>2 DEF IndInv
<1>3. ASSUME NEW n \in Lengths, NEW d \in Drives, Move(n, d)
      PROVE  IndInv'
  <2>1. n \in Nat \ {0}
    BY LengthAssumption
  <2>2. CASE n = 1
    <3>1. ramp' = [ramp EXCEPT !.bstopping = FALSE, !.rest = 0, !.steps_request = 1,
                               !.steps_taken = 1, !.accel_count = -1,
                               !.run_state = "rsDECEL", !.step_delay = 1000]
      BY <1>3, <2>2 DEF Move
    <3>2. PICK u : u = [ramp EXCEPT !.bstopping = FALSE, !.rest = 0, !.steps_request = 1,
                                    !.steps_taken = 1, !.accel_count = -1]
      OBVIOUS
    <3>3. Whole(u) /\ u.steps_request = 1
      <4>1. PICK a : a = -1
        OBVIOUS
      <4>2. u = [run_state |-> ramp.run_state, method |-> ramp.method, bstopping |-> FALSE,
                 n2 |-> ramp.n2, steps_request |-> 1, steps_taken |-> 1,
                 decel_start |-> ramp.decel_start, decel_val |-> ramp.decel_val,
                 accel_count |-> a, rest |-> 0,
                 last_accel_delay |-> ramp.last_accel_delay,
                 min_delay |-> ramp.min_delay, step_delay |-> ramp.step_delay]
        BY <1>1, <3>2, <4>1 DEF Whole
      <4> QED BY <4>2 DEF Whole
    <3>4. PICK w : w = [u EXCEPT !.run_state = "rsDECEL"]
      OBVIOUS
    <3>5. Fixed(w, u) /\ w.run_state = "rsDECEL"
      BY <3>3, <3>4, StateIs
    <3>6. ramp' = [w EXCEPT !.step_delay = 1000]
      BY <3>1, <3>2, <3>4
    <3>7. SameCounters(ramp', w)
      BY <3>5, <3>6, DelayIs DEF Fixed
    <3>8. Whole(ramp') /\ ramp'.run_state = "rsDECEL" /\ ramp'.steps_request = 1
      BY <3>3, <3>5, <3>7 DEF SameCounters, Fixed
    <3> QED BY <1>2, <3>8 DEF RunState
  <2>3. CASE n # 1
    <3>1. n \in Nat /\ n > 1
      BY <2>1, <2>3
    <3>2. PICK val : val = DecelVal(n, AtLeastOne(MaxSLim(ramp, d)))
      OBVIOUS
    <3>3. ramp' = [SetUp(ramp, d) EXCEPT !.steps_request = n, !.decel_val = val,
                                         !.decel_start = n + val]
      BY <1>3, <2>3, <3>2 DEF Move
    <3>4. Whole(ramp') /\ ramp'.run_state \in RunState /\ InvMove(ramp')
      BY <1>1, <3>1, <3>2, <3>3, MoveIs
    <3> QED BY <1>2, <3>4
  <2> QED BY <2>2, <2>3
<1>4. ASSUME NEW d \in Drives, StartRun(d)
      PROVE  IndInv'
  <2>1. PICK u : u = SetUp(ramp, d)
    OBVIOUS
  <2>2. Whole(u) /\ u.run_state \in {"rsRUN", "rsACCEL"}
    BY <1>1, <2>1, SetUpIs
  <2>3. ramp' = [u EXCEPT !.steps_request = HM_INVALID_STEP,
                          !.decel_start = HM_INVALID_STEP]
    BY <1>4, <2>1 DEF StartRun
  <2>4. ramp' = [run_state |-> u.run_state, method |-> u.method, bstopping |-> u.bstopping,
                 n2 |-> u.n2, steps_request |-> HM_INVALID_STEP,
                 steps_taken |-> u.steps_taken,
                 decel_start |-> HM_INVALID_STEP, decel_val |-> u.decel_val,
                 accel_count |-> u.accel_count, rest |-> u.rest,
                 last_accel_delay |-> u.last_accel_delay,
                 min_delay |-> u.min_delay, step_delay |-> u.step_delay]
    BY <2>2, <2>3 DEF Whole
  <2>5. /\ Whole(ramp') /\ ramp'.run_state = u.run_state
        /\ ramp'.steps_request = HM_INVALID_STEP
    BY <2>4 DEF Whole
  <2>6. ~(ramp'.steps_request > 1)
    BY <2>5 DEF HM_INVALID_STEP
  <2> QED BY <1>2, <2>2, <2>5, <2>6 DEF RunState
<1>5. ASSUME NEW m \in Methods, SetCurve(m)
      PROVE  IndInv'
  <2>1. ramp' = [ramp EXCEPT !.method = m] /\ busy' = busy
    BY <1>5 DEF SetCurve
  <2>2. SameCounters(ramp', ramp)
    BY <1>1, <2>1 DEF Whole, SameCounters
  <2>3. InvMove(ramp) => InvMove(ramp')
    BY <2>2 DEF SameCounters, InvMove
  <2> QED BY <1>1, <1>2, <2>1, <2>2, <2>3 DEF SameCounters
<1>6. CASE Generate
  <2>1. ramp' = Stepped(ramp) /\ busy' = busy
    BY <1>6 DEF Generate
  <2>2. Fixed(ramp', ramp) /\ ramp'.run_state \in RunState
    BY <1>1, <2>1, SteppedIs
  <2>3. ramp.steps_request > 1 /\ InvMove(ramp) => InvMove(ramp')
    BY <1>1, <2>1, StepKeepsMove
  <2> QED BY <1>1, <1>2, <2>1, <2>2, <2>3 DEF Fixed
<1>7. CASE StopSmooth
  <2>1. ramp' = [ramp EXCEPT !.bstopping = TRUE, !.rest = 0, !.steps_request = StopSteps,
                             !.steps_taken = 0, !.run_state = "rsDECEL",
                             !.accel_count = -StopSteps]
    BY <1>7 DEF StopSmooth, SlowDown
  <2>2. PICK a : a = -StopSteps
    OBVIOUS
  <2>3. ramp' = [run_state |-> "rsDECEL", method |-> ramp.method, bstopping |-> TRUE,
                 n2 |-> ramp.n2, steps_request |-> StopSteps, steps_taken |-> 0,
                 decel_start |-> ramp.decel_start, decel_val |-> ramp.decel_val,
                 accel_count |-> a, rest |-> 0,
                 last_accel_delay |-> ramp.last_accel_delay,
                 min_delay |-> ramp.min_delay, step_delay |-> ramp.step_delay]
    BY <1>1, <2>1, <2>2 DEF Whole
  <2>4. Whole(ramp') /\ ramp'.run_state = "rsDECEL" /\ ramp'.bstopping = TRUE
    BY <2>3 DEF Whole
  <2> QED BY <1>2, <2>4 DEF RunState
<1>8. CASE Filled \/ Refill \/ AxisStops \/ UNCHANGED vars
  <2>1. ramp' = ramp /\ (busy' => busy)
    BY <1>8 DEF Filled, Refill, AxisStops, vars
  <2> QED BY <1>1, <1>2, <2>1
<1> QED BY <1>3, <1>4, <1>5, <1>6, <1>7, <1>8 DEF Next

-----------------------------------------------------------------------------
(* The loop of hm_dma_update reaches rsSTOP exactly at the step StopAt     *)
(* gives, in every fixed move of more than one step that no smooth stop    *)
(* shortens: for every length, accel, speed, curve and buffer size, also   *)
(* when the curve is changed while the axis runs.                          *)
THEOREM StopsAtClosedForm == Spec => []StopsWhereExpected
<1>1. IndInv => StopsWhereExpected
  <2> SUFFICES ASSUME IndInv, busy, ~ramp.bstopping, ramp.steps_request > 1
               PROVE  ramp.run_state = "rsSTOP" <=>
                        ramp.steps_taken >= StopAt(ramp.steps_request, AtLeastOne(ramp.n2))
    BY DEF StopsWhereExpected
  <2>1. InvMove(ramp) /\ ramp.run_state \in RunState
    BY DEF IndInv
  <2>2. PICK n \in Nat, lim \in Nat \ {0}, t \in Nat :
          n = ramp.steps_request /\ lim = AtLeastOne(ramp.n2) /\ t = ramp.steps_taken
    BY <2>1 DEF InvMove
  <2>3. PICK v \in Int, turns \in Nat : v = DecelVal(n, lim) /\ turns = TurnsAt(n, lim)
    BY <2>2, Shape
  <2>4. v < 0 /\ StopAt(n, lim) = turns - v
    BY <2>2, <2>3, Shape
  <2>5. /\ ramp.run_state \in {"rsACCEL", "rsRUN"} => t < turns
        /\ ramp.run_state = "rsDECEL" => v + (t - turns) < 0
        /\ ramp.run_state = "rsSTOP" => t >= turns - v
    BY <2>1, <2>2, <2>3, <2>4 DEF InvMove
  <2>6. ramp.run_state = "rsSTOP" <=> t >= turns - v
    BY <2>1, <2>4, <2>5 DEF RunState
  <2> QED BY <2>2, <2>4, <2>6
<1>2. Init => IndInv
  BY InitIs
<1>3. IndInv /\ [Next]_vars => IndInv'
  BY IndNext
<1> QED BY <1>1, <1>2, <1>3, PTL DEF Spec
=============================================================================
